-------------------------- MODULE Accounts_proofs --------------------------
(* What the parts of Accounts keep to, for every number of tabs, accounts,    *)
(* invitations, keys and requests: the tabs of one browser share one session, *)
(* whoever edits a board has the access it was authorized by, and keys stay   *)
(* within their quota.                                                        *)
EXTENDS SessionRenewal, BoardMembers, ApiKeys, SequenceTheorems, FiniteSetTheorems, TLAPS

(***************************************************************************)
(* The session: the inductive invariant                                    *)
(*                                                                         *)
(* A call that may change the cookies holds the lock alone, and has        *)
(* announced itself in the store, until its last answer is read.           *)
(***************************************************************************)

Shares(t) == call[t].kind = "shared"

\* A call past the queue has its request on the wire, and no other has.
CallsFit ==
  \A t \in Tabs :
    /\ wire[t] # NoRequest <=> Holds(t)
    /\ Holds(t) => wire[t].path = call[t].step
    /\ Shares(t) <=> call[t].step = "shared"

\* Calls that hold the lock together all share it.
LockIsHeld == \A t, x \in Tabs : t # x /\ Holds(t) /\ Holds(x) => Shares(t)

\* While a call holds the lock alone, the store does not vouch for the cookies.
Announced == \A t \in Tabs : Holds(t) /\ ~Shares(t) => store = Unknown

\* What a request on the wire may carry: an answer that tells the tab what its session
\* is says so in the cookies as well, and answers to shared requests change none.
RequestFits(r) ==
  /\ r.generation = Unset \/ (r.generation >= Anonymous /\ r.stage = "answered")
  /\ r.path = "shared" => r.generation = Unset
  /\ r.generation = Anonymous => r.path = "csrf"
  /\ r.path # "shared" /\ r.stage = "answered" /\ r.status \in {"ok", "unauthenticated"}
       => r.generation # Unset
  /\ r.stage = "resolved" => r.path = "rotate" /\ r.cookie \in Known
RequestsFit == \A w \in Senders : wire[w] # NoRequest => RequestFits(wire[w])

\* A family begins with its first session.
FamiliesFit == \A s \in Known : sessions[s].family <= s

LInv ==
  /\ Typed /\ CallsFit /\ LockIsHeld /\ Announced /\ RequestsFit /\ FamiliesFit
  /\ OneActive /\ StoreTellsJar /\ BoundToItsSession /\ RenewsWhatWasAsked

\* While nothing is lost and no page left, no request carries a rotated credential: the
\* browser itself holds one only until it reads the answer that replaces it.
Presented(r) ==
  /\ r.stage # "answered" => StatusOf(r.cookie) # "rotated"
  /\ r.stage = "resolved" => StatusOf(r.cookie) = "active"
  /\ StatusOf(r.generation) # "rotated"
Replaced ==
  \E t \in Tabs : /\ wire[t] # NoRequest /\ wire[t].path = "rotate"
                  /\ wire[t].stage = "answered" /\ wire[t].generation # Unset
CInv ==
  /\ wire[Gone] = NoRequest
  /\ \A t \in Tabs : wire[t] # NoRequest => Presented(wire[t])
  /\ StatusOf(jar) = "rotated" => Replaced
  /\ NeverTakenForTheft
NothingLost == ~lost

IInv == LInv /\ (NothingLost => CInv)

\* What a step that loses nothing has to keep.
Kept == LInv' /\ (NothingLost => CInv')

(***************************************************************************)
(* The sessions of the server                                              *)
(***************************************************************************)

SessionType == [family : 1 .. MaxSessions, reason : {"none", "logout", "reuse", "expired"},
                status : {"active", "rotated", "revoked", "expired"}]
SessionsFit ==
  sessions \in Seq(SessionType) /\ Len(sessions) <= MaxSessions /\ FamiliesFit /\ OneActive

\* No session that was not rotated before is rotated now.
NoNewRotated ==
  \A s \in 1..Len(sessions') :
    sessions'[s].status = "rotated" => s \in Known /\ sessions[s].status = "rotated"

\* A family is ended: its active session is, and nothing else changes.
LEMMA TerminalizeFits ==
  ASSUME SessionsFit, NEW s, NEW reason \in {"logout", "reuse", "expired"}, Terminalize(s, reason)
  PROVE  /\ SessionsFit' /\ Len(sessions') = Len(sessions) /\ NoNewRotated
         /\ reason # "reuse" /\ NeverTakenForTheft => NeverTakenForTheft'
  <1> DEFINE ended(x) == IF sessions[x].family = sessions[s].family /\ sessions[x].status = "active"
                       THEN [sessions[x] EXCEPT !.status = IF reason = "expired" THEN "expired" ELSE "revoked",
                                                !.reason = reason]
                       ELSE sessions[x]
  <1>1. sessions \in Seq(SessionType) /\ Len(sessions) \in Nat /\ Known = 1..Len(sessions)
    BY LenProperties DEF SessionsFit, Known
  <1>2. sessions' = [x \in 1..Len(sessions) |-> ended(x)]
    BY <1>1 DEF Terminalize
  <1>3. ASSUME NEW x \in 1..Len(sessions)
        PROVE  /\ ended(x) \in SessionType /\ ended(x).family = sessions[x].family
               /\ ended(x).status \in {"active", "rotated"} => ended(x) = sessions[x]
               /\ ended(x).reason = "reuse" => reason = "reuse" \/ sessions[x].reason = "reuse"
    <2>1. sessions[x] \in SessionType
      BY <1>1, ElementOfSeq
    <2>2. QED
      BY <2>1 DEF SessionType
  <1> HIDE DEF ended
  <1>4. sessions' \in Seq(SessionType) /\ Len(sessions') = Len(sessions)
    BY <1>1, <1>2, <1>3
  <1>5. \A x \in 1..Len(sessions) : sessions'[x] = ended(x)
    BY <1>2
  <1>6. FamiliesFit' /\ OneActive'
    BY <1>1, <1>3, <1>4, <1>5 DEF SessionsFit, FamiliesFit, OneActive, Known
  <1>7. NoNewRotated
    BY <1>1, <1>3, <1>4, <1>5 DEF NoNewRotated
  <1>8. reason # "reuse" /\ NeverTakenForTheft => NeverTakenForTheft'
    BY <1>1, <1>3, <1>4, <1>5 DEF NeverTakenForTheft, Known
  <1>9. QED
    BY <1>4, <1>6, <1>7, <1>8 DEF SessionsFit

\* A session is added; no other one of its family is active.
LEMMA SessionAdded ==
  ASSUME SessionsFit, NEW before \in Seq(SessionType), NEW new \in SessionType,
         Len(before) = Len(sessions), Len(sessions) < MaxSessions, MaxSessions \in Nat,
         sessions' = Append(before, new), new.family <= Len(sessions) + 1,
         \A x \in Known : /\ before[x].family = sessions[x].family /\ before[x].reason = sessions[x].reason
                          /\ before[x].status = "active" => sessions[x].status = "active"
                          /\ before[x].family = new.family => before[x].status # "active"
  PROVE  /\ SessionsFit' /\ Len(sessions') = Len(sessions) + 1 /\ sessions'[Len(sessions) + 1] = new
         /\ \A x \in Known : sessions'[x] = before[x]
         /\ NeverTakenForTheft /\ new.reason # "reuse" => NeverTakenForTheft'
  <1>1. Len(sessions) \in Nat /\ Known = 1..Len(sessions)
    BY LenProperties DEF SessionsFit, Known
  <1>2. /\ sessions' \in Seq(SessionType) /\ Len(sessions') = Len(sessions) + 1
        /\ \A x \in 1..Len(sessions) : sessions'[x] = before[x]
        /\ sessions'[Len(sessions) + 1] = new
    BY AppendProperties
  <1>3. ASSUME NEW x \in 1..Len(sessions')
        PROVE  x \in 1..Len(sessions) \/ x = Len(sessions) + 1
    BY <1>1, <1>2
  <1>4. FamiliesFit'
    BY <1>1, <1>2, <1>3 DEF SessionsFit, FamiliesFit, Known
  <1>5. OneActive'
    BY <1>1, <1>2, <1>3 DEF SessionsFit, OneActive, Known
  <1>6. NeverTakenForTheft /\ new.reason # "reuse" => NeverTakenForTheft'
    BY <1>1, <1>2, <1>3 DEF NeverTakenForTheft, Known
  <1>7. QED
    BY <1>1, <1>2, <1>4, <1>5, <1>6 DEF SessionsFit

(***************************************************************************)
(* The answers of the server                                               *)
(***************************************************************************)

\* What the server does with the request of w: r is what is left of it on the wire.
Answers(w, r) ==
  /\ wire[w] # NoRequest /\ wire[w].stage # "answered" /\ UNCHANGED browser
  /\ wire' = [wire EXCEPT ![w] = r]
  /\ r = NoRequest => w = Gone
  /\ r # NoRequest =>
       /\ r \in Request /\ r.stage # "sent"
       /\ r.path = wire[w].path /\ r.cookie = wire[w].cookie /\ r.bound = wire[w].bound
       /\ RequestFits(r)' /\ StatusOf(r.generation)' # "rotated"
       /\ r.stage = "resolved" => Active(w) /\ UNCHANGED sessions
  /\ SessionsFit' /\ Len(sessions) <= Len(sessions')
  /\ \/ NeverTakenForTheft => NeverTakenForTheft'
     \/ StatusOf(wire[w].cookie) = "rotated"
     \/ wire[w].stage = "resolved" /\ StatusOf(wire[w].cookie) # "active"
  /\ \/ NoNewRotated
     \/ wire[w].stage = "resolved" /\ (r # NoRequest => r.stage = "answered" /\ r.generation # Unset)

\* The fields of a request.
LEMMA RequestTyped ==
  ASSUME SessionAssumption, Typed, NEW w \in Senders, wire[w] # NoRequest
  PROVE  /\ wire[w] \in Request
         /\ wire[w].path \in {"session", "csrf", "submit", "rotate", "logout", "shared"}
         /\ wire[w].cookie \in Anonymous .. MaxSessions /\ wire[w].header \in Anonymous .. MaxSessions
         /\ wire[w].bound \in 0 .. MaxSessions /\ wire[w].stage \in {"sent", "resolved", "answered"}
         /\ wire[w].generation \in Unset .. MaxSessions
         /\ wire[w].status \in {"none", "ok", "unauthenticated", "refused", "unavailable"}
  BY DEF Typed, Request

\* The parts of the invariant that are about the sessions.
LEMMA SessionsAreFit ==
  ASSUME LInv
  PROVE  SessionsFit /\ Len(sessions) \in Nat /\ Known = 1..Len(sessions)
  BY LenProperties DEF LInv, Typed, SessionsFit, SessionType, Known

\* An answer and its cookies.
LEMMA ReplyFits ==
  ASSUME SessionAssumption, LInv, NEW w \in Senders, wire[w] # NoRequest,
         NEW status \in {"none", "ok", "unauthenticated", "refused", "unavailable"},
         NEW g \in Generations, g = Unset \/ g >= Anonymous, Reply(w, status, g),
         wire[w].path = "shared" => g = Unset, g = Anonymous => wire[w].path = "csrf",
         wire[w].path # "shared" /\ status \in {"ok", "unauthenticated"} => g # Unset
  PROVE  \E r : /\ wire' = [wire EXCEPT ![w] = r] /\ (r = NoRequest <=> w = Gone)
                /\ r # NoRequest =>
                     /\ r \in Request /\ r.stage = "answered" /\ r.generation = g /\ RequestFits(r)'
                     /\ r.path = wire[w].path /\ r.cookie = wire[w].cookie /\ r.bound = wire[w].bound
  <1>1. PICK q : q = [wire[w] EXCEPT !.stage = "answered", !.status = status, !.generation = g]
    OBVIOUS
  <1>2. wire[w] \in Request
    BY RequestTyped DEF LInv
  <1>3. /\ q \in Request /\ q.stage = "answered" /\ q.generation = g /\ q.status = status
        /\ q.path = wire[w].path /\ q.cookie = wire[w].cookie /\ q.bound = wire[w].bound
    BY <1>1, <1>2 DEF Request, Generations
  <1>4. q # NoRequest
    BY <1>3 DEF SessionAssumption
  <1>5. RequestFits(q)'
    BY <1>3 DEF RequestFits
  <1>6. PICK r : r = IF w = Gone THEN NoRequest ELSE q
    OBVIOUS
  <1>7. wire' = [wire EXCEPT ![w] = r]
    BY <1>1, <1>6 DEF Reply
  <1>8. QED
    BY <1>3, <1>4, <1>5, <1>6, <1>7
\* An answer that leaves the sessions as they are.
LEMMA PlainReply ==
  ASSUME SessionAssumption, LInv, NEW w \in Senders, wire[w] # NoRequest, wire[w].stage # "answered",
         NEW status \in {"none", "ok", "unauthenticated", "refused", "unavailable"},
         NEW g \in Generations, g = Unset \/ g >= Anonymous, Reply(w, status, g),
         wire[w].path = "shared" => g = Unset, g = Anonymous => wire[w].path = "csrf",
         StatusOf(g) # "rotated",
         wire[w].path # "shared" /\ status \in {"ok", "unauthenticated"} => g # Unset,
         UNCHANGED <<sessions, browser>>
  PROVE  \E r : Answers(w, r)
  <1>1. PICK r : /\ wire' = [wire EXCEPT ![w] = r] /\ (r = NoRequest <=> w = Gone)
                 /\ r # NoRequest =>
                      /\ r \in Request /\ r.stage = "answered" /\ r.generation = g /\ RequestFits(r)'
                      /\ r.path = wire[w].path /\ r.cookie = wire[w].cookie /\ r.bound = wire[w].bound
    BY ReplyFits
  <1>2. SessionsFit' /\ Len(sessions) <= Len(sessions') /\ NoNewRotated
        /\ (NeverTakenForTheft => NeverTakenForTheft')
    BY SessionsAreFit
       DEF SessionsFit, FamiliesFit, OneActive, Known, NoNewRotated, NeverTakenForTheft
  <1>3. r # NoRequest => StatusOf(r.generation)' # "rotated"
    BY <1>1 DEF StatusOf, Known
  <1>4. QED
    BY <1>1, <1>2, <1>3 DEF Answers

\* A generation that is not that of a session.
LEMMA NoSession ==
  ASSUME LInv, NEW g \in {Unset, Unknown, Anonymous, Cleared}
  PROVE  g \notin Known /\ StatusOf(g) = "absent"
  BY SessionsAreFit DEF StatusOf, Unset, Unknown, Anonymous, Cleared

\* The answer to a request whose family was ended.
LEMMA EndingReply ==
  ASSUME SessionAssumption, LInv, NEW w \in Senders, wire[w] # NoRequest, wire[w].stage # "answered",
         NEW status \in {"ok", "unauthenticated"}, NEW g \in {Unset, Cleared}, Reply(w, status, g),
         g = Unset <=> wire[w].path = "shared",
         NEW s, NEW reason \in {"logout", "reuse", "expired"}, Terminalize(s, reason), UNCHANGED browser,
         reason = "reuse" => \/ StatusOf(wire[w].cookie) = "rotated"
                             \/ wire[w].stage = "resolved" /\ StatusOf(wire[w].cookie) # "active"
  PROVE  \E r : Answers(w, r)
  <1>1. g \in Generations /\ (g = Unset \/ g >= Anonymous) /\ g # Anonymous
    BY DEF Generations, Unset, Cleared, Anonymous, SessionAssumption
  <1>2. PICK r : /\ wire' = [wire EXCEPT ![w] = r] /\ (r = NoRequest <=> w = Gone)
                 /\ r # NoRequest =>
                      /\ r \in Request /\ r.stage = "answered" /\ r.generation = g /\ RequestFits(r)'
                      /\ r.path = wire[w].path /\ r.cookie = wire[w].cookie /\ r.bound = wire[w].bound
    BY <1>1, ReplyFits
  <1>3. /\ SessionsFit' /\ Len(sessions') = Len(sessions) /\ NoNewRotated
        /\ reason # "reuse" /\ NeverTakenForTheft => NeverTakenForTheft'
    BY SessionsAreFit, TerminalizeFits
  <1>4. StatusOf(g)' # "rotated"
    BY <1>3, SessionsAreFit DEF StatusOf, Known, Unset, Cleared
  <1>5. Len(sessions) <= Len(sessions')
    BY <1>3, SessionsAreFit
  <1>6. QED
    BY <1>2, <1>3, <1>4, <1>5 DEF Answers

\* The generation an unauthenticated answer leaves the browser with.
LEMMA RejectsAnswers ==
  ASSUME SessionAssumption, LInv, NEW w \in Senders, wire[w] # NoRequest, wire[w].stage # "answered",
         Rejects(w), UNCHANGED browser
  PROVE  \E r : Answers(w, r)
  <1>1. PICK g : g = IF wire[w].path = "shared" THEN Unset ELSE Cleared
    OBVIOUS
  <1>2. /\ g \in {Unset, Cleared} /\ (g = Unset <=> wire[w].path = "shared")
        /\ Reply(w, "unauthenticated", g)
    BY <1>1 DEF Rejects, Unauthenticated, Unset, Cleared
  <1>3. CASE UNCHANGED sessions
    <2>1. g \in Generations /\ (g = Unset \/ g >= Anonymous) /\ g # Anonymous /\ StatusOf(g) # "rotated"
      BY <1>2, NoSession DEF Generations, Unset, Cleared, Anonymous, SessionAssumption
    <2>2. QED
      BY <1>2, <1>3, <2>1, PlainReply
  <1>4. CASE StatusOf(wire[w].cookie) = "rotated" /\ Terminalize(wire[w].cookie, "reuse")
    BY <1>2, <1>4, EndingReply
  <1>5. CASE StatusOf(wire[w].cookie) = "active" /\ Terminalize(wire[w].cookie, "expired")
    BY <1>2, <1>5, EndingReply
  <1>6. QED
    BY <1>3, <1>4, <1>5 DEF Rejects

\* A request of the application, or a probe.
LEMMA ResolveAnswers ==
  ASSUME SessionAssumption, LInv, NEW w \in Senders, Resolve(w)
  PROVE  \E r : Answers(w, r)
  <1>1. wire[w] # NoRequest /\ wire[w].stage # "answered" /\ UNCHANGED browser
    BY DEF Resolve, Sent
  <1>2. CASE Rejects(w)
    BY <1>1, <1>2, RejectsAnswers
  <1>3. CASE /\ Active(w) /\ Reply(w, "ok", IF wire[w].path = "shared" THEN Unset ELSE wire[w].cookie)
             /\ UNCHANGED sessions
    <2>1. PICK g : g = IF wire[w].path = "shared" THEN Unset ELSE wire[w].cookie
      OBVIOUS
    <2>2. Reply(w, "ok", g) /\ wire[w].cookie \in Known /\ StatusOf(wire[w].cookie) = "active"
      BY <1>3, <2>1 DEF Active, StatusOf
    <2>3. wire[w].cookie \in 1..MaxSessions /\ MaxSessions \in Nat
      BY <2>2, SessionsAreFit DEF SessionsFit, SessionAssumption
    <2>4. g \in Generations /\ (g = Unset \/ g >= Anonymous) /\ StatusOf(g) # "rotated"
          /\ (wire[w].path = "shared" => g = Unset) /\ (wire[w].path # "shared" => g # Unset)
          /\ g # Anonymous
      BY <2>1, <2>2, <2>3, NoSession DEF Generations, Unset, Anonymous
    <2>5. QED
      BY <1>1, <1>3, <2>2, <2>4, PlainReply
  <1>4. QED
    BY <1>2, <1>3 DEF Resolve

\* The anonymous CSRF cookie.
LEMMA CsrfAnswers ==
  ASSUME SessionAssumption, LInv, NEW w \in Senders, Csrf(w)
  PROVE  \E r : Answers(w, r)
  <1>1. /\ wire[w] # NoRequest /\ wire[w].stage # "answered" /\ wire[w].path = "csrf"
        /\ UNCHANGED <<sessions, browser>>
    BY DEF Csrf, Sent
  <1>2. /\ Unset \in Generations /\ Anonymous \in Generations /\ Anonymous >= Anonymous /\ Anonymous # Unset
        /\ StatusOf(Unset) # "rotated" /\ StatusOf(Anonymous) # "rotated"
    BY NoSession DEF Generations, Unset, Anonymous, SessionAssumption
  <1>3. Reply(w, "refused", Unset) \/ Reply(w, "ok", Anonymous)
    BY DEF Csrf
  <1>4. QED
    BY <1>1, <1>2, <1>3, PlainReply

\* A request that was refused or could not be served.
LEMMA RefusedAnswers ==
  ASSUME SessionAssumption, LInv, NEW w \in Senders, wire[w] # NoRequest, wire[w].stage # "answered",
         NEW status \in {"refused", "unavailable"}, Reply(w, status, Unset), UNCHANGED <<sessions, browser>>
  PROVE  \E r : Answers(w, r)
  <1>1. Unset \in Generations /\ StatusOf(Unset) # "rotated" /\ Unset # Anonymous
    BY NoSession DEF Generations, Unset, Anonymous, SessionAssumption
  <1>2. QED
    BY <1>1, PlainReply

\* The answer with the cookies of a new session.
LEMMA AddingReply ==
  ASSUME SessionAssumption, LInv, NEW w \in Senders, wire[w] # NoRequest, wire[w].stage # "answered",
         wire[w].path # "shared", Len(sessions) < MaxSessions, Reply(w, "ok", Len(sessions) + 1),
         SessionsFit', Len(sessions') = Len(sessions) + 1,
         sessions'[Len(sessions) + 1].status = "active", UNCHANGED browser,
         NeverTakenForTheft => NeverTakenForTheft', wire[w].stage = "resolved" \/ NoNewRotated
  PROVE  \E r : Answers(w, r)
  <1>1. PICK g : g = Len(sessions) + 1
    OBVIOUS
  <1>2. /\ g \in Generations /\ g >= Anonymous /\ g # Anonymous /\ g # Unset /\ Reply(w, "ok", g)
        /\ Len(sessions) <= Len(sessions')
    BY <1>1, SessionsAreFit DEF Generations, Unset, Anonymous, SessionAssumption
  <1>3. PICK r : /\ wire' = [wire EXCEPT ![w] = r] /\ (r = NoRequest <=> w = Gone)
                 /\ r # NoRequest =>
                      /\ r \in Request /\ r.stage = "answered" /\ r.generation = g /\ RequestFits(r)'
                      /\ r.path = wire[w].path /\ r.cookie = wire[w].cookie /\ r.bound = wire[w].bound
    BY <1>2, ReplyFits
  <1>4. r # NoRequest => StatusOf(r.generation)' # "rotated"
    BY <1>1, <1>3, SessionsAreFit DEF StatusOf, Known
  <1>5. QED
    BY <1>2, <1>3, <1>4 DEF Answers

\* A session of a new family, or wrong credentials.
LEMMA SubmitAnswers ==
  ASSUME SessionAssumption, LInv, NEW w \in Senders, Submit(w)
  PROVE  \E r : Answers(w, r)
  <1>1. /\ wire[w] # NoRequest /\ wire[w].stage # "answered" /\ wire[w].path = "submit" /\ UNCHANGED browser
    BY DEF Submit, Sent
  <1>2. CASE Reply(w, "refused", Unset) /\ UNCHANGED sessions
    BY <1>1, <1>2, RefusedAnswers
  <1>3. CASE /\ Len(sessions) < MaxSessions /\ Reply(w, "ok", Len(sessions) + 1)
             /\ sessions' = Append(sessions, [family |-> Len(sessions) + 1, status |-> "active",
                                              reason |-> "none"])
    <2>1. PICK new : new = [family |-> Len(sessions) + 1, status |-> "active", reason |-> "none"]
      OBVIOUS
    <2>2. /\ SessionsFit /\ Len(sessions) \in Nat /\ Known = 1..Len(sessions) /\ MaxSessions \in Nat
          /\ sessions \in Seq(SessionType) /\ sessions' = Append(sessions, new)
      BY <1>3, <2>1, SessionsAreFit DEF SessionsFit, SessionAssumption
    <2>3. new \in SessionType /\ new.family = Len(sessions) + 1 /\ new.status = "active" /\ new.reason = "none"
      BY <1>3, <2>1, <2>2 DEF SessionType
    <2>4. \A x \in Known : sessions[x].family # new.family
      <3>1. ASSUME NEW x \in Known PROVE sessions[x].family \in Nat /\ sessions[x].family <= x
        <4>1. sessions[x] \in SessionType
          BY <2>2, ElementOfSeq
        <4>2. QED
          BY <2>2, <4>1 DEF SessionsFit, FamiliesFit, SessionType
      <3>2. QED
        BY <2>2, <2>3, <3>1
    <2>5. /\ SessionsFit' /\ Len(sessions') = Len(sessions) + 1 /\ sessions'[Len(sessions) + 1] = new
          /\ \A x \in Known : sessions'[x] = sessions[x]
          /\ NeverTakenForTheft => NeverTakenForTheft'
      BY <1>3, <2>2, <2>3, <2>4, SessionAdded
    <2>6. NoNewRotated
      BY <2>2, <2>3, <2>5 DEF NoNewRotated
    <2>7. QED
      BY <1>1, <1>3, <2>3, <2>5, <2>6, AddingReply
  <1>4. QED
    BY <1>2, <1>3 DEF Submit

\* A renewal finds the session of its cookie.
LEMMA ResolveRenewAnswers ==
  ASSUME SessionAssumption, LInv, NEW w \in Senders, ResolveRenew(w)
  PROVE  \E r : Answers(w, r)
  <1>1. /\ wire[w] # NoRequest /\ wire[w].stage = "sent" /\ wire[w].path = "rotate" /\ UNCHANGED browser
    BY DEF ResolveRenew, Sent
  <1>2. CASE Reply(w, "refused", Unset) /\ UNCHANGED sessions
    BY <1>1, <1>2, RefusedAnswers
  <1>3. CASE Rejects(w)
    BY <1>1, <1>3, RejectsAnswers
  <1>4. CASE Active(w) /\ wire' = [wire EXCEPT ![w].stage = "resolved"] /\ UNCHANGED sessions
    <2>1. PICK r : r = [wire[w] EXCEPT !.stage = "resolved"]
      OBVIOUS
    <2>2. wire[w] \in Request /\ RequestFits(wire[w])
      BY <1>1, RequestTyped DEF LInv, RequestsFit
    <2>3. /\ r \in Request /\ r.stage = "resolved" /\ r.path = wire[w].path /\ r.cookie = wire[w].cookie
          /\ r.bound = wire[w].bound /\ r.generation = wire[w].generation
      BY <2>1, <2>2 DEF Request
    <2>4. r.generation = Unset /\ r.cookie \in Known /\ Unset # Anonymous
      BY <1>1, <1>4, <2>2, <2>3 DEF RequestFits, Active, StatusOf, Unset, Anonymous
    <2>5. r # NoRequest /\ wire' = [wire EXCEPT ![w] = r]
      BY <1>4, <2>1, <2>3 DEF SessionAssumption
    <2>6. RequestFits(r)'
      BY <1>1, <1>4, <2>3, <2>4 DEF RequestFits, Known
    <2>7. StatusOf(r.generation)' # "rotated"
      BY <1>4, <2>4, NoSession DEF StatusOf, Known
    <2>8. SessionsFit' /\ Len(sessions) <= Len(sessions') /\ NoNewRotated
      BY <1>4, SessionsAreFit DEF SessionsFit, FamiliesFit, OneActive, Known, NoNewRotated
    <2>9. NeverTakenForTheft => NeverTakenForTheft'
      BY <1>4 DEF NeverTakenForTheft, Known
    <2>10. QED
      BY <1>1, <1>4, <2>3, <2>5, <2>6, <2>7, <2>8, <2>9 DEF Answers
  <1>5. QED
    BY <1>2, <1>3, <1>4 DEF ResolveRenew

\* The session is rotated, unless somebody has rotated it before.
LEMMA RotateAnswers ==
  ASSUME SessionAssumption, LInv, NEW w \in Senders, Rotate(w)
  PROVE  \E r : Answers(w, r)
  <1> DEFINE s == wire[w].cookie
  <1>1. wire[w] # NoRequest /\ wire[w].stage = "resolved" /\ UNCHANGED browser
    BY DEF Rotate
  <1>2. wire[w].path = "rotate" /\ s \in Known
    BY <1>1 DEF LInv, RequestsFit, RequestFits
  <1>3. /\ SessionsFit /\ Len(sessions) \in Nat /\ Known = 1..Len(sessions) /\ MaxSessions \in Nat
        /\ sessions \in Seq(SessionType) /\ sessions[s] \in SessionType
    BY <1>2, SessionsAreFit, ElementOfSeq DEF SessionsFit, SessionAssumption
  <1>4. CASE sessions[s].status = "active" /\ Reply(w, "unavailable", Unset) /\ UNCHANGED sessions
    BY <1>1, <1>4, RefusedAnswers
  <1>5. CASE /\ sessions[s].status = "active" /\ Len(sessions) < MaxSessions
             /\ sessions' = Append([sessions EXCEPT ![s].status = "rotated"],
                                   [family |-> sessions[s].family, status |-> "active", reason |-> "none"])
             /\ Reply(w, "ok", Len(sessions) + 1)
    <2>1. PICK old : old = [sessions[s] EXCEPT !.status = "rotated"]
      OBVIOUS
    <2>2. PICK before : before = [sessions EXCEPT ![s] = old]
      OBVIOUS
    <2>3. PICK new : new = [family |-> sessions[s].family, status |-> "active", reason |-> "none"]
      OBVIOUS
    <2>4. /\ old \in SessionType /\ old.family = sessions[s].family /\ old.status = "rotated"
          /\ old.reason = sessions[s].reason
      BY <1>3, <2>1 DEF SessionType
    <2>5. /\ new \in SessionType /\ new.family = sessions[s].family /\ new.status = "active"
          /\ new.reason = "none"
      BY <1>3, <2>3 DEF SessionType
    <2>6. /\ before \in Seq(SessionType) /\ Len(before) = Len(sessions)
          /\ \A x \in 1..Len(sessions) : before[x] = IF x = s THEN old ELSE sessions[x]
      BY <1>2, <1>3, <2>2, <2>4, ExceptSeq
    <2>7. sessions' = Append(before, new)
      BY <1>5, <2>1, <2>2, <2>3
    <2>8. ASSUME NEW x \in Known
          PROVE  /\ before[x].family = sessions[x].family /\ before[x].reason = sessions[x].reason
                 /\ before[x].status = "active" => sessions[x].status = "active"
                 /\ before[x].family = new.family => before[x].status # "active"
      BY <1>2, <1>3, <1>5, <2>4, <2>5, <2>6 DEF SessionsFit, OneActive
    <2>9. new.family <= Len(sessions) + 1
      BY <1>2, <1>3, <2>5 DEF SessionsFit, FamiliesFit, SessionType
    <2>10. /\ SessionsFit' /\ Len(sessions') = Len(sessions) + 1 /\ sessions'[Len(sessions) + 1] = new
           /\ NeverTakenForTheft => NeverTakenForTheft'
      BY <1>3, <1>5, <2>5, <2>6, <2>7, <2>8, <2>9, SessionAdded
    <2>11. QED
      BY <1>1, <1>2, <1>5, <2>5, <2>10, AddingReply
  <1>6. CASE sessions[s].status # "active" /\ Terminalize(s, "reuse") /\ Unauthenticated(w)
    <2>1. Reply(w, "unauthenticated", Cleared) /\ Cleared # Unset
      BY <1>2, <1>6 DEF Unauthenticated, Cleared, Unset
    <2>2. StatusOf(s) # "active"
      BY <1>2, <1>6 DEF StatusOf
    <2>3. QED
      BY <1>1, <1>2, <1>6, <2>1, <2>2, EndingReply
  <1>7. QED
    BY <1>4, <1>5, <1>6 DEF Rotate

\* The session is ended with its family.
LEMMA LogoutAnswers ==
  ASSUME SessionAssumption, LInv, NEW w \in Senders, Logout(w)
  PROVE  \E r : Answers(w, r)
  <1>1. wire[w] # NoRequest /\ wire[w].stage = "sent" /\ wire[w].path = "logout" /\ UNCHANGED browser
    BY DEF Logout, Sent
  <1>2. /\ Cleared \in Generations /\ Cleared >= Anonymous /\ Cleared # Unset /\ Cleared # Anonymous
        /\ StatusOf(Cleared) # "rotated"
    BY NoSession DEF Generations, Unset, Cleared, Anonymous, SessionAssumption
  <1>3. CASE Reply(w, "ok", Cleared) /\ UNCHANGED sessions
    BY <1>1, <1>2, <1>3, PlainReply
  <1>4. CASE Reply(w, "refused", Unset) /\ UNCHANGED sessions
    BY <1>1, <1>4, RefusedAnswers
  <1>5. CASE /\ StatusOf(wire[w].cookie) = "rotated" /\ Terminalize(wire[w].cookie, "reuse")
             /\ Unauthenticated(w)
    <2>1. Reply(w, "unauthenticated", Cleared)
      BY <1>1, <1>5 DEF Unauthenticated
    <2>2. QED
      BY <1>1, <1>2, <1>5, <2>1, EndingReply
  <1>6. CASE Terminalize(wire[w].cookie, "logout") /\ Reply(w, "ok", Cleared)
    BY <1>1, <1>2, <1>6, EndingReply
  <1>7. QED
    BY <1>3, <1>4, <1>5, <1>6 DEF Logout

\* Whatever the server does answers one request, or finds its session.
LEMMA ServeAnswers ==
  ASSUME SessionAssumption, LInv, NEW w \in Senders, Serve(w) \/ Unavailable(w)
  PROVE  \E r : Answers(w, r)
  <1>1. CASE Unavailable(w)
    BY <1>1, RefusedAnswers DEF Unavailable
  <1>2. QED
    BY <1>1, ResolveAnswers, CsrfAnswers, SubmitAnswers, ResolveRenewAnswers, RotateAnswers, LogoutAnswers
       DEF Serve

\* An answer keeps what is known of requests, calls and cookies.
LEMMA ServeKeeps ==
  ASSUME SessionAssumption, LInv, NEW w \in Senders, NEW r, Answers(w, r)
  PROVE  LInv'
  <1>1. /\ wire[w] # NoRequest /\ UNCHANGED <<jar, store, observed, snapshot, binding, call>>
        /\ wire' = [wire EXCEPT ![w] = r] /\ (r = NoRequest => w = Gone) /\ SessionsFit'
        /\ Len(sessions) <= Len(sessions')
        /\ r # NoRequest =>
             /\ r \in Request /\ r.path = wire[w].path /\ r.cookie = wire[w].cookie
             /\ r.bound = wire[w].bound /\ RequestFits(r)'
    BY DEF Answers, browser
  <1>2. wire \in [Senders -> Request \cup {NoRequest}]
    BY DEF LInv, Typed
  <1>3. \A x \in Senders : wire'[x] = IF x = w THEN r ELSE wire[x]
    BY <1>1, <1>2
  <1>4. \A t \in Tabs : t \in Senders /\ (wire'[t] = NoRequest <=> wire[t] = NoRequest)
    BY <1>1, <1>3 DEF Senders, SessionAssumption
  <1>5. Typed'
    <2>1. wire' \in [Senders -> Request \cup {NoRequest}]
      BY <1>1, <1>2
    <2>2. QED
      BY <1>1, <2>1 DEF LInv, Typed, SessionsFit, SessionType
  <1>6. CallsFit'
    BY <1>1, <1>3, <1>4 DEF LInv, CallsFit, Holds, Shares
  <1>7. LockIsHeld' /\ Announced' /\ StoreTellsJar'
    BY <1>1 DEF LInv, LockIsHeld, Announced, StoreTellsJar, Holds, Shares
  <1>8. RequestsFit'
    <2>1. Known \subseteq Known'
      BY <1>1, SessionsAreFit DEF Known, SessionsFit
    <2>2. ASSUME NEW x \in Senders, wire'[x] # NoRequest PROVE RequestFits(wire[x])'
      <3>1. CASE x = w
        BY <1>1, <1>3, <2>2, <3>1 DEF RequestFits
      <3>2. CASE x # w
        BY <1>3, <2>1, <2>2, <3>2 DEF LInv, RequestsFit, RequestFits
      <3>3. QED
        BY <3>1, <3>2
    <2>3. QED
      BY <2>2 DEF RequestsFit
  <1>9. BoundToItsSession' /\ RenewsWhatWasAsked'
    BY <1>1, <1>3, <1>4 DEF LInv, BoundToItsSession, RenewsWhatWasAsked, Answer
  <1>10. QED
    BY <1>1, <1>5, <1>6, <1>7, <1>8, <1>9 DEF LInv, SessionsFit

\* While nothing is lost, the answer is to a tab, and nobody else holds the lock when
\* a session is rotated.
LEMMA ServeKeepsCalm ==
  ASSUME SessionAssumption, LInv, CInv, NEW w \in Senders, NEW r, Answers(w, r)
  PROVE  CInv'
  <1>1. /\ wire[w] # NoRequest /\ wire[w].stage # "answered"
        /\ UNCHANGED <<jar, store, observed, snapshot, binding, call>>
        /\ wire' = [wire EXCEPT ![w] = r] /\ (r = NoRequest => w = Gone)
        /\ r # NoRequest =>
             /\ r \in Request /\ r.stage # "sent" /\ r.path = wire[w].path /\ r.cookie = wire[w].cookie
             /\ StatusOf(r.generation)' # "rotated"
             /\ r.stage = "resolved" => Active(w) /\ UNCHANGED sessions
    BY DEF Answers, browser
  <1>2. w \in Tabs /\ w # Gone /\ r # NoRequest
    BY <1>1 DEF CInv, Senders
  <1>3. wire \in [Senders -> Request \cup {NoRequest}]
    BY DEF LInv, Typed
  <1>4. /\ \A x \in Senders : wire'[x] = IF x = w THEN r ELSE wire[x]
        /\ \A t \in Tabs : t \in Senders
        /\ Gone \in Senders
    BY <1>1, <1>3 DEF Senders
  <1>5. Presented(wire[w])
    BY <1>1, <1>2 DEF CInv
  <1>6. NeverTakenForTheft'
    BY <1>1, <1>5 DEF Answers, Presented, CInv
  <1>7. Known' = 1..Len(sessions') /\ Known = 1..Len(sessions)
    BY DEF Known
  <1>8. ASSUME NEW x \in Tabs, x # w, wire[x] # NoRequest
        PROVE  wire[x].path # "rotate" /\ wire[w].path # "rotate"
    <2>1. Holds(x) /\ Holds(w) /\ wire[x].path = call[x].step /\ wire[w].path = call[w].step
      BY <1>1, <1>2, <1>8 DEF LInv, CallsFit
    <2>2. Shares(x) /\ Shares(w)
      BY <1>2, <1>8, <2>1 DEF LInv, LockIsHeld
    <2>3. QED
      BY <1>2, <2>1, <2>2 DEF LInv, CallsFit
  <1>9. wire[w].stage = "resolved" => wire[w].path = "rotate"
    BY <1>1 DEF LInv, RequestsFit, RequestFits
  <1>10. Presented(r)'
    <2>1. CASE r.stage = "resolved"
      <3>1. Active(w) /\ UNCHANGED sessions
        BY <1>1, <1>2, <2>1
      <3>2. StatusOf(r.cookie)' = "active"
        BY <1>1, <1>2, <3>1 DEF Active, StatusOf, Known
      <3>3. QED
        BY <1>1, <1>2, <2>1, <3>2 DEF Presented
    <2>2. CASE r.stage = "answered"
      BY <1>1, <1>2, <2>2 DEF Presented
    <2>3. QED
      BY <1>1, <1>2, <2>1, <2>2 DEF Request
  <1>11. CASE NoNewRotated
    <2>1. ASSUME NEW v, StatusOf(v)' = "rotated" PROVE StatusOf(v) = "rotated"
      BY <1>7, <1>11, <2>1 DEF NoNewRotated, StatusOf
    <2>2. ASSUME NEW x \in Tabs, wire'[x] # NoRequest PROVE Presented(wire[x])'
      <3>1. CASE x = w
        BY <1>4, <1>10, <3>1 DEF Presented
      <3>2. CASE x # w
        <4>1. wire'[x] = wire[x] /\ wire[x] # NoRequest /\ Presented(wire[x]) /\ wire[x] \in Request
          BY <1>4, <2>2, <3>2, RequestTyped DEF CInv, LInv
        <4>2. wire[x].stage # "resolved"
          BY <1>4, <1>8, <3>2, <4>1 DEF LInv, RequestsFit, RequestFits
        <4>3. PICK q : q = wire[x]
          OBVIOUS
        <4>4. /\ q.stage # "answered" => StatusOf(q.cookie)' # "rotated"
              /\ StatusOf(q.generation)' # "rotated"
          BY <2>1, <4>1, <4>3 DEF Presented
        <4>5. Presented(q)'
          BY <4>2, <4>3, <4>4 DEF Presented
        <4>6. QED
          BY <4>1, <4>3, <4>5 DEF Presented
      <3>3. QED
        BY <3>1, <3>2
    <2>3. StatusOf(jar)' = "rotated" => Replaced'
      <3>1. SUFFICES ASSUME StatusOf(jar)' = "rotated" PROVE Replaced'
        OBVIOUS
      <3>2. PICK v : v = jar
        OBVIOUS
      <3>3. StatusOf(v)' = "rotated"
        BY <1>1, <3>1, <3>2 DEF StatusOf
      <3>4. StatusOf(jar) = "rotated"
        BY <2>1, <3>2, <3>3
      <3>5. PICK t \in Tabs : /\ wire[t] # NoRequest /\ wire[t].path = "rotate"
                              /\ wire[t].stage = "answered" /\ wire[t].generation # Unset
        BY <3>4 DEF CInv, Replaced
      <3>6. wire'[t] = wire[t]
        BY <1>1, <1>4, <3>5
      <3>7. QED
        BY <3>5, <3>6 DEF Replaced
    <2>4. QED
      BY <1>2, <1>4, <1>6, <2>2, <2>3 DEF CInv
  <1>12. CASE wire[w].stage = "resolved" /\ r.stage = "answered" /\ r.generation # Unset
    <2>1. \A x \in Tabs : x # w => wire[x] = NoRequest
      BY <1>8, <1>9, <1>12
    <2>2. ASSUME NEW x \in Tabs, wire'[x] # NoRequest PROVE Presented(wire[x])'
      BY <1>4, <1>10, <2>1, <2>2 DEF Presented
    <2>3. Replaced'
      BY <1>1, <1>2, <1>4, <1>9, <1>12 DEF Replaced
    <2>4. QED
      BY <1>2, <1>4, <1>6, <2>2, <2>3 DEF CInv
  <1>13. QED
    BY <1>2, <1>11, <1>12 DEF Answers

(***************************************************************************)
(* The tabs                                                                *)
(***************************************************************************)

\* The browser holds no rotated credential unless the answer that replaces it is there.
LEMMA JarIsFresh ==
  ASSUME LInv, CInv,
         \/ \A x \in Tabs : Holds(x) => Shares(x)
         \/ \E t \in Tabs : /\ Holds(t)
                            /\ ~(wire[t].path = "rotate" /\ wire[t].generation # Unset)
  PROVE  StatusOf(jar) # "rotated"
  <1>1. SUFFICES ASSUME StatusOf(jar) = "rotated" PROVE FALSE
    OBVIOUS
  <1>2. PICK y \in Tabs : wire[y] # NoRequest /\ wire[y].path = "rotate" /\ wire[y].generation # Unset
    BY <1>1 DEF CInv, Replaced
  <1>3. Holds(y) /\ ~Shares(y)
    BY <1>2 DEF LInv, CallsFit
  <1>4. QED
    BY <1>2, <1>3 DEF LInv, LockIsHeld

\* The cookies after an answer.
LEMMA CookiesAfter ==
  ASSUME SessionAssumption, LInv, NEW t \in Tabs, wire[t] # NoRequest, SetCookies(t)
  PROVE  /\ jar' \in Anonymous .. MaxSessions
         /\ jar' = IF wire[t].generation = Unset THEN jar ELSE wire[t].generation
         /\ Shares(t) => jar' = jar
  <1>1. t \in Senders /\ wire[t] \in Request /\ RequestFits(wire[t]) /\ jar \in Anonymous .. MaxSessions
    BY RequestTyped DEF LInv, RequestsFit, Typed, Senders
  <1>2. jar' = IF wire[t].generation = Unset THEN jar ELSE wire[t].generation
    BY DEF SetCookies, Answer
  <1>3. wire[t].generation = Unset \/ wire[t].generation \in Anonymous .. MaxSessions
    BY <1>1, RequestTyped DEF RequestFits, LInv, SessionAssumption, Unset, Anonymous
  <1>4. Shares(t) => wire[t].generation = Unset
    BY <1>1 DEF LInv, CallsFit, RequestFits
  <1>5. QED
    BY <1>1, <1>2, <1>3, <1>4

\* While nothing was lost they hold no rotated credential.
LEMMA CookiesSet ==
  ASSUME SessionAssumption, LInv, CInv, NEW t \in Tabs, wire[t] # NoRequest, SetCookies(t)
  PROVE  StatusOf(jar') # "rotated"
  <1>1. Holds(t) /\ jar' = IF wire[t].generation = Unset THEN jar ELSE wire[t].generation
    BY CookiesAfter DEF LInv, CallsFit
  <1>2. CASE wire[t].generation = Unset
    BY <1>1, <1>2, JarIsFresh
  <1>3. CASE wire[t].generation # Unset
    BY <1>1, <1>3 DEF CInv, Presented
  <1>4. QED
    BY <1>2, <1>3

\* A call that holds the lock alone sends a request.
LEMMA SendKeeps ==
  ASSUME SessionAssumption, IInv, NEW t \in Tabs,
         NEW path \in {"session", "csrf", "submit", "rotate", "logout"}, NEW cookie, NEW header,
         cookie \in Anonymous .. MaxSessions, header \in Anonymous .. MaxSessions,
         NEW c \in Call, c.step = path, c.kind # "shared", path = "rotate" => cookie = c.captured,
         call' = [call EXCEPT ![t] = c], FetchExclusive(t, path, cookie, header),
         \A x \in Tabs : x # t => ~Holds(x), jar' \in Anonymous .. MaxSessions,
         NothingLost => StatusOf(cookie) # "rotated" /\ StatusOf(jar') # "rotated",
         UNCHANGED <<sessions, binding>>
  PROVE  Kept
  <1>1. PICK q : q = [path |-> path, cookie |-> cookie, header |-> header, bound |-> 0,
                      stage |-> "sent", status |-> "none", generation |-> Unset]
    OBVIOUS
  <1>2. /\ q \in Request /\ q.path = path /\ q.cookie = cookie /\ q.bound = 0 /\ q.stage = "sent"
        /\ q.generation = Unset
    BY <1>1 DEF Request, SessionAssumption, Unset, Anonymous
  <1>3. q # NoRequest
    BY <1>2 DEF SessionAssumption
  <1>4. /\ store' = Unknown /\ observed' = [observed EXCEPT ![t] = Unset]
        /\ snapshot' = [snapshot EXCEPT ![t] = 0] /\ wire' = [wire EXCEPT ![t] = q]
    BY <1>1 DEF FetchExclusive, Send
  <1>5. /\ wire \in [Senders -> Request \cup {NoRequest}] /\ call \in [Tabs -> Call]
        /\ t \in Senders /\ t # Gone /\ Gone \in Senders /\ \A x \in Tabs : x \in Senders
    BY DEF IInv, LInv, Typed, Senders, SessionAssumption
  <1>6. /\ \A x \in Senders : wire'[x] = IF x = t THEN q ELSE wire[x]
        /\ \A x \in Tabs : call'[x] = IF x = t THEN c ELSE call[x]
    BY <1>4, <1>5
  <1>7. Typed'
    <2>1. wire' \in [Senders -> Request \cup {NoRequest}] /\ call' \in [Tabs -> Call]
      BY <1>2, <1>4, <1>5
    <2>2. Unknown \in Generations /\ Unset \in Generations /\ 0 \in 0 .. MaxSessions
      BY DEF Generations, Unknown, Unset, SessionAssumption
    <2>3. QED
      BY <1>4, <2>1, <2>2 DEF IInv, LInv, Typed
  <1>8. \A x \in Tabs : Holds(x)' <=> x = t
    BY <1>5, <1>6 DEF Holds
  <1>9. CallsFit'
    BY <1>2, <1>3, <1>5, <1>6, <1>8 DEF IInv, LInv, CallsFit, Holds, Shares, Call
  <1>10. LockIsHeld' /\ Announced' /\ StoreTellsJar'
    BY <1>4, <1>8 DEF LockIsHeld, Announced, StoreTellsJar, Committed
  <1>11. RequestsFit'
    BY <1>2, <1>6 DEF IInv, LInv, RequestsFit, RequestFits, Known, Unset, Anonymous
  <1>12. BoundToItsSession' /\ RenewsWhatWasAsked'
    BY <1>2, <1>5, <1>6 DEF IInv, LInv, BoundToItsSession, RenewsWhatWasAsked, Answer
  <1>13. FamiliesFit' /\ OneActive'
    BY DEF IInv, LInv, FamiliesFit, OneActive, Known
  <1>14. ASSUME NothingLost PROVE CInv'
    <2>1. wire'[Gone] = NoRequest
      BY <1>5, <1>6, <1>14 DEF IInv, CInv
    <2>2. \A x \in Tabs : x # t => wire[x] = NoRequest
      BY DEF IInv, LInv, CallsFit
    <2>3. StatusOf(Unset) = "absent" /\ StatusOf(cookie) # "rotated" /\ StatusOf(jar') # "rotated"
      BY <1>14, NoSession DEF IInv
    <2>4. Presented(q)'
      BY <1>2, <2>3 DEF Presented, StatusOf, Known
    <2>5. \A x \in Tabs : wire'[x] # NoRequest => Presented(wire[x])'
      BY <1>5, <1>6, <2>2, <2>4 DEF Presented
    <2>6. NeverTakenForTheft' /\ StatusOf(jar)' # "rotated"
      BY <1>14, <2>3 DEF IInv, CInv, NeverTakenForTheft, StatusOf, Known
    <2>7. QED
      BY <2>1, <2>5, <2>6 DEF CInv
  <1>15. QED
    BY <1>7, <1>9, <1>10, <1>11, <1>12, <1>13, <1>14 DEF Kept, LInv

\* A call ends, with an answer or without.
LEMMA EndLasts ==
  ASSUME SessionAssumption, LInv, NEW t \in Tabs, call' = [call EXCEPT ![t] = NoCall],
         wire' \in [Senders -> Request \cup {NoRequest}], wire'[t] = NoRequest,
         \A x \in Tabs : x # t => wire'[x] = wire[x],
         NEW r, wire'[Gone] = r, r # NoRequest => RequestFits(r),
         jar' \in Anonymous .. MaxSessions, store' \in Generations, observed' \in [Tabs -> Generations],
         snapshot' \in [Tabs -> 0 .. MaxSessions], binding' \in [Tabs -> 0 .. MaxSessions],
         StoreTellsJar', store' = store \/ \A x \in Tabs : x # t => ~Holds(x),
         UNCHANGED sessions
  PROVE  LInv'
  <1>1. /\ call \in [Tabs -> Call] /\ NoCall \in Call
        /\ t # Gone /\ Gone \in Senders /\ \A x \in Senders : x \in Tabs \/ x = Gone
    BY DEF LInv, Typed, Senders, SessionAssumption, Call, NoCall
  <1>2. \A x \in Tabs : call'[x] = IF x = t THEN NoCall ELSE call[x]
    BY <1>1
  <1>3. Typed'
    BY <1>1 DEF LInv, Typed
  <1>4. CallsFit'
    BY <1>2 DEF LInv, CallsFit, Holds, Shares, NoCall
  <1>5. LockIsHeld' /\ Announced'
    BY <1>2 DEF LInv, LockIsHeld, Announced, Holds, Shares, NoCall
  <1>6. RequestsFit'
    <2>1. ASSUME NEW x \in Senders, wire'[x] # NoRequest PROVE RequestFits(wire[x])'
      <3>1. CASE x = Gone
        BY <2>1, <3>1 DEF RequestFits, Known
      <3>2. CASE x # Gone
        <4>1. x \in Tabs /\ wire'[x] = wire[x] /\ wire[x] # NoRequest
          BY <1>1, <2>1, <3>2
        <4>2. QED
          BY <2>1, <4>1 DEF LInv, RequestsFit, RequestFits, Known
      <3>3. QED
        BY <3>1, <3>2
    <2>2. QED
      BY <2>1 DEF RequestsFit
  <1>7. BoundToItsSession' /\ RenewsWhatWasAsked'
    BY <1>2 DEF LInv, BoundToItsSession, RenewsWhatWasAsked, Answer
  <1>8. FamiliesFit' /\ OneActive'
    BY DEF LInv, FamiliesFit, OneActive, Known
  <1>9. QED
    BY <1>3, <1>4, <1>5, <1>6, <1>7, <1>8 DEF LInv

\* The same while nothing was lost.
LEMMA EndKeeps ==
  ASSUME SessionAssumption, IInv, NEW t \in Tabs, call' = [call EXCEPT ![t] = NoCall],
         wire' \in [Senders -> Request \cup {NoRequest}], wire'[t] = NoRequest,
         \A x \in Tabs : x # t => wire'[x] = wire[x],
         NEW r, wire'[Gone] = r, r # NoRequest => RequestFits(r),
         jar' \in Anonymous .. MaxSessions, store' \in Generations, observed' \in [Tabs -> Generations],
         snapshot' \in [Tabs -> 0 .. MaxSessions], binding' \in [Tabs -> 0 .. MaxSessions],
         StoreTellsJar', store' = store \/ \A x \in Tabs : x # t => ~Holds(x),
         NothingLost => r = NoRequest /\ StatusOf(jar') # "rotated",
         UNCHANGED sessions
  PROVE  Kept
  <1>1. LInv'
    BY EndLasts DEF IInv
  <1>2. ASSUME NothingLost PROVE CInv'
    <2>1. \A x \in Tabs : wire'[x] # NoRequest => Presented(wire[x])'
      BY <1>2 DEF IInv, CInv, Presented, StatusOf, Known
    <2>2. NeverTakenForTheft' /\ StatusOf(jar)' # "rotated"
      BY <1>2 DEF IInv, CInv, NeverTakenForTheft, StatusOf, Known
    <2>3. QED
      BY <1>2, <2>1, <2>2 DEF CInv
  <1>3. QED
    BY <1>1, <1>2 DEF Kept

\* The first request of a call that takes the lock.
LEMMA FirstSend ==
  ASSUME SessionAssumption, IInv, NEW t \in Tabs, CanLock(t), NEW path \in {"session", "logout"},
         NEW header, header \in Anonymous .. MaxSessions, NEW c \in Call, c.step = path, c.kind # "shared",
         call' = [call EXCEPT ![t] = c], FetchExclusive(t, path, jar, header),
         UNCHANGED <<sessions, jar, binding>>
  PROVE  Kept
  <1>1. \A x \in Tabs : ~Holds(x)
    BY DEF CanLock
  <1>2. PICK v : v = jar
    OBVIOUS
  <1>3. v \in Anonymous .. MaxSessions /\ jar' = v
    BY <1>2 DEF IInv, LInv, Typed
  <1>4. NothingLost => StatusOf(v) # "rotated"
    BY <1>1, <1>2, JarIsFresh DEF IInv
  <1>5. FetchExclusive(t, path, v, header)
    BY <1>2
  <1>6. path # "rotate"
    OBVIOUS
  <1>7. QED
    BY <1>1, <1>3, <1>4, <1>5, <1>6, SendKeeps

\* A tab looks for its session, logs in or logs out.
LEMMA StartKeeps ==
  ASSUME SessionAssumption, IInv, NEW t \in Tabs, Reconcile(t) \/ Authenticate(t) \/ LogOut(t)
  PROVE  Kept
  <1>1. /\ Cleared \in Anonymous .. MaxSessions /\ 0 \in 0 .. MaxSessions
        /\ snapshot[t] \in Anonymous .. MaxSessions
    BY DEF Cleared, Anonymous, SessionAssumption, IInv, LInv, Typed
  <1>2. CASE Reconcile(t) \/ Authenticate(t)
    <2>1. PICK kind \in {"reconcile", "login"} :
            /\ CanLock(t) /\ Enter(t, kind, "session", 0) /\ FetchExclusive(t, "session", jar, Cleared)
            /\ UNCHANGED <<sessions, jar, binding>>
      BY <1>2 DEF Reconcile, Authenticate
    <2>2. PICK c : c = [kind |-> kind, step |-> "session", captured |-> 0]
      OBVIOUS
    <2>3. c \in Call /\ c.step = "session" /\ c.kind # "shared"
      BY <1>1, <2>2 DEF Call, ExclusiveCalls, SharedCalls
    <2>4. call' = [call EXCEPT ![t] = c]
      BY <2>1, <2>2 DEF Enter
    <2>5. QED
      BY <1>1, <2>1, <2>3, <2>4, FirstSend
  <1>3. CASE LogOut(t)
    <2>1. PICK c : c = [kind |-> "logout", step |-> "logout", captured |-> 0]
      OBVIOUS
    <2>2. c \in Call /\ c.step = "logout" /\ c.kind # "shared"
      BY <1>1, <2>1 DEF Call, ExclusiveCalls, SharedCalls
    <2>3. call' = [call EXCEPT ![t] = c]
      BY <1>3, <2>1 DEF LogOut, Enter
    <2>4. PICK header : header = snapshot[t]
      OBVIOUS
    <2>5. FetchExclusive(t, "logout", jar, header) /\ header \in Anonymous .. MaxSessions
      BY <1>1, <1>3, <2>4 DEF LogOut
    <2>6. QED
      BY <1>3, <2>2, <2>3, <2>5, FirstSend DEF LogOut
  <1>4. QED
    BY <1>2, <1>3

\* A call waits, or leaves the queue without a request; only the binding may change.
LEMMA WaitKeeps ==
  ASSUME SessionAssumption, IInv, NEW t \in Tabs, NEW c \in Call, call' = [call EXCEPT ![t] = c],
         \/ ~Holds(t) /\ c.step \in {"none", "queued"} /\ c.kind # "shared"
         \/ c = call[t],
         binding' \in [Tabs -> 0 .. MaxSessions],
         UNCHANGED <<sessions, jar, store, observed, snapshot, wire>>
  PROVE  Kept
  <1>1. call \in [Tabs -> Call]
    BY DEF IInv, LInv, Typed
  <1>2. \A x \in Tabs : call'[x] = IF x = t THEN c ELSE call[x]
    BY <1>1
  <1>3. Typed'
    BY <1>1 DEF IInv, LInv, Typed
  <1>4. \A x \in Tabs : (Holds(x)' <=> Holds(x)) /\ (Holds(x) => call'[x] = call[x])
    BY <1>2 DEF Holds
  <1>5. \A x \in Tabs : wire[x] # NoRequest => call'[x] = call[x]
    BY <1>4 DEF IInv, LInv, CallsFit
  <1>6. CallsFit'
    BY <1>2, <1>4 DEF IInv, LInv, CallsFit, Shares
  <1>7. LockIsHeld' /\ Announced'
    BY <1>4 DEF IInv, LInv, LockIsHeld, Announced, Shares
  <1>8. RequestsFit' /\ FamiliesFit' /\ OneActive' /\ StoreTellsJar'
    BY DEF IInv, LInv, RequestsFit, RequestFits, FamiliesFit, OneActive, StoreTellsJar, Known
  <1>9. BoundToItsSession' /\ RenewsWhatWasAsked'
    BY <1>5 DEF IInv, LInv, BoundToItsSession, RenewsWhatWasAsked, Answer
  <1>10. NothingLost => CInv'
    BY DEF IInv, CInv, Presented, Replaced, NeverTakenForTheft, StatusOf, Known
  <1>11. QED
    BY <1>3, <1>6, <1>7, <1>8, <1>9, <1>10 DEF Kept, LInv

\* A renewal is asked for, and takes its turn; an open dialog is bound.
LEMMA QueueKeeps ==
  ASSUME SessionAssumption, IInv, NEW t \in Tabs, AskRenewal(t) \/ Renew(t) \/ Bind(t)
  PROVE  Kept
  <1>1. /\ call \in [Tabs -> Call] /\ call[t] \in Call /\ snapshot[t] \in 0 .. MaxSessions
        /\ observed[t] \in Generations /\ binding \in [Tabs -> 0 .. MaxSessions]
        /\ NoCall \in Call /\ NoCall.step = "none" /\ NoCall.kind = "none"
    BY DEF IInv, LInv, Typed, Call, NoCall, SessionAssumption
  <1>2. CASE AskRenewal(t)
    <2>1. PICK c : c = [kind |-> "renew", step |-> "queued", captured |-> snapshot[t]]
      OBVIOUS
    <2>2. /\ c.step = "queued" /\ c.kind = "renew" /\ call' = [call EXCEPT ![t] = c]
          /\ UNCHANGED <<sessions, jar, store, observed, snapshot, binding, wire>>
      BY <1>2, <2>1 DEF AskRenewal, Enter
    <2>3. ~Holds(t) /\ c \in Call
      BY <1>1, <1>2, <2>1 DEF AskRenewal, AtRest, Holds, Call, ExclusiveCalls
    <2>4. QED
      BY <1>1, <2>2, <2>3, WaitKeeps
  <1>3. CASE Renew(t)
    <2>1. call[t].step = "queued" /\ CanLock(t) /\ UNCHANGED <<sessions, jar, binding>>
      BY <1>3 DEF Renew
    <2>2. CASE call' = [call EXCEPT ![t].step = "session"] /\ FetchExclusive(t, "session", jar, Cleared)
      <3>1. PICK c : c = [call[t] EXCEPT !.step = "session"]
        OBVIOUS
      <3>2. c \in Call /\ c.step = "session" /\ c.kind # "shared" /\ call' = [call EXCEPT ![t] = c]
        BY <1>1, <2>1, <2>2, <3>1 DEF Call, IInv, LInv, CallsFit, Shares
      <3>3. Cleared \in Anonymous .. MaxSessions
        BY DEF Cleared, Anonymous, SessionAssumption
      <3>4. QED
        BY <2>1, <2>2, <3>2, <3>3, FirstSend
    <2>3. CASE call' = [call EXCEPT ![t] = NoCall] /\ UNCHANGED <<store, observed, snapshot, wire>>
      BY <1>1, <2>1, <2>3, WaitKeeps DEF Holds
    <2>4. QED
      BY <1>3, <2>2, <2>3 DEF Renew
  <1>4. CASE Bind(t)
    <2>1. /\ observed[t] > 0 /\ binding' = [binding EXCEPT ![t] = observed[t]]
          /\ UNCHANGED <<sessions, jar, store, observed, snapshot, call, wire>>
      BY <1>4 DEF Bind, Proves
    <2>2. observed[t] \in 0 .. MaxSessions
      BY <1>1, <2>1 DEF Generations, Unset, SessionAssumption
    <2>3. binding' \in [Tabs -> 0 .. MaxSessions] /\ call' = [call EXCEPT ![t] = call[t]]
      BY <1>1, <2>1, <2>2
    <2>4. PICK c : c = call[t]
      OBVIOUS
    <2>5. QED
      BY <1>1, <2>1, <2>3, <2>4, WaitKeeps
  <1>5. QED
    BY <1>2, <1>3, <1>4

\* A request of the application is sent with the cookies of the moment, which are those
\* of the session it was bound to.
LEMMA DispatchKeeps ==
  ASSUME SessionAssumption, IInv, NEW t \in Tabs, Dispatch(t)
  PROVE  Kept
  <1>1. /\ wire \in [Senders -> Request \cup {NoRequest}] /\ call \in [Tabs -> Call]
        /\ t \in Senders /\ t # Gone /\ Gone \in Senders /\ \A x \in Tabs : x \in Senders
        /\ jar \in Anonymous .. MaxSessions /\ snapshot[t] \in 0 .. MaxSessions
        /\ binding[t] \in 0 .. MaxSessions
    BY DEF IInv, LInv, Typed, Senders, SessionAssumption
  <1>2. PICK c : c = [kind |-> "shared", step |-> "shared", captured |-> 0]
    OBVIOUS
  <1>3. /\ AtRest(t) /\ CanShare(t) /\ Admitted(t) /\ call' = [call EXCEPT ![t] = c]
        /\ UNCHANGED <<sessions, jar, store, observed, snapshot, binding>>
    BY <1>2 DEF Dispatch, Enter
  <1>4. c \in Call /\ c.step = "shared" /\ c.kind = "shared"
    BY <1>2 DEF Call, SharedCalls, SessionAssumption
  <1>5. PICK bound \in 0 .. MaxSessions : /\ Send(t, "shared", jar, snapshot[t], bound)
                                          /\ bound # 0 => jar = bound
    <2>1. Proves(t, binding[t]) => binding[t] # 0 /\ jar = binding[t]
      BY <1>1 DEF Proves, IInv, LInv, StoreTellsJar, Committed, Unknown, Unset
    <2>2. 0 \in 0 .. MaxSessions
      BY DEF SessionAssumption
    <2>3. QED
      BY <1>1, <2>1, <2>2 DEF Dispatch
  <1>6. PICK q : q = [path |-> "shared", cookie |-> jar, header |-> snapshot[t], bound |-> bound,
                      stage |-> "sent", status |-> "none", generation |-> Unset]
    OBVIOUS
  <1>7. /\ q \in Request /\ q.path = "shared" /\ q.cookie = jar /\ q.bound = bound /\ q.stage = "sent"
        /\ q.generation = Unset
    BY <1>1, <1>6 DEF Request, SessionAssumption, Unset, Anonymous
  <1>8. q # NoRequest
    BY <1>7 DEF SessionAssumption
  <1>9. wire' = [wire EXCEPT ![t] = q]
    BY <1>5, <1>6 DEF Send
  <1>10. /\ \A x \in Senders : wire'[x] = IF x = t THEN q ELSE wire[x]
         /\ \A x \in Tabs : call'[x] = IF x = t THEN c ELSE call[x]
    BY <1>1, <1>3, <1>9
  <1>11. \A x \in Tabs : Holds(x) => Shares(x)
    BY <1>3 DEF CanShare, SharedCalls, Shares
  <1>12. Typed'
    <2>1. wire' \in [Senders -> Request \cup {NoRequest}] /\ call' \in [Tabs -> Call]
      BY <1>1, <1>3, <1>4, <1>7, <1>9
    <2>2. QED
      BY <1>3, <2>1 DEF IInv, LInv, Typed
  <1>13. CallsFit'
    BY <1>1, <1>4, <1>7, <1>8, <1>10 DEF IInv, LInv, CallsFit, Holds, Shares
  <1>14. \A x \in Tabs : (Holds(x) => Shares(x))'
    BY <1>4, <1>10, <1>11 DEF Holds, Shares
  <1>15. LockIsHeld' /\ Announced'
    BY <1>14 DEF LockIsHeld, Announced
  <1>16. RequestsFit'
    BY <1>3, <1>7, <1>10 DEF IInv, LInv, RequestsFit, RequestFits, Known, Unset, Anonymous
  <1>17. BoundToItsSession' /\ RenewsWhatWasAsked'
    BY <1>1, <1>5, <1>7, <1>10 DEF IInv, LInv, BoundToItsSession, RenewsWhatWasAsked, Answer
  <1>18. FamiliesFit' /\ OneActive' /\ StoreTellsJar'
    BY <1>3 DEF IInv, LInv, FamiliesFit, OneActive, StoreTellsJar, Known
  <1>19. ASSUME NothingLost PROVE CInv'
    <2>1. StatusOf(jar) # "rotated" /\ StatusOf(Unset) = "absent"
      BY <1>11, <1>19, JarIsFresh, NoSession DEF IInv
    <2>2. Presented(q)'
      BY <1>3, <1>7, <2>1 DEF Presented, StatusOf, Known
    <2>3. \A x \in Tabs : wire'[x] # NoRequest => Presented(wire[x])'
      <3>1. ASSUME NEW x \in Tabs, wire'[x] # NoRequest PROVE Presented(wire[x])'
        <4>1. CASE x = t
          BY <1>1, <1>10, <2>2, <4>1 DEF Presented
        <4>2. CASE x # t
          BY <1>1, <1>3, <1>10, <1>19, <3>1, <4>2 DEF IInv, CInv, Presented, StatusOf, Known
        <4>3. QED
          BY <4>1, <4>2
      <3>2. QED
        BY <3>1
    <2>4. wire'[Gone] = NoRequest /\ NeverTakenForTheft' /\ StatusOf(jar)' # "rotated"
      BY <1>1, <1>3, <1>10, <1>19, <2>1 DEF IInv, CInv, NeverTakenForTheft, StatusOf, Known
    <2>5. QED
      BY <2>3, <2>4 DEF CInv
  <1>20. QED
    BY <1>12, <1>13, <1>15, <1>16, <1>17, <1>18, <1>19 DEF Kept, LInv

\* What is known of a tab that holds the lock alone and has its answer.
LEMMA Alone ==
  ASSUME SessionAssumption, IInv, NEW t \in Tabs, NEW step, Answered(t, step), step # "shared",
         step \notin {"none", "queued"}, SetCookies(t)
  PROVE  /\ wire[t] # NoRequest /\ wire[t].path = step /\ wire[t].stage = "answered"
         /\ ~Shares(t) /\ Holds(t) /\ store = Unknown
         /\ \A x \in Tabs : x # t => ~Holds(x)
         /\ jar' \in Anonymous .. MaxSessions
         /\ wire[t].generation # Unset => jar' = wire[t].generation
         /\ wire[t].status \in {"ok", "unauthenticated"} => wire[t].generation # Unset
         /\ step # "csrf" => wire[t].generation # Anonymous
         /\ NothingLost => StatusOf(jar') # "rotated"
         /\ call \in [Tabs -> Call] /\ call[t] \in Call
         /\ t \in Senders /\ wire \in [Senders -> Request \cup {NoRequest}]
  <1>1. wire[t] # NoRequest /\ wire[t].stage = "answered" /\ call[t].step = step
    BY DEF Answered, Answer
  <1>2. Holds(t) /\ wire[t].path = step /\ ~Shares(t)
    BY <1>1 DEF IInv, LInv, CallsFit
  <1>3. store = Unknown /\ \A x \in Tabs : x # t => ~Holds(x)
    BY <1>2 DEF IInv, LInv, Announced, LockIsHeld
  <1>4. t \in Senders /\ RequestFits(wire[t])
    BY <1>1 DEF IInv, LInv, RequestsFit, Senders
  <1>5. /\ wire[t].status \in {"ok", "unauthenticated"} => wire[t].generation # Unset
        /\ step # "csrf" => wire[t].generation # Anonymous
    BY <1>1, <1>2, <1>4 DEF RequestFits
  <1>6. call \in [Tabs -> Call] /\ wire \in [Senders -> Request \cup {NoRequest}]
    BY DEF IInv, LInv, Typed
  <1>7. /\ jar' \in Anonymous .. MaxSessions
        /\ wire[t].generation # Unset => jar' = wire[t].generation
        /\ NothingLost => StatusOf(jar') # "rotated"
    BY <1>1, CookiesAfter, CookiesSet DEF IInv
  <1>8. QED
    BY <1>1, <1>2, <1>3, <1>4, <1>5, <1>6, <1>7

\* The call ends with its answer: what it tells is committed, or the announcement stays.
LEMMA AloneEnds ==
  ASSUME SessionAssumption, IInv, NEW t \in Tabs, NEW step, Answered(t, step), step # "shared",
         step \notin {"none", "queued"}, SetCookies(t), Finish(t), UNCHANGED <<sessions, binding>>,
         \/ Invalidate(t)
         \/ /\ wire[t].status \in {"ok", "unauthenticated"} /\ step # "csrf"
            /\ Commit(t, wire[t].generation)
  PROVE  Kept
  <1>1. /\ wire[t] # NoRequest /\ store = Unknown /\ \A x \in Tabs : x # t => ~Holds(x)
        /\ jar' \in Anonymous .. MaxSessions
        /\ wire[t].generation # Unset => jar' = wire[t].generation
        /\ wire[t].status \in {"ok", "unauthenticated"} => wire[t].generation # Unset
        /\ step # "csrf" => wire[t].generation # Anonymous
        /\ NothingLost => StatusOf(jar') # "rotated"
        /\ t \in Senders /\ wire \in [Senders -> Request \cup {NoRequest}]
    BY Alone
  <1>2. /\ observed \in [Tabs -> Generations] /\ snapshot \in [Tabs -> 0 .. MaxSessions]
        /\ binding' \in [Tabs -> 0 .. MaxSessions] /\ Gone \in Senders /\ t # Gone
        /\ \A x \in Tabs : x \in Senders
    BY DEF IInv, LInv, Typed, Senders, SessionAssumption
  <1>3. /\ call' = [call EXCEPT ![t] = NoCall] /\ wire' = [wire EXCEPT ![t] = NoRequest]
    BY DEF Finish
  <1>4. /\ wire' \in [Senders -> Request \cup {NoRequest}] /\ wire'[t] = NoRequest
        /\ \A x \in Tabs : x # t => wire'[x] = wire[x]
        /\ wire'[Gone] = wire[Gone]
    BY <1>1, <1>2, <1>3
  <1>5. PICK r : r = wire[Gone]
    OBVIOUS
  <1>6. (r # NoRequest => RequestFits(r)) /\ (NothingLost => r = NoRequest) /\ wire'[Gone] = r
    BY <1>2, <1>4, <1>5 DEF IInv, LInv, CInv, RequestsFit
  <1>7. CASE Invalidate(t)
    <2>1. store' = Unknown /\ observed' = [observed EXCEPT ![t] = Unset]
          /\ snapshot' = [snapshot EXCEPT ![t] = 0]
      BY <1>1, <1>7 DEF Invalidate
    <2>2. Unknown \in Generations /\ Unset \in Generations /\ 0 \in 0 .. MaxSessions
      BY DEF Generations, Unknown, Unset, SessionAssumption
    <2>3. /\ store' \in Generations /\ observed' \in [Tabs -> Generations]
          /\ snapshot' \in [Tabs -> 0 .. MaxSessions] /\ StoreTellsJar'
      BY <1>2, <2>1, <2>2 DEF StoreTellsJar, Committed
    <2>4. QED
      BY <1>1, <1>2, <1>3, <1>4, <1>6, <2>3, EndKeeps
  <1>8. CASE /\ wire[t].status \in {"ok", "unauthenticated"} /\ step # "csrf"
             /\ Commit(t, wire[t].generation)
    <2>1. PICK g : g = wire[t].generation
      OBVIOUS
    <2>2. /\ jar' = g /\ store' = g /\ observed' = [observed EXCEPT ![t] = g]
          /\ snapshot' = [snapshot EXCEPT ![t] = g] /\ g \in Anonymous .. MaxSessions /\ g # Anonymous
      BY <1>1, <1>8, <2>1 DEF Commit
    <2>3. g \in Generations
      BY <2>2 DEF Generations, Unset, Anonymous, SessionAssumption
    <2>4. /\ store' \in Generations /\ observed' \in [Tabs -> Generations] /\ StoreTellsJar'
      BY <1>2, <2>2, <2>3 DEF StoreTellsJar
    <2>5. snapshot' \in [Tabs -> 0 .. MaxSessions]
      BY <1>2, <2>2 DEF Anonymous
    <2>6. QED
      BY <1>1, <1>2, <1>3, <1>4, <1>6, <2>4, <2>5, EndKeeps
  <1>9. QED
    BY <1>7, <1>8

\* The next request of a call, sent with the cookies of the last answer.
LEMMA AloneSends ==
  ASSUME SessionAssumption, IInv, NEW t \in Tabs, NEW step, Answered(t, step), step # "shared",
         step \notin {"none", "queued"}, SetCookies(t), UNCHANGED <<sessions, binding>>,
         NEW path \in {"csrf", "submit", "rotate"}, NEW header, header \in Anonymous .. MaxSessions,
         call' = [call EXCEPT ![t].step = path], FetchExclusive(t, path, jar', header),
         path = "rotate" => jar' = call[t].captured
  PROVE  Kept
  <1>1. /\ ~Shares(t) /\ \A x \in Tabs : x # t => ~Holds(x)
        /\ jar' \in Anonymous .. MaxSessions
        /\ NothingLost => StatusOf(jar') # "rotated"
        /\ call \in [Tabs -> Call] /\ call[t] \in Call
    BY Alone
  <1>2. PICK k : k = jar'
    OBVIOUS
  <1>3. PICK c : c = [call[t] EXCEPT !.step = path]
    OBVIOUS
  <1>4. /\ c \in Call /\ c.step = path /\ c.kind # "shared" /\ c.captured = call[t].captured
        /\ call' = [call EXCEPT ![t] = c]
    BY <1>1, <1>3 DEF Call, Shares
  <1>5. FetchExclusive(t, path, k, header)
    BY <1>2 DEF FetchExclusive, Send
  <1>6. /\ k \in Anonymous .. MaxSessions /\ (NothingLost => StatusOf(k) # "rotated")
        /\ path = "rotate" => k = c.captured
    BY <1>1, <1>2, <1>4
  <1>7. NothingLost => StatusOf(k) # "rotated" /\ StatusOf(jar') # "rotated"
    BY <1>1, <1>6
  <1>8. path \in {"session", "csrf", "submit", "rotate", "logout"}
    OBVIOUS
  <1>9. UNCHANGED <<sessions, binding>>
    OBVIOUS
  <1>10. QED
    BY <1>1, <1>4, <1>5, <1>6, <1>7, <1>8, <1>9, SendKeeps, ZenonT(90)

\* The answer to the probe.
LEMMA ProbedKeeps ==
  ASSUME SessionAssumption, IInv, NEW t \in Tabs, Probed(t)
  PROVE  Kept
  <1>1. Answered(t, "session") /\ SetCookies(t) /\ UNCHANGED <<sessions, binding>>
    BY DEF Probed
  <1>2. /\ wire[t].generation # Unset => jar' = wire[t].generation
        /\ wire[t].status \in {"ok", "unauthenticated"} => wire[t].generation # Unset
        /\ jar' \in Anonymous .. MaxSessions
    BY <1>1, Alone
  <1>3. Cleared \in Anonymous .. MaxSessions
    BY DEF Cleared, Anonymous, SessionAssumption
  <1>4. CASE /\ wire[t].status = "ok" /\ StillAsked(t, wire[t].generation)
             /\ call' = [call EXCEPT ![t].step = "rotate"]
             /\ FetchExclusive(t, "rotate", jar', wire[t].generation)
    <2>1. PICK header : header = wire[t].generation
      OBVIOUS
    <2>2. /\ header \in Anonymous .. MaxSessions /\ FetchExclusive(t, "rotate", jar', header)
          /\ jar' = call[t].captured
      BY <1>2, <1>4, <2>1 DEF StillAsked
    <2>3. QED
      BY <1>1, <1>4, <2>2, AloneSends
  <1>5. CASE /\ wire[t].status = "unauthenticated" /\ call' = [call EXCEPT ![t].step = "csrf"]
             /\ FetchExclusive(t, "csrf", jar', Cleared)
    BY <1>1, <1>3, <1>5, AloneSends
  <1>6. CASE /\ wire[t].status \in {"ok", "unauthenticated"} /\ Commit(t, wire[t].generation)
             /\ Finish(t)
    BY <1>1, <1>6, AloneEnds
  <1>7. CASE Invalidate(t) /\ Finish(t)
    BY <1>1, <1>7, AloneEnds
  <1>8. QED
    BY <1>4, <1>5, <1>6, <1>7 DEF Probed, Answer

\* The answers to the later requests of a call.
LEMMA SettledKeeps ==
  ASSUME SessionAssumption, IInv, NEW t \in Tabs, CsrfIssued(t) \/ Settled(t)
  PROVE  Kept
  <1>1. CASE CsrfIssued(t)
    <2>1. Answered(t, "csrf") /\ SetCookies(t) /\ UNCHANGED <<sessions, binding>>
      BY <1>1 DEF CsrfIssued
    <2>2. Anonymous \in Anonymous .. MaxSessions
      BY DEF Anonymous, SessionAssumption
    <2>3. CASE /\ call' = [call EXCEPT ![t].step = "submit"]
               /\ FetchExclusive(t, "submit", jar', Anonymous)
      BY <2>1, <2>2, <2>3, AloneSends
    <2>4. CASE Invalidate(t) /\ Finish(t)
      BY <2>1, <2>4, AloneEnds
    <2>5. QED
      BY <1>1, <2>3, <2>4 DEF CsrfIssued
  <1>2. CASE Settled(t)
    <2>1. PICK step \in {"submit", "rotate", "logout"} : Answered(t, step)
      BY <1>2 DEF Settled
    <2>2. /\ SetCookies(t) /\ Finish(t) /\ UNCHANGED <<sessions, binding>>
          /\ \/ Invalidate(t)
             \/ wire[t].status \in {"ok", "unauthenticated"} /\ Commit(t, wire[t].generation)
      BY <1>2 DEF Settled, Answer
    <2>3. step # "shared" /\ step # "csrf" /\ step \notin {"none", "queued"}
      BY <2>1
    <2>4. QED
      BY <2>1, <2>2, <2>3, AloneEnds
  <1>3. QED
    BY <1>1, <1>2

\* The answer to a request of the application.
LEMMA ConsumedKeeps ==
  ASSUME SessionAssumption, IInv, NEW t \in Tabs, Consumed(t)
  PROVE  Kept
  <1>1. /\ wire[t] # NoRequest /\ call[t].step = "shared" /\ call' = [call EXCEPT ![t] = NoCall]
        /\ wire' = [wire EXCEPT ![t] = NoRequest]
        /\ UNCHANGED <<sessions, jar, store, observed, snapshot, binding>>
    BY DEF Consumed, Answered, Answer, Finish
  <1>2. /\ wire \in [Senders -> Request \cup {NoRequest}] /\ Gone \in Senders /\ t # Gone /\ t \in Senders
        /\ \A x \in Tabs : x \in Senders
        /\ jar' \in Anonymous .. MaxSessions /\ store' \in Generations /\ observed' \in [Tabs -> Generations]
        /\ snapshot' \in [Tabs -> 0 .. MaxSessions] /\ binding' \in [Tabs -> 0 .. MaxSessions]
    BY <1>1 DEF IInv, LInv, Typed, Senders, SessionAssumption
  <1>3. /\ wire' \in [Senders -> Request \cup {NoRequest}] /\ wire'[t] = NoRequest
        /\ \A x \in Tabs : x # t => wire'[x] = wire[x]
        /\ wire'[Gone] = wire[Gone]
    BY <1>1, <1>2
  <1>4. PICK r : r = wire[Gone]
    OBVIOUS
  <1>5. (r # NoRequest => RequestFits(r)) /\ wire'[Gone] = r
    BY <1>2, <1>3, <1>4 DEF IInv, LInv, RequestsFit
  <1>6. Holds(t) /\ wire[t].path # "rotate"
    BY <1>1 DEF IInv, LInv, CallsFit
  <1>7. NothingLost => r = NoRequest /\ StatusOf(jar') # "rotated"
    BY <1>1, <1>4, <1>6, JarIsFresh DEF IInv, CInv
  <1>8. StoreTellsJar' /\ store' = store
    BY <1>1 DEF IInv, LInv, StoreTellsJar
  <1>9. QED
    BY <1>1, <1>2, <1>3, <1>5, <1>7, <1>8, EndKeeps

\* A page is left, or an answer is lost: what was sent may still be served.
LEMMA LostKeeps ==
  ASSUME SessionAssumption, LInv, NEW t \in Tabs, Reject(t) \/ Reload(t)
  PROVE  LInv'
  <1> DEFINE answered == wire[t] # NoRequest /\ wire[t].stage = "answered"
  <1>1. /\ call' = [call EXCEPT ![t] = NoCall] /\ UNCHANGED sessions
        /\ wire' = [wire EXCEPT ![t] = NoRequest, ![Gone] = IF answered THEN NoRequest ELSE wire[t]]
        /\ jar' = jar \/ (answered /\ SetCookies(t))
    BY DEF Reject, Reload, GiveUp, Answer
  <1>2. /\ wire \in [Senders -> Request \cup {NoRequest}] /\ Gone \in Senders /\ t # Gone /\ t \in Senders
        /\ \A x \in Tabs : x \in Senders
        /\ jar \in Anonymous .. MaxSessions /\ store \in Generations /\ observed \in [Tabs -> Generations]
        /\ snapshot \in [Tabs -> 0 .. MaxSessions] /\ binding \in [Tabs -> 0 .. MaxSessions]
        /\ Unset \in Generations /\ 0 \in 0 .. MaxSessions
    BY DEF LInv, Typed, Senders, SessionAssumption, Generations, Unset
  <1>3. PICK r : r = IF answered THEN NoRequest ELSE wire[t]
    OBVIOUS
  <1>4. /\ r \in Request \cup {NoRequest} /\ (r # NoRequest => RequestFits(r))
    BY <1>2, <1>3 DEF LInv, RequestsFit
  <1>5. wire' = [wire EXCEPT ![t] = NoRequest, ![Gone] = r]
    BY <1>1, <1>3
  <1>6. /\ wire' \in [Senders -> Request \cup {NoRequest}] /\ wire'[t] = NoRequest
        /\ \A x \in Tabs : x # t => wire'[x] = wire[x]
        /\ wire'[Gone] = r
    BY <1>2, <1>4, <1>5 DEF SessionAssumption
  <1>7. jar' \in Anonymous .. MaxSessions /\ (Shares(t) => jar' = jar) /\ (wire[t] = NoRequest => jar' = jar)
    BY <1>1, <1>2, CookiesAfter
  <1>8. store' = store /\ binding' \in [Tabs -> 0 .. MaxSessions]
        /\ observed' \in [Tabs -> Generations] /\ snapshot' \in [Tabs -> 0 .. MaxSessions]
    BY <1>2 DEF Reject, Reload, Invalidate
  <1>9. StoreTellsJar'
    <2>1. CASE wire[t] # NoRequest /\ ~Shares(t)
      <3>1. store = Unknown
        BY <2>1 DEF LInv, CallsFit, Announced
      <3>2. QED
        BY <1>8, <3>1 DEF StoreTellsJar, Committed
    <2>2. CASE wire[t] = NoRequest \/ Shares(t)
      BY <1>7, <1>8, <2>2 DEF LInv, StoreTellsJar, Committed
    <2>3. QED
      BY <2>1, <2>2
  <1>10. QED
    BY <1>1, <1>2, <1>4, <1>6, <1>7, <1>8, <1>9, EndLasts

(***************************************************************************)
(* Every step                                                              *)
(***************************************************************************)

\* The browser has no session and no page has asked for one.
LEMMA InitFits ==
  ASSUME SessionAssumption, Init
  PROVE  IInv /\ TypeOK
  <1>1. /\ sessions = <<>> /\ jar = Cleared /\ store = Unset
        /\ \A t \in Tabs : observed[t] = Unset /\ call[t] = NoCall /\ wire[t] = NoRequest
        /\ \A w \in Senders : wire[w] = NoRequest
        /\ Gone \in Senders
    BY DEF Init, Senders
  <1>2. Known = {}
    BY <1>1 DEF Known
  <1>3. Typed
    <2>1. NoCall \in Call
      BY DEF NoCall, Call, SessionAssumption
    <2>2. /\ Unset \in Generations /\ Cleared \in Anonymous .. MaxSessions /\ 0 \in 0 .. MaxSessions
      BY DEF Generations, Unset, Cleared, Anonymous, SessionAssumption
    <2>3. sessions \in Seq(SessionType) /\ Len(sessions) <= MaxSessions
      BY <1>1, EmptySeq DEF SessionAssumption
    <2>4. QED
      BY <2>1, <2>2, <2>3 DEF Typed, Init, SessionType
  <1>4. CallsFit /\ LockIsHeld /\ Announced
    BY <1>1 DEF CallsFit, LockIsHeld, Announced, Holds, Shares, NoCall
  <1>5. /\ RequestsFit /\ FamiliesFit /\ OneActive /\ BoundToItsSession /\ RenewsWhatWasAsked
        /\ NeverTakenForTheft
    BY <1>1, <1>2 DEF RequestsFit, FamiliesFit, OneActive, BoundToItsSession, RenewsWhatWasAsked, Answer,
                      NeverTakenForTheft
  <1>6. StoreTellsJar
    BY <1>1 DEF StoreTellsJar, Committed
  <1>7. CInv
    BY <1>1, <1>2, <1>5 DEF CInv, StatusOf
  <1>8. lost = FALSE
    BY DEF Init
  <1>9. QED
    BY <1>3, <1>4, <1>5, <1>6, <1>7, <1>8 DEF IInv, LInv, TypeOK

\* A step that loses nothing.
LEMMA WorkKeeps ==
  ASSUME SessionAssumption, IInv, Work
  PROVE  Kept
  <1>1. ASSUME NEW w \in Senders, Serve(w) PROVE Kept
    <2>1. PICK r : Answers(w, r)
      BY <1>1, ServeAnswers DEF IInv
    <2>2. LInv' /\ (CInv => CInv')
      BY <2>1, ServeKeeps, ServeKeepsCalm DEF IInv
    <2>3. QED
      BY <2>2 DEF IInv, Kept
  <1>2. ASSUME NEW t \in Tabs, Reconcile(t) \/ Authenticate(t) \/ LogOut(t) PROVE Kept
    BY <1>2, StartKeeps
  <1>3. ASSUME NEW t \in Tabs, AskRenewal(t) \/ Renew(t) \/ Bind(t) PROVE Kept
    BY <1>3, QueueKeeps
  <1>4. ASSUME NEW t \in Tabs, Dispatch(t) PROVE Kept
    BY <1>4, DispatchKeeps
  <1>5. ASSUME NEW t \in Tabs, Receive(t) PROVE Kept
    BY <1>5, ProbedKeeps, SettledKeeps, ConsumedKeeps DEF Receive
  <1>6. QED
    BY <1>1, <1>2, <1>3, <1>4, <1>5 DEF Work

\* An answer is lost, a request not served, or a page left.
LEMMA TroubleKeeps ==
  ASSUME SessionAssumption, LInv, Trouble
  PROVE  LInv'
  <1>1. ASSUME NEW w \in Senders, Unavailable(w) PROVE LInv'
    BY <1>1, ServeAnswers, ServeKeeps
  <1>2. ASSUME NEW t \in Tabs, Reject(t) \/ Reload(t) PROVE LInv'
    BY <1>2, LostKeeps
  <1>3. QED
    BY <1>1, <1>2 DEF Trouble

\* Every step keeps the invariant.
LEMMA NextKeeps ==
  ASSUME SessionAssumption, IInv, TypeOK, [Next]_vars
  PROVE  IInv' /\ TypeOK'
  <1>1. CASE Work /\ UNCHANGED lost
    <2>1. Kept
      BY <1>1, WorkKeeps
    <2>2. QED
      BY <1>1, <2>1 DEF Kept, IInv, LInv, NothingLost, TypeOK
  <1>2. CASE Trouble /\ lost' = TRUE
    <2>1. LInv'
      BY <1>2, TroubleKeeps DEF IInv
    <2>2. QED
      BY <1>2, <2>1 DEF IInv, LInv, NothingLost, TypeOK
  <1>3. CASE UNCHANGED vars
    <2>1. UNCHANGED <<sessions, jar, store, observed, snapshot, binding, call, wire, lost>>
      BY <1>3 DEF vars
    <2>2. Typed' /\ CallsFit' /\ LockIsHeld' /\ Announced'
      BY <2>1 DEF IInv, LInv, Typed, CallsFit, LockIsHeld, Announced, Holds, Shares
    <2>3. RequestsFit' /\ FamiliesFit' /\ OneActive' /\ StoreTellsJar'
      BY <2>1 DEF IInv, LInv, RequestsFit, RequestFits, FamiliesFit, OneActive, StoreTellsJar, Known
    <2>4. BoundToItsSession' /\ RenewsWhatWasAsked'
      BY <2>1 DEF IInv, LInv, BoundToItsSession, RenewsWhatWasAsked, Answer
    <2>5. (NothingLost => CInv)'
      BY <2>1 DEF IInv, NothingLost, CInv, Presented, Replaced, NeverTakenForTheft, StatusOf, Known
    <2>6. QED
      BY <2>1, <2>2, <2>3, <2>4, <2>5 DEF IInv, LInv, TypeOK
  <1>4. QED
    BY <1>1, <1>2, <1>3 DEF Next

\* For any number of tabs and of sessions, whatever is lost or reloaded: a family has one
\* credential that works, the store never vouches for cookies the browser does not hold,
\* what was bound to a session is sent with its cookie, and a renewal rotates the session
\* it was asked for; while nothing is lost, no tab is ever taken for a thief.
THEOREM SessionIsAlwaysOne ==
  ASSUME SessionAssumption
  PROVE  Spec => []SessionIsOne
  <1>1. Init => IInv /\ TypeOK
    BY InitFits
  <1>2. IInv /\ TypeOK /\ [Next]_vars => (IInv /\ TypeOK)'
    BY NextKeeps
  <1>3. IInv /\ TypeOK => SessionIsOne
    BY DEF IInv, LInv, CInv, NothingLost, SessionIsOne
  <1>4. QED
    BY <1>1, <1>2, <1>3, PTL DEF Spec

(***************************************************************************)
(* Members: the inductive invariant                                        *)
(*                                                                         *)
(* The rows of an invitation are used in the order of their numbers, and   *)
(* the row of the board is what an authorized edit is protected by.        *)
(***************************************************************************)

InvitesTyped ==
  /\ invite \in [Invites -> [to : Accounts, role : Roles, late : BOOLEAN,
                   state : {"none", "pending", "accepted", "revoked", "expired", "superseded"}]]
  /\ mailed \subseteq Invites \ Unused
AccessTyped ==
  /\ member \in [Accounts -> [state : {"none", "active", "inactive"}, role : Roles,
                              version : 0 .. MaxVersion]]
  /\ epoch \in Nat
  /\ archived \in BOOLEAN
  /\ edits \in [Accounts -> Requests \cup {Idle}]
RequestsTyped ==
  /\ tx \in [Requests -> Transaction \cup {Idle}]
  /\ lock \in [Rows -> Requests \cup {Idle}]
  /\ \A r \in Rows : lock[r] # Idle => Busy(lock[r])

UsedFirst == \A i, j \in Invites : i \in Unused /\ j \notin Unused => j < i
PendingIsNewest ==
  \A i, j \in Invites :
    invite[i].state = "pending" /\ j \notin Unused /\ invite[j].to = invite[i].to => j <= i

\* A request about an invitation names one that was issued, and its account.
Concerned(t) ==
  t.kind \in {"resend", "revoke", "accept", "send"} =>
    t.i \in Invites \ Unused /\ invite[t.i].to = t.a
RequestsConcern == \A x \in Requests : Busy(x) => Concerned(tx[x])

\* An edit that was authorized holds the row of the board.
Protected(x) ==
  tx[x].kind = "edit" /\ lock[Board] = x /\ StillHolds(x) /\ MayEdit(tx[x].a)
EditsProtected == \A x \in Requests : Busy(x) /\ tx[x].authorized => Protected(x)

InvitesFit == InvitesTyped /\ UsedFirst /\ PendingIsNewest
RequestsConcur == RequestsTyped /\ RequestsConcern /\ EditsProtected
MInv == InvitesFit /\ AccessTyped /\ RequestsConcur

\* What a step may never do.
AccessStep == EditsAuthorized /\ ChangesAnnounced /\ RoleChangedByOwner /\ NewestInvitationOnly

-----------------------------------------------------------------------------
\* A board is one row.
LEMMA RowsDiffer ==
  /\ Board \in Rows
  /\ \A a \in Accounts \cup {Owner} : User(a) \in Rows /\ User(a) # Board
  /\ \A i \in Invites : Row(i) \in Rows /\ Row(i) # Board
  /\ \A a \in Accounts : Membership(a) \in Rows /\ Membership(a) # Board
  BY DEF Rows, Board, User, Row, Membership

\* Who changes what an edit is authorized by has locked the board.
LEMMA BoardIsLocked ==
  ASSUME NEW x \in Requests, Busy(x), Missing(x) = {},
         tx[x].kind \in {"update", "remove", "accept", "edit"}
  PROVE  lock[Board] = x
  <1> DEFINE p == Plan(x)
  <1>1. CASE tx[x].kind \in {"update", "remove"}
    <2>1. p = <<User(Owner), Board>> \o <<Membership(tx[x].a), User(tx[x].a)>>
      BY <1>1 DEF Plan, Policy
    <2>2. 2 \in DOMAIN p /\ p[2] = Board
      BY <2>1
    <2>3. QED
      BY <2>2 DEF Missing
  <1>2. CASE tx[x].kind = "accept"
    <2>1. p = <<Board, Row(tx[x].i), User(tx[x].a)>> \o Held(tx[x].a)
      BY <1>2 DEF Plan
    <2>2. 1 \in DOMAIN p /\ p[1] = Board
      BY <2>1 DEF Held
    <2>3. QED
      BY <2>2 DEF Missing
  <1>3. CASE tx[x].kind = "edit"
    <2>1. p = <<User(tx[x].a), Board>> \o Held(tx[x].a)
      BY <1>3 DEF Plan, EditRows, Policy
    <2>2. 2 \in DOMAIN p /\ p[2] = Board
      BY <2>1 DEF Held
    <2>3. QED
      BY <2>2 DEF Missing
  <1>4. QED
    BY <1>1, <1>2, <1>3

\* Only the newest invitation of an account can be pending, and only one.
LEMMA OnePending ==
  ASSUME InvitesFit, MembersAssumption, NEW a \in Accounts
  PROVE  Cardinality(Pending(a)) <= 1
  <1>1. \A i, j \in Pending(a) : i = j
    BY DEF InvitesFit, PendingIsNewest, Pending, Unused, MembersAssumption, InvitesTyped
  <1>2. CASE Pending(a) = {}
    BY <1>2, FS_EmptySet
  <1>3. CASE Pending(a) # {}
    <2>1. PICK i \in Pending(a) : Pending(a) = {i}
      BY <1>1, <1>3
    <2>2. Cardinality({i}) = 1
      BY FS_Singleton
    <2>3. QED
      BY <2>1, <2>2
  <1>4. QED
    BY <1>2, <1>3

-----------------------------------------------------------------------------
(* What a step leaves of the others.                                          *)

\* An invitation that was issued stays so, and stays its account's.
IssuedStay == \A i \in Invites \ Unused : i \notin Unused' /\ invite'[i].to = invite[i].to
Granting == <<member, epoch>>

\* The transaction of a request ends or begins anew, its rows are released, and what edits
\* are authorized by changes only when the request has locked the board.
LEMMA OthersConcur ==
  ASSUME MembersAssumption, RequestsConcur, IssuedStay,
         NEW x \in Requests, NEW t \in Transaction \cup {Idle},
         t # Idle => ~t.authorized /\ Concerned(t)',
         tx' = [tx EXCEPT ![x] = t], lock' = Unlocked(x),
         UNCHANGED Granting \/ lock[Board] = x
  PROVE  RequestsConcur'
  <1>1. /\ \A y \in Requests : tx'[y] = IF y = x THEN t ELSE tx[y]
        /\ \A r \in Rows : lock'[r] = IF lock[r] = x THEN Idle ELSE lock[r]
    BY DEF RequestsConcur, RequestsTyped, Unlocked
  <1>2. RequestsTyped'
    <2>1. tx' \in [Requests -> Transaction \cup {Idle}]
      BY DEF RequestsConcur, RequestsTyped
    <2>2. lock' \in [Rows -> Requests \cup {Idle}]
      BY DEF RequestsConcur, RequestsTyped, Unlocked
    <2>3. ASSUME NEW r \in Rows, lock'[r] # Idle PROVE Busy(lock[r])'
      BY <1>1, <2>3 DEF RequestsConcur, RequestsTyped, Busy
    <2>4. QED
      BY <2>1, <2>2, <2>3 DEF RequestsTyped
  <1>3. RequestsConcern'
    <2>1. SUFFICES ASSUME NEW y \in Requests, Busy(y)' PROVE Concerned(tx[y])'
      BY DEF RequestsConcern
    <2>2. CASE y = x
      BY <1>1, <2>1, <2>2 DEF Busy
    <2>3. CASE y # x
      <3>1. tx'[y] = tx[y] /\ Busy(y)
        BY <1>1, <2>1, <2>3 DEF Busy
      <3>2. Concerned(tx[y])
        BY <3>1 DEF RequestsConcur, RequestsConcern
      <3>3. QED
        BY <3>1, <3>2 DEF Concerned, IssuedStay
    <2>4. QED
      BY <2>2, <2>3
  <1>4. EditsProtected'
    <2>1. SUFFICES ASSUME NEW y \in Requests, Busy(y)', tx'[y].authorized PROVE Protected(y)'
      BY DEF EditsProtected
    <2>2. y # x
      BY <1>1, <2>1 DEF Busy
    <2>3. tx'[y] = tx[y] /\ Busy(y)
      BY <1>1, <2>1, <2>2 DEF Busy
    <2>4. Protected(y)
      BY <2>1, <2>3 DEF RequestsConcur, EditsProtected
    <2>5. lock'[Board] = y /\ UNCHANGED Granting
      BY <1>1, <2>2, <2>4, RowsDiffer DEF Protected, MembersAssumption
    <2>6. QED
      BY <2>3, <2>4, <2>5 DEF Protected, StillHolds, MayEdit, Granting
  <1>5. QED
    BY <1>2, <1>3, <1>4 DEF RequestsConcur

\* The transaction of a request ends.
LEMMA OthersGoOn ==
  ASSUME MembersAssumption, RequestsConcur, IssuedStay, NEW x \in Requests, EndTx(x),
         UNCHANGED Granting \/ lock[Board] = x
  PROVE  RequestsConcur'
  <1>1. tx' = [tx EXCEPT ![x] = Idle] /\ lock' = Unlocked(x)
    BY DEF EndTx
  <1>2. QED
    BY <1>1, OthersConcur

\* A request that begins.
LEMMA NewTyped ==
  ASSUME MembersAssumption, NEW kind \in Kinds, NEW a \in Accounts, NEW i \in Invites \cup {NoInvite},
         NEW role \in Roles, NEW version \in 0 .. MaxVersion
  PROVE  New(kind, a, i, role, version) \in Transaction /\ ~New(kind, a, i, role, version).authorized
  <1>1. NoMember \in [state : {"none", "active", "inactive"}, role : Roles, version : 0 .. MaxVersion]
    BY DEF NoMember, Roles, MembersAssumption
  <1>2. 1 \in 1 .. MaxAttempts
    BY DEF MembersAssumption
  <1>3. QED
    BY <1>1, <1>2 DEF New, Transaction
-----------------------------------------------------------------------------
(* The rows of the invitations.                                               *)

\* An invitation that was pending ends.
LEMMA EndedFits ==
  ASSUME InvitesFit, NEW i \in Invites, i \notin Unused, mailed' = mailed,
         NEW state \in {"accepted", "revoked", "expired", "superseded"}, invite' = Put(i, state)
  PROVE  InvitesFit' /\ IssuedStay
  <1>1. \A j \in Invites : /\ invite'[j].to = invite[j].to
                           /\ invite'[j].state = IF j = i THEN state ELSE invite[j].state
    BY DEF InvitesFit, InvitesTyped, Put
  <1>2. Unused' = Unused
    BY <1>1 DEF Unused
  <1>3. InvitesTyped'
    BY <1>2 DEF InvitesFit, InvitesTyped, Put
  <1>4. UsedFirst' /\ PendingIsNewest'
    BY <1>1, <1>2 DEF InvitesFit, UsedFirst, PendingIsNewest
  <1>5. QED
    BY <1>1, <1>2, <1>3, <1>4 DEF InvitesFit, IssuedStay

\* A new invitation of an account, whose others are no longer pending.
LEMMA IssuedFits ==
  ASSUME InvitesFit, MembersAssumption, NEW n \in Newest, NEW a \in Accounts, NEW role \in Roles, mailed' = mailed,
         NEW before \in [Invites -> [to : Accounts, role : Roles, late : BOOLEAN,
                     state : {"none", "pending", "accepted", "revoked", "expired", "superseded"}]],
         invite' = Issued(before, n, a, role),
         \A j \in Invites : /\ before[j].to = invite[j].to
                            /\ before[j].state = "none" <=> invite[j].state = "none"
                            /\ before[j].state = "pending" => invite[j].state = "pending" /\ invite[j].to # a
  PROVE  InvitesFit' /\ IssuedStay /\ n \in Invites /\ n \notin Unused' /\ invite'[n].to = a
  <1>1. n \in Unused /\ n \in Invites /\ \A j \in Unused : n <= j
    BY DEF Newest, Unused
  <1>2. \A j \in Invites : invite'[j] = IF j = n
          THEN [to |-> a, role |-> role, late |-> FALSE, state |-> "pending"] ELSE before[j]
    BY <1>1 DEF Issued
  <1>3. Unused' = Unused \ {n}
    BY <1>1, <1>2 DEF Unused
  <1>4. InvitesTyped'
    <2>1. [to |-> a, role |-> role, late |-> FALSE, state |-> "pending"]
            \in [to : Accounts, role : Roles, late : BOOLEAN,
                 state : {"none", "pending", "accepted", "revoked", "expired", "superseded"}]
      OBVIOUS
    <2>2. invite' \in [Invites -> [to : Accounts, role : Roles, late : BOOLEAN,
                 state : {"none", "pending", "accepted", "revoked", "expired", "superseded"}]]
      BY <2>1 DEF Issued
    <2>3. QED
      BY <1>3, <2>2 DEF InvitesFit, InvitesTyped
  <1>5. \A j \in Invites : j \notin Unused => j < n
    BY <1>1 DEF InvitesFit, UsedFirst
  <1>6. UsedFirst'
    <2>1. SUFFICES ASSUME NEW i \in Invites, NEW j \in Invites, i \in Unused', j \notin Unused' PROVE j < i
      BY DEF UsedFirst
    <2>2. i \in Unused /\ i # n /\ n <= i /\ i \in Nat /\ n \in Nat /\ j \in Nat
      BY <1>1, <1>3, <2>1 DEF MembersAssumption
    <2>3. CASE j = n
      BY <2>2, <2>3
    <2>4. CASE j # n
      BY <1>3, <2>1, <2>2, <2>4 DEF InvitesFit, UsedFirst
    <2>5. QED
      BY <2>3, <2>4
  <1>7. PendingIsNewest'
    <2>1. SUFFICES ASSUME NEW i \in Invites, NEW j \in Invites, invite'[i].state = "pending",
                          j \notin Unused', invite'[j].to = invite'[i].to
                   PROVE  j <= i
      BY DEF PendingIsNewest
    <2>2. i \in Nat /\ n \in Nat /\ j \in Nat
      BY <1>1 DEF MembersAssumption
    <2>3. CASE i = n
      BY <1>3, <1>5, <2>1, <2>2, <2>3
    <2>4. CASE i # n
      <3>1. invite[i].state = "pending" /\ invite'[i].to = invite[i].to /\ invite[i].to # a
        BY <1>2, <2>1, <2>4
      <3>2. j # n
        BY <1>2, <2>1, <3>1
      <3>3. j \notin Unused /\ invite[j].to = invite[i].to
        BY <1>2, <1>3, <2>1, <3>1, <3>2
      <3>4. QED
        BY <3>1, <3>3 DEF InvitesFit, PendingIsNewest
    <2>5. QED
      BY <2>3, <2>4
  <1>8. IssuedStay
    BY <1>1, <1>2, <1>3 DEF IssuedStay
  <1>9. QED
    BY <1>1, <1>2, <1>3, <1>4, <1>6, <1>7, <1>8 DEF InvitesFit

-----------------------------------------------------------------------------
AccessKept == MInv' /\ AccessStep

\* A step that changes no membership and commits no edit.
LEMMA QuietStep ==
  ASSUME AccessTyped, UNCHANGED <<member, epoch, edits>>, archived' \in BOOLEAN
  PROVE  AccessTyped' /\ AccessStep
  <1>1. AccessTyped'
    BY DEF AccessTyped
  <1>2. EditsAuthorized /\ ChangesAnnounced /\ RoleChangedByOwner /\ NewestInvitationOnly
    BY DEF EditsAuthorized, ChangesAnnounced, RoleChangedByOwner, NewestInvitationOnly
  <1>3. QED
    BY <1>1, <1>2 DEF AccessStep

\* A step that leaves the invitations alone.
LEMMA SameInvites ==
  ASSUME InvitesFit, UNCHANGED invite, mailed' \subseteq Invites \ Unused
  PROVE  InvitesFit' /\ IssuedStay
  <1>1. Unused' = Unused
    BY DEF Unused
  <1>2. QED
    BY <1>1 DEF InvitesFit, InvitesTyped, UsedFirst, PendingIsNewest, IssuedStay

\* What the transaction of a request is about.
LEMMA ServedIsTyped ==
  ASSUME MInv, NEW x \in Requests, Busy(x)
  PROVE  tx[x] \in Transaction /\ Concerned(tx[x])
  BY DEF MInv, RequestsConcur, RequestsTyped, RequestsConcern, Busy

\* The owner, an invited account and a member begin a request.
LEMMA BeginKeeps ==
  ASSUME MembersAssumption, MInv, NEW x \in Requests, NEW t \in Transaction, Begin(x, t),
         ~t.authorized, Concerned(t)
  PROVE  AccessKept
  <1>1. lock' = Unlocked(x)
    <2>1. lock' = lock /\ lock = [r \in Rows |-> lock[r]] /\ \A r \in Rows : lock[r] # x
      BY DEF Begin, MInv, RequestsConcur, RequestsTyped, Busy, MembersAssumption
    <2>2. Unlocked(x) = [r \in Rows |-> lock[r]]
      BY <2>1 DEF Unlocked
    <2>3. QED
      BY <2>1, <2>2
  <1>2. UNCHANGED <<invite, mailed, member, epoch, archived, edits>>
    BY DEF Begin, memberTables
  <1>3. InvitesFit' /\ IssuedStay
    BY <1>2, SameInvites DEF MInv, InvitesFit, InvitesTyped
  <1>4. AccessTyped' /\ AccessStep
    BY <1>2, QuietStep DEF MInv, AccessTyped
  <1>5. Concerned(t)' /\ tx' = [tx EXCEPT ![x] = t]
    BY <1>2 DEF Concerned, Unused, Begin
  <1>6. RequestsConcur'
    <2>1. UNCHANGED Granting
      BY <1>2 DEF Granting
    <2>2. t \in Transaction \cup {Idle}
      OBVIOUS
    <2>3. QED
      BY <1>1, <1>3, <1>5, <2>1, <2>2, OthersConcur DEF MInv
  <1>7. QED
    BY <1>3, <1>4, <1>6 DEF MInv, AccessKept

LEMMA BeginsKeep ==
  ASSUME MembersAssumption, MInv, NEW x \in Requests, BeginOwner(x) \/ BeginAccept(x) \/ BeginEdit(x)
  PROVE  AccessKept
  <1>0. /\ \A a \in Accounts : member[a].version \in 0 .. MaxVersion
        /\ \A i \in Invites : invite[i].to \in Accounts
        /\ 0 \in 0 .. MaxVersion /\ "viewer" \in Roles
        /\ mailed \subseteq Invites \ Unused
    BY DEF MInv, AccessTyped, InvitesFit, InvitesTyped, MembersAssumption, Roles
  <1>1. ASSUME NEW kind \in Kinds \ {"resend", "revoke", "accept", "send"}, NEW a \in Accounts,
               NEW role \in Roles, NEW version \in 0 .. MaxVersion,
               Begin(x, New(kind, a, NoInvite, role, version))
        PROVE  AccessKept
    <2>1. New(kind, a, NoInvite, role, version) \in Transaction
          /\ ~New(kind, a, NoInvite, role, version).authorized
      BY NewTyped
    <2>2. Concerned(New(kind, a, NoInvite, role, version))
      BY DEF Concerned, New
    <2>3. QED
      BY <1>1, <2>1, <2>2, BeginKeeps
  <1>2. ASSUME NEW kind \in {"resend", "revoke", "accept"}, NEW i \in Invites \ Unused,
               Begin(x, New(kind, invite[i].to, i, "viewer", 0))
        PROVE  AccessKept
    <2>1. kind \in Kinds /\ i \in Invites \cup {NoInvite}
      BY DEF Kinds, OwnerKinds
    <2>2. New(kind, invite[i].to, i, "viewer", 0) \in Transaction
          /\ ~New(kind, invite[i].to, i, "viewer", 0).authorized
      BY <1>0, <2>1, NewTyped
    <2>3. Concerned(New(kind, invite[i].to, i, "viewer", 0))
      BY DEF Concerned, New
    <2>4. QED
      BY <1>2, <2>2, <2>3, BeginKeeps
  <1>3. CASE BeginOwner(x)
    <2>1. "issue" \in Kinds \ {"resend", "revoke", "accept", "send"}
          /\ "update" \in Kinds \ {"resend", "revoke", "accept", "send"}
          /\ "remove" \in Kinds \ {"resend", "revoke", "accept", "send"}
          /\ "archive" \in Kinds \ {"resend", "revoke", "accept", "send"}
      BY DEF Kinds, OwnerKinds
    <2>2. QED
      BY <1>0, <1>1, <1>2, <1>3, <2>1 DEF BeginOwner
  <1>4. CASE BeginAccept(x)
    BY <1>0, <1>2, <1>4 DEF BeginAccept
  <1>5. CASE BeginEdit(x)
    <2>1. "edit" \in Kinds \ {"resend", "revoke", "accept", "send"}
      BY DEF Kinds
    <2>2. QED
      BY <1>0, <1>1, <1>5, <2>1 DEF BeginEdit
  <1>6. QED
    BY <1>3, <1>4, <1>5

\* A request waits for its next row no longer, loses a deadlock, or fails.
LEMMA LockKeeps ==
  ASSUME MembersAssumption, MInv, NEW x \in Requests, Lock(x)
  PROVE  AccessKept
  <1>1. UNCHANGED <<invite, mailed, member, epoch, archived, edits, tx>>
        /\ lock' = [lock EXCEPT ![Wanted(x)] = x] /\ lock[Wanted(x)] = Idle /\ Busy(x)
    BY DEF Lock, memberTables
  <1>2. InvitesFit' /\ IssuedStay
    BY <1>1, SameInvites DEF MInv, InvitesFit, InvitesTyped
  <1>3. AccessTyped' /\ AccessStep
    BY <1>1, QuietStep DEF MInv, AccessTyped
  <1>4. \A r \in Rows : lock'[r] = lock[r] \/ (lock[r] = Idle /\ lock'[r] = x)
    BY <1>1 DEF MInv, RequestsConcur, RequestsTyped
  <1>5. RequestsTyped'
    BY <1>1, <1>4 DEF MInv, RequestsConcur, RequestsTyped, Busy
  <1>6. RequestsConcern'
    BY <1>1 DEF MInv, RequestsConcur, RequestsConcern, Concerned, Busy, Unused
  <1>7. EditsProtected'
    <2>1. SUFFICES ASSUME NEW y \in Requests, Busy(y), tx[y].authorized PROVE Protected(y)'
      BY <1>1 DEF EditsProtected, Busy
    <2>2. Protected(y)
      BY <2>1 DEF MInv, RequestsConcur, EditsProtected
    <2>3. lock'[Board] = y
      BY <1>4, <2>2, RowsDiffer DEF Protected, MembersAssumption
    <2>4. QED
      BY <1>1, <2>2, <2>3 DEF Protected, StillHolds, MayEdit
  <1>8. QED
    BY <1>2, <1>3, <1>5, <1>6, <1>7 DEF MInv, RequestsConcur, AccessKept

LEMMA BrokenKeeps ==
  ASSUME MembersAssumption, MInv, NEW x \in Requests, Broken(x) \/ RollBack(x)
  PROVE  AccessKept
  <1>1. UNCHANGED <<invite, mailed, member, epoch, archived, edits>> /\ Busy(x) /\ lock' = Unlocked(x)
    BY DEF Broken, RollBack, EndTx, Waits, memberTables
  <1>2. InvitesFit' /\ IssuedStay
    BY <1>1, SameInvites DEF MInv, InvitesFit, InvitesTyped
  <1>3. AccessTyped' /\ AccessStep
    BY <1>1, QuietStep DEF MInv, AccessTyped
  <1>4. UNCHANGED Granting
    BY <1>1 DEF Granting
  <1>5. CASE tx' = [tx EXCEPT ![x] = Again(x)] /\ TriedAgain(tx[x])
    <2>1. tx[x] \in Transaction /\ Concerned(tx[x])
      BY <1>1, ServedIsTyped
    <2>2. Again(x) \in Transaction /\ ~Again(x).authorized
      <3>1. tx[x].attempt + 1 \in 1 .. MaxAttempts /\ FALSE \in BOOLEAN
        BY <1>5, <2>1 DEF Transaction, TriedAgain, MembersAssumption
      <3>2. [tx[x] EXCEPT !.attempt = tx[x].attempt + 1] \in Transaction
        BY <2>1, <3>1 DEF Transaction
      <3>3. Again(x) = [[tx[x] EXCEPT !.attempt = tx[x].attempt + 1] EXCEPT !.authorized = FALSE]
        BY <2>1 DEF Again, Transaction
      <3>4. QED
        BY <3>2, <3>3 DEF Transaction
    <2>3. Again(x).kind = tx[x].kind /\ Again(x).i = tx[x].i /\ Again(x).a = tx[x].a
      BY <2>1 DEF Again, Transaction
    <2>4. PICK t \in Transaction : t = Again(x)
      BY <2>2
    <2>5. Concerned(t)'
      BY <1>1, <2>1, <2>3, <2>4 DEF Concerned, Unused
    <2>6. RequestsConcur'
      BY <1>1, <1>2, <1>4, <1>5, <2>2, <2>4, <2>5, OthersConcur DEF MInv
    <2>7. QED
      BY <1>2, <1>3, <2>6 DEF MInv, AccessKept
  <1>6. CASE tx' = [tx EXCEPT ![x] = Idle]
    <2>1. RequestsConcur'
      BY <1>1, <1>2, <1>4, <1>6, OthersGoOn DEF MInv, EndTx
    <2>2. QED
      BY <1>2, <1>3, <2>1 DEF MInv, AccessKept
  <1>7. QED
    BY <1>5, <1>6 DEF Broken, RollBack, EndTx

-----------------------------------------------------------------------------
\* An invitation is issued and sent, and no access changes.
LEMMA SentKeeps ==
  ASSUME MembersAssumption, MInv, NEW x \in Requests, InvitesFit', IssuedStay,
         NEW i \in Invites, i \notin Unused', invite'[i].to = tx[x].a, tx[x].a \in Accounts,
         UNCHANGED <<member, epoch, archived, edits>>, ThenSend(x, i)
  PROVE  AccessKept
  <1>1. AccessTyped' /\ AccessStep
    BY QuietStep DEF MInv, AccessTyped
  <1>2. "send" \in Kinds /\ "viewer" \in Roles /\ 0 \in 0 .. MaxVersion /\ i \in Invites \cup {NoInvite}
    BY DEF Kinds, Roles, MembersAssumption
  <1>3. New("send", tx[x].a, i, "viewer", 0) \in Transaction /\ ~New("send", tx[x].a, i, "viewer", 0).authorized
    BY <1>2, NewTyped
  <1>4. PICK t \in Transaction : t = New("send", tx[x].a, i, "viewer", 0)
    BY <1>3
  <1>5. t.i = i /\ t.a = tx[x].a
    BY <1>4 DEF New
  <1>6. Concerned(t)'
    BY <1>5 DEF Concerned
  <1>7. UNCHANGED Granting /\ tx' = [tx EXCEPT ![x] = t] /\ lock' = Unlocked(x)
    BY <1>4 DEF Granting, ThenSend
  <1>8. RequestsConcur'
    BY <1>3, <1>4, <1>6, <1>7, OthersConcur DEF MInv
  <1>9. QED
    BY <1>1, <1>8 DEF MInv, AccessKept

\* A request ends, and no access changes.
LEMMA EndedKeeps ==
  ASSUME MembersAssumption, MInv, NEW x \in Requests, InvitesFit', IssuedStay,
         UNCHANGED <<member, epoch, edits>>, archived' \in BOOLEAN, EndTx(x)
  PROVE  AccessKept
  <1>1. AccessTyped' /\ AccessStep
    BY QuietStep DEF MInv
  <1>2. UNCHANGED Granting
    BY DEF Granting
  <1>3. RequestsConcur'
    BY <1>2, OthersGoOn DEF MInv
  <1>4. QED
    BY <1>1, <1>3 DEF MInv, AccessKept

LEMMA IssueKeeps ==
  ASSUME MembersAssumption, MInv, NEW x \in Requests, Issue(x)
  PROVE  AccessKept
  <1> DEFINE a == tx[x].a
             over == {i \in Pending(a) : invite[i].late}
  <1>1. Busy(x) /\ UNCHANGED <<mailed, member, epoch, archived, edits>>
    BY DEF Issue, Committing
  <1>2. tx[x] \in Transaction /\ a \in Accounts /\ tx[x].role \in Roles
    BY <1>1, ServedIsTyped DEF Transaction
  <1>3. CASE EndTx(x) /\ UNCHANGED invite
    BY <1>1, <1>3, SameInvites, EndedKeeps DEF MInv, InvitesFit, InvitesTyped, AccessTyped
  <1>4. ASSUME Pending(a) = over, NEW n \in Newest,
               invite' = Issued(Expired(over), n, a, tx[x].role), ThenSend(x, n)
        PROVE  AccessKept
    <2> DEFINE before == Expired(over)
    <2>1. over \subseteq Invites
      BY DEF Pending
    <2>2. \A j \in Invites : before[j] = IF j \in over THEN [invite[j] EXCEPT !.state = "expired"] ELSE invite[j]
      BY DEF Expired
    <2>3. before \in [Invites -> [to : Accounts, role : Roles, late : BOOLEAN,
                     state : {"none", "pending", "accepted", "revoked", "expired", "superseded"}]]
      BY DEF Expired, MInv, InvitesFit, InvitesTyped
    <2>4. \A j \in Invites :
            /\ before[j].to = invite[j].to
            /\ before[j].state = "none" <=> invite[j].state = "none"
            /\ before[j].state = "pending" => invite[j].state = "pending" /\ invite[j].to # a
      BY <1>4, <2>2 DEF Pending, MInv, InvitesFit, InvitesTyped
    <2>5. InvitesFit' /\ IssuedStay /\ n \in Invites /\ n \notin Unused' /\ invite'[n].to = a
      <3> HIDE DEF before, a
      <3>1. QED
        BY <1>1, <1>2, <1>4, <2>3, <2>4, IssuedFits DEF before, a, MInv
    <2>6. QED
      BY <1>1, <1>2, <1>4, <2>5, SentKeeps
  <1>5. QED
    BY <1>3, <1>4 DEF Issue

LEMMA ResendKeeps ==
  ASSUME MembersAssumption, MInv, NEW x \in Requests, Resend(x)
  PROVE  AccessKept
  <1> DEFINE i == tx[x].i
  <1>1. Busy(x) /\ tx[x].kind = "resend" /\ UNCHANGED <<mailed, member, epoch, archived, edits>>
    BY DEF Resend, Committing
  <1>2. tx[x] \in Transaction /\ i \in Invites \ Unused /\ invite[i].to = tx[x].a /\ tx[x].a \in Accounts
        /\ invite[i].role \in Roles
    BY <1>1, ServedIsTyped DEF Transaction, Concerned, MInv, InvitesFit, InvitesTyped
  <1>3. CASE EndTx(x) /\ UNCHANGED invite
    BY <1>1, <1>3, SameInvites, EndedKeeps DEF MInv, InvitesFit, InvitesTyped, AccessTyped
  <1>4. CASE EndTx(x) /\ invite' = Put(i, "expired")
    BY <1>1, <1>2, <1>4, EndedFits, EndedKeeps DEF MInv, AccessTyped
  <1>5. ASSUME invite[i].state = "pending", NEW n \in Newest,
               invite' = Issued(Put(i, "superseded"), n, invite[i].to, invite[i].role), ThenSend(x, n)
        PROVE  AccessKept
    <2> DEFINE before == Put(i, "superseded")
    <2>1. before \in [Invites -> [to : Accounts, role : Roles, late : BOOLEAN,
                     state : {"none", "pending", "accepted", "revoked", "expired", "superseded"}]]
      BY <1>2 DEF Put, MInv, InvitesFit, InvitesTyped
    <2>2. \A j \in Invites : before[j] = IF j = i THEN [invite[j] EXCEPT !.state = "superseded"] ELSE invite[j]
      BY <1>2 DEF Put, MInv, InvitesFit, InvitesTyped
    <2>3. \A j \in Invites : invite[j].state = "pending" /\ invite[j].to = invite[i].to => j = i
      <3>1. SUFFICES ASSUME NEW j \in Invites, invite[j].state = "pending", invite[j].to = invite[i].to
                     PROVE  j = i
        OBVIOUS
      <3>2. i \notin Unused /\ j \notin Unused
        BY <1>2, <3>1 DEF Unused
      <3>3. j <= i /\ i <= j
        BY <1>2, <1>5, <3>1, <3>2 DEF MInv, InvitesFit, PendingIsNewest
      <3>4. i \in Int /\ j \in Int
        <4>1. i \in Invites /\ j \in Invites
          BY <1>2
        <4>2. Invites \subseteq Int
          BY DEF MembersAssumption
        <4>3. QED
          BY <4>1, <4>2
      <3>5. QED
        BY <3>3, <3>4
    <2>4. \A j \in Invites :
            /\ before[j].to = invite[j].to
            /\ before[j].state = "none" <=> invite[j].state = "none"
            /\ before[j].state = "pending" => invite[j].state = "pending" /\ invite[j].to # invite[i].to
      BY <1>5, <2>2, <2>3 DEF MInv, InvitesFit, InvitesTyped
    <2>5. InvitesFit' /\ IssuedStay /\ n \in Invites /\ n \notin Unused' /\ invite'[n].to = invite[i].to
      <3>1. PICK b \in Accounts, r \in Roles : b = invite[i].to /\ r = invite[i].role
        BY <1>2
      <3>2. invite' = Issued(before, n, b, r)
        BY <1>5, <3>1
      <3> HIDE DEF before
      <3>3. InvitesFit' /\ IssuedStay /\ n \in Invites /\ n \notin Unused' /\ invite'[n].to = b
        BY <1>1, <2>1, <2>4, <3>1, <3>2, IssuedFits DEF MInv
      <3>4. QED
        BY <3>1, <3>3
    <2>6. QED
      BY <1>1, <1>2, <1>5, <2>5, SentKeeps
  <1>6. QED
    BY <1>3, <1>4, <1>5 DEF Resend

LEMMA MailKeeps ==
  ASSUME MembersAssumption, MInv, NEW x \in Requests, Mail(x)
  PROVE  AccessKept
  <1>1. Busy(x) /\ tx[x].kind = "send" /\ mailed' = mailed \cup {tx[x].i} /\ EndTx(x)
        /\ UNCHANGED <<invite, member, epoch, archived, edits>>
    BY DEF Mail, Committing
  <1>2. mailed' \subseteq Invites \ Unused
    BY <1>1, ServedIsTyped DEF Concerned, MInv, InvitesFit, InvitesTyped
  <1>3. QED
    BY <1>1, <1>2, SameInvites, EndedKeeps DEF MInv, AccessTyped

LEMMA RevokeKeeps ==
  ASSUME MembersAssumption, MInv, NEW x \in Requests, Revoke(x)
  PROVE  AccessKept
  <1>1. Busy(x) /\ tx[x].kind = "revoke" /\ EndTx(x) /\ UNCHANGED <<mailed, member, epoch, archived, edits>>
    BY DEF Revoke, Committing
  <1>2. tx[x].i \in Invites \ Unused
    BY <1>1, ServedIsTyped DEF Concerned
  <1>3. InvitesFit' /\ IssuedStay
    <2>1. CASE UNCHANGED invite
      BY <1>1, <2>1, SameInvites DEF MInv, InvitesFit, InvitesTyped
    <2>2. ASSUME NEW state \in {"expired", "revoked"}, invite' = Put(tx[x].i, state)
          PROVE  InvitesFit' /\ IssuedStay
      BY <1>1, <1>2, <2>2, EndedFits DEF MInv
    <2>3. QED
      BY <2>1, <2>2 DEF Revoke
  <1>4. QED
    BY <1>1, <1>3, EndedKeeps DEF MInv, AccessTyped

LEMMA ArchiveKeeps ==
  ASSUME MembersAssumption, MInv, NEW x \in Requests, Archive(x)
  PROVE  AccessKept
  <1>1. archived' = TRUE /\ EndTx(x) /\ UNCHANGED <<invite, mailed, member, epoch, edits>>
    BY DEF Archive
  <1>2. QED
    BY <1>1, SameInvites, EndedKeeps DEF MInv, InvitesFit, InvitesTyped

\* Memberships change: what each of the promises needs of it.
LEMMA AcceptKeeps ==
  ASSUME MembersAssumption, MInv, NEW x \in Requests, Accept(x)
  PROVE  AccessKept
  <1> DEFINE i == tx[x].i
             a == tx[x].a
  <1>1. /\ Busy(x) /\ tx[x].kind = "accept" /\ lock[Board] = x /\ EndTx(x)
        /\ UNCHANGED <<mailed, archived, edits>>
    BY BoardIsLocked DEF Accept, Committing
  <1>2. i \in Invites \ Unused /\ invite[i].to = a /\ a \in Accounts /\ invite[i].role \in Roles
    BY <1>1, ServedIsTyped DEF Transaction, Concerned, MInv, InvitesFit, InvitesTyped
  <1>3. CASE UNCHANGED <<invite, member, epoch>>
    BY <1>1, <1>3, SameInvites, EndedKeeps DEF MInv, InvitesFit, InvitesTyped, AccessTyped
  <1>4. CASE invite' = Put(i, "expired") /\ UNCHANGED <<member, epoch>>
    BY <1>1, <1>2, <1>4, EndedFits, EndedKeeps DEF MInv, AccessTyped
  <1>5. CASE /\ invite[i].state = "pending" /\ ~invite[i].late
             /\ IF member[a].state = "active" THEN UNCHANGED member
                ELSE /\ member[a].version < MaxVersion
                     /\ member' = [member EXCEPT ![a] = Activated(member[a], invite[i].role)]
             /\ invite' = Put(i, "accepted") /\ epoch' = epoch + 1
    <2>1. InvitesFit' /\ IssuedStay
      BY <1>1, <1>2, <1>5, EndedFits DEF MInv
    <2>2. RequestsConcur'
      BY <1>1, <2>1, OthersGoOn DEF MInv
    <2>3. Activated(member[a], invite[i].role)
            \in [state : {"none", "active", "inactive"}, role : Roles, version : 0 .. MaxVersion]
          \/ member[a].version >= MaxVersion
      BY <1>2 DEF MInv, AccessTyped, Activated, MembersAssumption
    <2>4. member' \in [Accounts -> [state : {"none", "active", "inactive"}, role : Roles,
                                    version : 0 .. MaxVersion]]
      <3>1. member[a].version \in Nat
        BY <1>2 DEF MInv, AccessTyped, MembersAssumption
      <3>2. QED
        BY <1>2, <1>5, <2>3, <3>1 DEF MInv, AccessTyped, MembersAssumption
    <2>5. AccessTyped'
      BY <1>1, <1>5, <2>4 DEF MInv, AccessTyped
    <2>6. EditsAuthorized /\ ChangesAnnounced
      BY <1>1, <1>5 DEF EditsAuthorized, ChangesAnnounced, MInv, AccessTyped
    <2>7. \A b \in Accounts : member'[b] # member[b] => b = a /\ member[b].state # "active"
      BY <1>5 DEF MInv, AccessTyped
    <2>8. RoleChangedByOwner
      BY <2>7 DEF RoleChangedByOwner
    <2>9. invite'[i].state = "accepted"
      BY <1>2, <1>5 DEF Put, MInv, InvitesFit, InvitesTyped
    <2>10. \A j \in Invites : invite[j].state # "none" /\ invite[j].to = a => j <= i
      BY <1>2, <1>5 DEF MInv, InvitesFit, PendingIsNewest, Unused
    <2>11. NewestInvitationOnly
      BY <1>2, <1>5, <2>7, <2>9, <2>10 DEF NewestInvitationOnly
    <2>12. QED
      BY <2>1, <2>2, <2>5, <2>6, <2>8, <2>11 DEF MInv, AccessKept, AccessStep
  <1>6. QED
    BY <1>3, <1>4, <1>5 DEF Accept

\* The owner changes a membership that is active.
LEMMA OwnerKeeps ==
  ASSUME MembersAssumption, MInv, NEW x \in Requests, UpdateMember(x) \/ RemoveMember(x)
  PROVE  AccessKept
  <1> DEFINE a == tx[x].a
  <1>1. /\ Busy(x) /\ tx[x].kind \in {"update", "remove"} /\ lock[Board] = x /\ EndTx(x)
        /\ UNCHANGED <<invite, mailed, archived, edits>>
    BY BoardIsLocked DEF UpdateMember, RemoveMember, Committing
  <1>2. tx[x] \in Transaction /\ a \in Accounts /\ tx[x].role \in Roles
    BY <1>1, ServedIsTyped DEF Transaction
  <1>3. InvitesFit' /\ IssuedStay
    BY <1>1, SameInvites DEF MInv, InvitesFit, InvitesTyped
  <1>4. CASE UNCHANGED <<member, epoch>>
    BY <1>1, <1>3, <1>4, EndedKeeps DEF MInv, AccessTyped
  <1>5. ASSUME Current(tx[x]), NEW m \in [state : {"none", "active", "inactive"}, role : Roles, version : 0 .. MaxVersion],
               member' = [member EXCEPT ![a] = m], epoch' = epoch + 1,
               m.state = "active" => tx[x].kind = "update"
        PROVE  AccessKept
    <2>1. RequestsConcur'
      BY <1>1, <1>3, OthersGoOn DEF MInv
    <2>2. AccessTyped'
      BY <1>1, <1>2, <1>5 DEF MInv, AccessTyped
    <2>3. EditsAuthorized /\ ChangesAnnounced
      BY <1>1, <1>5 DEF EditsAuthorized, ChangesAnnounced, MInv, AccessTyped
    <2>4. \A b \in Accounts : member'[b] # member[b] => b = a /\ member[b].state = "active" /\ member'[b] = m
      BY <1>2, <1>5 DEF MInv, AccessTyped, Current
    <2>5. NewestInvitationOnly
      BY <2>4 DEF NewestInvitationOnly
    <2>6. ~Busy(x)'
      BY <1>1 DEF EndTx, Busy, MInv, RequestsConcur, RequestsTyped
    <2>7. RoleChangedByOwner
      BY <1>1, <1>5, <2>4, <2>6 DEF RoleChangedByOwner
    <2>8. QED
      BY <1>3, <2>1, <2>2, <2>3, <2>5, <2>7 DEF MInv, AccessKept, AccessStep
  <1>6. CASE UpdateMember(x)
    <2>1. CASE Current(tx[x]) /\ member[a].role # tx[x].role
      <3>1. Activated(member[a], tx[x].role)
              \in [state : {"none", "active", "inactive"}, role : Roles, version : 0 .. MaxVersion]
        BY <1>2, <2>1 DEF MInv, AccessTyped, Activated, Current, MembersAssumption
      <3>2. tx[x].kind = "update" /\ epoch' = epoch + 1
            /\ member' = [member EXCEPT ![a] = Activated(member[a], tx[x].role)]
        BY <1>6, <2>1 DEF UpdateMember, Committing
      <3>3. QED
        BY <1>5, <2>1, <3>1, <3>2
    <2>2. CASE ~(Current(tx[x]) /\ member[a].role # tx[x].role)
      BY <1>4, <1>6, <2>2 DEF UpdateMember
    <2>3. QED
      BY <2>1, <2>2
  <1>7. CASE RemoveMember(x)
    <2>1. CASE Current(tx[x])
      <3> DEFINE m == Deactivated(member[a])
      <3>1. member[a] \in [state : {"none", "active", "inactive"}, role : Roles, version : 0 .. MaxVersion]
            /\ member[a].version + 1 \in 0 .. MaxVersion
        BY <1>2, <2>1 DEF MInv, AccessTyped, Current, MembersAssumption
      <3>2. m = [[member[a] EXCEPT !.state = "inactive"] EXCEPT !.version = member[a].version + 1]
        BY <3>1 DEF Deactivated
      <3>3. m \in [state : {"none", "active", "inactive"}, role : Roles, version : 0 .. MaxVersion]
            /\ m.state = "inactive"
        <4> HIDE DEF m
        <4>1. QED
          BY <3>1, <3>2
      <3>4. epoch' = epoch + 1 /\ member' = [member EXCEPT ![a] = m]
        BY <1>7, <2>1 DEF RemoveMember
      <3> HIDE DEF m
      <3>5. QED
        BY <1>5, <2>1, <3>3, <3>4
    <2>2. CASE ~Current(tx[x])
      BY <1>4, <1>7, <2>2 DEF RemoveMember
    <2>3. QED
      BY <2>1, <2>2
  <1>8. QED
    BY <1>6, <1>7
-----------------------------------------------------------------------------
\* An edit is authorized: its request goes on, holding the board.
LEMMA AuthorizeKeeps ==
  ASSUME MembersAssumption, MInv, NEW x \in Requests, Authorize(x)
  PROVE  AccessKept
  <1> DEFINE a == tx[x].a
  <1>1. /\ Busy(x) /\ tx[x].kind = "edit" /\ lock[Board] = x
        /\ UNCHANGED <<invite, mailed, member, epoch, archived, edits>>
    BY BoardIsLocked DEF Authorize, Committing, memberTables
  <1>2. tx[x] \in Transaction /\ a \in Accounts
    BY <1>1, ServedIsTyped DEF Transaction
  <1>3. InvitesFit' /\ IssuedStay
    BY <1>1, SameInvites DEF MInv, InvitesFit, InvitesTyped
  <1>4. AccessTyped' /\ AccessStep
    BY <1>1, QuietStep DEF MInv, AccessTyped
  <1>5. CASE EndTx(x)
    BY <1>1, <1>3, <1>5, EndedKeeps DEF MInv, AccessTyped
  <1>6. CASE MayEdit(a) /\ ~EndTx(x)
    <2> DEFINE t == [tx[x] EXCEPT !.authorized = TRUE, !.seen = member[a], !.epoch = epoch]
    <2>1. tx' = [tx EXCEPT ![x] = t] /\ lock' = lock
      BY <1>6 DEF Authorize
    <2>2. t = [[[tx[x] EXCEPT !.authorized = TRUE] EXCEPT !.seen = member[a]] EXCEPT !.epoch = epoch]
      BY <1>2 DEF Transaction
    <2>3. member[a] \in [state : {"none", "active", "inactive"}, role : Roles, version : 0 .. MaxVersion] /\ epoch \in Nat
      BY <1>2 DEF MInv, AccessTyped
    <2>4. [tx[x] EXCEPT !.authorized = TRUE] \in Transaction
      BY <1>2 DEF Transaction
    <2>5. t \in Transaction
      BY <2>2, <2>3, <2>4 DEF Transaction
    <2>6. t.kind = "edit" /\ t.a = a /\ t.seen = member[a] /\ t.epoch = epoch
      BY <1>1, <1>2 DEF Transaction
    <2> HIDE DEF t
    <2>7. \A y \in Requests : tx'[y] = IF y = x THEN t ELSE tx[y]
      BY <2>1 DEF MInv, RequestsConcur, RequestsTyped
    <2>8. \A y \in Requests : Busy(y) /\ y # x => Busy(y)' /\ tx'[y] = tx[y]
      BY <2>7 DEF Busy
    <2>9. RequestsTyped'
      BY <2>1, <2>5, <2>7 DEF MInv, RequestsConcur, RequestsTyped, Busy, MembersAssumption
    <2>10. RequestsConcern'
      BY <1>1, <2>6, <2>7 DEF MInv, RequestsConcur, RequestsConcern, Concerned, Busy, Unused
    <2>11. EditsProtected'
      BY <1>1, <1>6, <2>1, <2>6, <2>7
         DEF MInv, RequestsConcur, EditsProtected, Protected, StillHolds, MayEdit, Busy
    <2>12. QED
      BY <1>3, <1>4, <2>9, <2>10, <2>11 DEF MInv, RequestsConcur, AccessKept
  <1>7. QED
    BY <1>5, <1>6 DEF Authorize

\* An edit commits under the access it was authorized by.
LEMMA EditKeeps ==
  ASSUME MembersAssumption, MInv, NEW x \in Requests, Edit(x)
  PROVE  AccessKept
  <1> DEFINE a == tx[x].a
  <1>1. /\ Busy(x) /\ tx[x].authorized /\ EndTx(x)
        /\ UNCHANGED <<invite, mailed, member, epoch, archived>>
    BY DEF Edit, Committing
  <1>2. a \in Accounts
    BY <1>1, ServedIsTyped DEF Transaction
  <1>3. MayEdit(a)
    BY <1>1 DEF MInv, RequestsConcur, EditsProtected, Protected
  <1>4. edits' = edits \/ edits' = [edits EXCEPT ![a] = x]
    BY DEF Edit
  <1>5. InvitesFit' /\ IssuedStay
    BY <1>1, SameInvites DEF MInv, InvitesFit, InvitesTyped
  <1>6. RequestsConcur'
    BY <1>1, <1>5, OthersGoOn DEF MInv, Granting
  <1>7. AccessTyped'
    BY <1>1, <1>2, <1>4 DEF MInv, AccessTyped
  <1>8. EditsAuthorized
    BY <1>2, <1>3, <1>4 DEF EditsAuthorized, MayEdit, MInv, AccessTyped
  <1>9. ChangesAnnounced /\ RoleChangedByOwner /\ NewestInvitationOnly
    BY <1>1 DEF ChangesAnnounced, RoleChangedByOwner, NewestInvitationOnly
  <1>10. QED
    BY <1>5, <1>6, <1>7, <1>8, <1>9 DEF MInv, AccessKept, AccessStep

\* Time passes, and members read.
LEMMA AroundKeeps ==
  ASSUME MembersAssumption, MInv,
         (\E i \in Invites : Expire(i)) \/ (\E a \in Accounts : Read(a)) \/ UNCHANGED membersVars
  PROVE  AccessKept
  <1>1. UNCHANGED <<mailed, member, epoch, archived, tx, lock>>
    BY DEF Expire, Read, membersVars
  <1>2. InvitesFit' /\ Unused' = Unused /\ \A j \in Invites : invite'[j].to = invite[j].to
    <2>1. CASE UNCHANGED invite
      BY <1>1, <2>1, SameInvites DEF MInv, InvitesFit, InvitesTyped, Unused
    <2>2. ASSUME NEW i \in Invites, Expire(i) PROVE InvitesFit' /\ Unused' = Unused /\ \A j \in Invites : invite'[j].to = invite[j].to
      <3>1. \A j \in Invites : /\ invite'[j].to = invite[j].to /\ invite'[j].state = invite[j].state
        BY <2>2 DEF Expire, MInv, InvitesFit, InvitesTyped
      <3>2. Unused' = Unused
        BY <3>1 DEF Unused
      <3>3. InvitesTyped'
        BY <1>1, <2>2, <3>2 DEF Expire, MInv, InvitesFit, InvitesTyped
      <3>4. QED
        BY <3>1, <3>2, <3>3 DEF MInv, InvitesFit, UsedFirst, PendingIsNewest
    <2>3. QED
      BY <2>1, <2>2 DEF Read, membersVars
  <1>3. /\ edits' \in [Accounts -> Requests \cup {Idle}]
        /\ \A a \in Accounts : edits'[a] \in {edits[a], Idle}
    BY DEF Expire, Read, membersVars, MInv, AccessTyped
  <1>4. AccessTyped'
    BY <1>1, <1>3 DEF MInv, AccessTyped
  <1>5. AccessStep
    BY <1>1, <1>3 DEF AccessStep, EditsAuthorized, ChangesAnnounced, RoleChangedByOwner, NewestInvitationOnly
  <1>6. RequestsConcur'
    BY <1>1, <1>2 DEF MInv, RequestsConcur, RequestsTyped, RequestsConcern, Concerned, EditsProtected,
                      Protected, StillHolds, MayEdit, Busy
  <1>7. QED
    BY <1>2, <1>4, <1>5, <1>6 DEF MInv, AccessKept

LEMMA MembersKeep ==
  ASSUME MembersAssumption, MInv, [MembersNext]_membersVars
  PROVE  AccessKept
  <1>1. ASSUME NEW x \in Requests, Transact(x) PROVE AccessKept
    BY <1>1, IssueKeeps, ResendKeeps, MailKeeps, RevokeKeeps, AcceptKeeps, OwnerKeeps, ArchiveKeeps,
       AuthorizeKeeps, EditKeeps DEF Transact
  <1>2. QED
    BY <1>1, BeginsKeep, LockKeeps, BrokenKeeps, AroundKeeps DEF MembersNext

LEMMA MembersBegin ==
  ASSUME MembersAssumption, MembersInit
  PROVE  MInv
  <1>1. Unused = Invites /\ (CHOOSE a \in Accounts : TRUE) \in Accounts
    BY DEF MembersInit, Unused, MembersAssumption
  <1>2. NoMember \in [state : {"none", "active", "inactive"}, role : Roles, version : 0 .. MaxVersion]
    BY DEF NoMember, Roles, MembersAssumption
  <1>3. InvitesFit
    BY <1>1 DEF MembersInit, InvitesFit, InvitesTyped, UsedFirst, PendingIsNewest, Roles
  <1>4. AccessTyped
    BY <1>2 DEF MembersInit, AccessTyped
  <1>5. RequestsConcur
    BY DEF MembersInit, RequestsConcur, RequestsTyped, RequestsConcern, EditsProtected, Busy
  <1>6. QED
    BY <1>3, <1>4, <1>5 DEF MInv

LEMMA MembersTold ==
  ASSUME MembersAssumption, MInv
  PROVE  MembersTypeOK /\ AuthorizationHolds
  <1>1. \A a \in Accounts : Cardinality(Pending(a)) <= 1
    BY OnePending DEF MInv
  <1>2. MembersTypeOK
    BY <1>1 DEF MInv, InvitesFit, InvitesTyped, AccessTyped, RequestsConcur, RequestsTyped, MembersTypeOK
  <1>3. AuthorizationHolds
    BY DEF MInv, RequestsConcur, EditsProtected, Protected, AuthorizationHolds
  <1>4. QED
    BY <1>2, <1>3

\* For any number of accounts, invitations and requests, however their locks interleave and
\* whoever loses a deadlock: an edit commits only under the access it was authorized by, and
\* access comes only from the newest invitation or the owner, announced with a new epoch.
THEOREM AccessAlwaysCurrent ==
  ASSUME MembersAssumption
  PROVE  MembersSpec => AccessIsCurrent
  <1>1. MembersInit => MInv
    BY MembersBegin
  <1>2. MInv /\ [MembersNext]_membersVars => MInv'
    BY MembersKeep DEF AccessKept
  <1>3. MInv => MembersTypeOK /\ AuthorizationHolds
    BY MembersTold
  <1>4. MInv /\ [MembersNext]_membersVars
          => [EditsAuthorized /\ ChangesAnnounced /\ RoleChangedByOwner /\ NewestInvitationOnly]_membersVars
    BY MembersKeep DEF AccessKept, AccessStep
  <1>5. QED
    BY <1>1, <1>2, <1>3, <1>4, PTL DEF MembersSpec, AccessIsCurrent

(***************************************************************************)
(* Keys: the inductive invariant                                           *)
(***************************************************************************)

\* Rows are numbered as they are inserted.
Numbered ==
  \A k \in Existing :
    /\ row[k].id <= Cardinality(Existing)
    /\ \A l \in Existing : row[k].id = row[l].id => k = l

\* Who has counted and is about to insert found room, and holds the owner's row since.
IssuesFit ==
  \A m \in Managers :
    /\ manager[m].at <= now
    /\ manager[m].stage = "insert" => Cardinality(ActiveAt(manager[m].at)) < Quota
    /\ manager[m].stage \in {"revoke", "update"} => manager[m].key \in Existing

\* A request holds the key from its first check to its end, and the owner from its second.
Owning == {"apply", "done", "key again", "user again", "commit"}
UseFits(c, u) ==
  /\ u.at <= now /\ u.applied <= now
  /\ u.stage # "idle" => u.key \in Existing
  /\ u.stage \in Owning \cup {"user"} => keyLock[u.key] = c
  /\ u.stage \in Owning => ownerActive /\ row[u.key].status = "active"
  /\ u.stage \in {"key again", "user again", "commit"} => u.applied <= u.at
  /\ u.stage \in {"user again", "commit"} => u.at < row[u.key].expires
UsesFit == \A c \in Clients : UseFits(c, client[c])

\* What the walk has passed was emitted, and what it has not is beyond its boundary.
WalkFits ==
  /\ listing.twice = {}
  /\ listing.present \cup listing.emitted \subseteq Existing
  /\ ~listing.open => listing.present \cap Listed \subseteq listing.emitted
  /\ listing.open =>
       /\ listing.boundary \in Place
       /\ \A k \in listing.emitted : ~Beyond(k, listing.boundary)
       /\ \A k \in listing.present \cap Listed :
            k \in listing.emitted \/ Beyond(k, listing.boundary)

KInv == KeysTypeOK /\ Numbered /\ QuotaHolds /\ IssuesFit /\ UsesFit /\ WalkFits

-----------------------------------------------------------------------------
RowsFit == Numbered /\ QuotaHolds

KeysTyped ==
  /\ now \in 0 .. MaxTime /\ ownerActive \in BOOLEAN
  /\ row \in [Keys -> KeyRow \cup {None}]
  /\ \A k \in Existing : row[k].expires = row[k].created + Life /\ row[k].id \in 1 .. Cardinality(Keys)
  /\ userLock \in Managers \cup Clients \cup {None} /\ keyLock \in [Keys -> Clients \cup {None}]
  /\ manager \in [Managers -> Management] /\ client \in [Clients -> KeyUse] /\ listing \in Walk
ManagersHold == \A m \in Managers : manager[m].stage \in {"count", "insert", "update"} <=> userLock = m
ClientsHold ==
  \A c \in Clients :
    /\ client[c].stage \in Owning <=> userLock = c
    /\ \A k \in Keys : keyLock[k] = c => client[c].stage \notin {"idle", "begin", "key"}

LEMMA KeysParts ==
  /\ KeysTypeOK <=> KeysTyped /\ ManagersHold /\ ClientsHold
  /\ KeysTypeOK' <=> KeysTyped' /\ ManagersHold' /\ ClientsHold'
  BY DEF KeysTypeOK, KeysTyped, ManagersHold, ClientsHold, Owning

LEMMA ExistingIsFinite ==
  ASSUME ApiKeysAssumption, NEW S \in SUBSET Keys
  PROVE  IsFiniteSet(S) /\ Cardinality(S) \in Nat /\ Cardinality(S) <= Cardinality(Keys) /\ Cardinality(Keys) \in Nat
  BY FS_Subset, FS_CardinalityType DEF ApiKeysAssumption

\* What a row is, it stays, and time only takes from what works.
LEMMA SameRows ==
  ASSUME ApiKeysAssumption, KeysTyped, RowsFit, UNCHANGED row, now' \in 0 .. MaxTime, now <= now'
  PROVE  RowsFit' /\ Existing' = Existing /\ Listed' = Listed
  <1>1. Existing' = Existing /\ Listed' = Listed
    BY DEF Existing, Listed
  <1>2. Numbered'
    BY <1>1 DEF RowsFit, Numbered
  <1>3. QuotaHolds'
    <2> DEFINE S == {k \in Keys : Usable(k)}
               T == {k \in Keys : Usable(k)'}
    <2>1. T \subseteq S
      <3>1. SUFFICES ASSUME NEW k \in T PROVE Usable(k)
        OBVIOUS
      <3>2. row[k] # None /\ row[k] \in KeyRow
        BY DEF Usable, KeysTyped
      <3>3. row[k].expires \in Int /\ now \in Int /\ now' \in Int
        BY <3>2 DEF KeyRow, KeysTyped
      <3>4. QED
        BY <3>1, <3>2, <3>3 DEF Usable
    <2>2. IsFiniteSet(S) /\ Cardinality(S) \in Nat
      BY ExistingIsFinite
    <2>3. Cardinality(T) <= Cardinality(S) /\ Cardinality(T) \in Nat
      BY <2>1, <2>2, FS_Subset, FS_CardinalityType
    <2>4. QED
      BY <2>2, <2>3 DEF RowsFit, QuotaHolds, ApiKeysAssumption
  <1>4. QED
    BY <1>1, <1>2, <1>3 DEF RowsFit

\* The walk stands still.
LEMMA SameWalk ==
  ASSUME WalkFits, UNCHANGED <<row, listing>>
  PROVE  WalkFits'
  BY DEF WalkFits, Existing, Listed, Beyond

\* One manager goes on, and no row changes.
LEMMA ManagerGoesOn ==
  ASSUME ApiKeysAssumption, KInv, UNCHANGED <<now, ownerActive, row, keyLock, client, listing>>,
         NEW m \in Managers, NEW t \in Management, manager' = [manager EXCEPT ![m] = t],
         userLock' = userLock \/ (userLock \in {None, m} /\ userLock' \in {None, m}),
         t.stage \in {"count", "insert", "update"} <=> userLock' = m,
         t.at <= now, t.stage = "insert" => Cardinality(ActiveAt(t.at)) < Quota,
         t.stage \in {"revoke", "update"} => t.key \in Existing
  PROVE  KInv'
  <1>1. KeysTyped /\ ManagersHold /\ ClientsHold /\ RowsFit /\ IssuesFit /\ UsesFit /\ WalkFits
    BY KeysParts DEF KInv, RowsFit
  <1>2. \A n \in Managers : manager'[n] = IF n = m THEN t ELSE manager[n]
    BY <1>1 DEF KeysTyped
  <1>3. RowsFit' /\ Existing' = Existing /\ Listed' = Listed
    BY <1>1, SameRows DEF KeysTyped
  <1>4. KeysTyped'
    BY <1>1, <1>3 DEF KeysTyped
  <1>5. ManagersHold'
    BY <1>1, <1>2 DEF ManagersHold, ApiKeysAssumption
  <1>6. ClientsHold'
    BY <1>1 DEF ClientsHold, ApiKeysAssumption
  <1>7. IssuesFit'
    <2>1. \A x : ActiveAt(x)' = ActiveAt(x)
      BY <1>3 DEF ActiveAt
    <2>2. SUFFICES ASSUME NEW n \in Managers
                   PROVE  /\ manager'[n].at <= now
                          /\ manager'[n].stage = "insert" => Cardinality(ActiveAt(manager'[n].at)) < Quota
                          /\ manager'[n].stage \in {"revoke", "update"} => manager'[n].key \in Existing
      BY <1>3, <2>1 DEF IssuesFit
    <2>3. CASE n = m
      BY <1>2, <2>3
    <2>4. CASE n # m
      BY <1>1, <1>2, <2>4 DEF IssuesFit
    <2>5. QED
      BY <2>3, <2>4
  <1>8. UsesFit'
    BY <1>1, <1>3 DEF UsesFit, UseFits
  <1>9. WalkFits'
    BY <1>1, SameWalk
  <1>10. QED
    BY <1>3, <1>4, <1>5, <1>6, <1>7, <1>8, <1>9, KeysParts DEF KInv, RowsFit

\* One request goes on.
LEMMA ClientGoesOn ==
  ASSUME ApiKeysAssumption, KInv, UNCHANGED <<now, ownerActive, row, manager, listing>>,
         NEW c \in Clients, NEW u \in KeyUse, client' = [client EXCEPT ![c] = u],
         keyLock' \in [Keys -> Clients \cup {None}],
         userLock' = userLock \/ (userLock \in {None, c} /\ userLock' \in {None, c}),
         \A k \in Keys : keyLock'[k] = keyLock[k] \/ (keyLock[k] \in {None, c} /\ keyLock'[k] \in {None, c}),
         u.stage \in Owning <=> userLock' = c,
         \A k \in Keys : keyLock'[k] = c => u.stage \notin {"idle", "begin", "key"},
         UseFits(c, u)'
  PROVE  KInv'
  <1>1. KeysTyped /\ ManagersHold /\ ClientsHold /\ RowsFit /\ IssuesFit /\ UsesFit /\ WalkFits
    BY KeysParts DEF KInv, RowsFit
  <1>2. \A d \in Clients : client'[d] = IF d = c THEN u ELSE client[d]
    BY <1>1 DEF KeysTyped
  <1>3. RowsFit' /\ Existing' = Existing /\ Listed' = Listed
    BY <1>1, SameRows DEF KeysTyped
  <1>4. KeysTyped'
    BY <1>1, <1>3 DEF KeysTyped
  <1>5. ManagersHold'
    BY <1>1 DEF ManagersHold, ApiKeysAssumption
  <1>6. ClientsHold'
    <2>1. SUFFICES ASSUME NEW d \in Clients
                   PROVE  /\ client'[d].stage \in Owning <=> userLock' = d
                          /\ \A k \in Keys : keyLock'[k] = d => client'[d].stage \notin {"idle", "begin", "key"}
      BY DEF ClientsHold
    <2>2. CASE d = c
      BY <1>2, <2>2
    <2>3. CASE d # c
      BY <1>1, <1>2, <2>3 DEF ClientsHold, ApiKeysAssumption
    <2>4. QED
      BY <2>2, <2>3
  <1>7. IssuesFit'
    BY <1>1, <1>3 DEF IssuesFit, ActiveAt
  <1>8. UsesFit'
    <2>1. SUFFICES ASSUME NEW d \in Clients PROVE UseFits(d, client[d])'
      BY DEF UsesFit
    <2>2. CASE d = c
      BY <1>2, <2>2
    <2>3. CASE d # c
      <3>1. UseFits(d, client[d]) /\ client'[d] = client[d] /\ client[d] \in KeyUse
        BY <1>1, <1>2, <2>3 DEF UsesFit, KeysTyped
      <3>2. PICK v : v = client[d]
        OBVIOUS
      <3>3. v.stage \in Owning \cup {"user"} => v.key \in Keys /\ keyLock[v.key] = d
        BY <3>1, <3>2 DEF UseFits, Existing, Owning
      <3>4. v.stage \in Owning \cup {"user"} => keyLock'[v.key] = d
        BY <2>3, <3>3 DEF ApiKeysAssumption
      <3>5. UseFits(d, v)'
        BY <1>3, <3>1, <3>2, <3>4 DEF UseFits, Owning
      <3>6. QED
        BY <3>1, <3>2, <3>5
    <2>4. QED
      BY <2>2, <2>3
  <1>9. WalkFits'
    BY <1>1, SameWalk
  <1>10. QED
    BY <1>3, <1>4, <1>5, <1>6, <1>7, <1>8, <1>9, KeysParts DEF KInv, RowsFit

-----------------------------------------------------------------------------
\* A manager holds no key.
LEMMA ManagerReleases ==
  ASSUME ApiKeysAssumption, KeysTyped, NEW m \in Managers, Release(m)
  PROVE  keyLock' = keyLock /\ userLock' = (IF userLock = m THEN None ELSE userLock)
  <1>1. \A k \in Keys : keyLock[k] # m
    BY DEF KeysTyped, ApiKeysAssumption
  <1>2. QED
    BY <1>1 DEF Release, KeysTyped

LEMMA IdleFits ==
  ASSUME ApiKeysAssumption
  PROVE  IdleManager \in Management /\ IdleClient \in KeyUse
  BY DEF ApiKeysAssumption, IdleManager, IdleClient, Management, KeyUse

LEMMA IssueBegins ==
  ASSUME ApiKeysAssumption, KInv, NEW m \in Managers, IssueStart(m) \/ IssueLock(m) \/ IssueCount(m)
  PROVE  KInv'
  <1>1. KeysTyped /\ ManagersHold /\ IssuesFit
    BY KeysParts DEF KInv
  <1>2. manager[m] \in Management /\ now \in 0 .. MaxTime /\ manager[m].at <= now /\ MaxTime \in Nat
    BY <1>1 DEF KeysTyped, IssuesFit, ApiKeysAssumption
  <1>3. m # None /\ IdleManager.stage = "idle" /\ IdleManager.at <= now
    BY <1>2 DEF ApiKeysAssumption, IdleManager
  <1>4. CASE IssueStart(m)
    <2> DEFINE t == [IdleManager EXCEPT !.stage = "issue"]
    <2>1. t \in Management /\ t.stage = "issue" /\ t.at <= now
      BY <1>3, IdleFits DEF Management, IdleManager
    <2>2. userLock # m
      BY <1>1, <1>4 DEF IssueStart, ManagersHold
    <2> HIDE DEF t
    <2>3. manager' = [manager EXCEPT ![m] = t]
          /\ UNCHANGED <<now, ownerActive, row, userLock, keyLock, client, listing>>
      BY <1>4 DEF IssueStart, t
    <2>4. QED
      BY <2>1, <2>2, <2>3, ManagerGoesOn
  <1>5. CASE IssueLock(m)
    <2> DEFINE t == [manager[m] EXCEPT !.stage = "count", !.at = now]
    <2>1. t \in Management /\ t.stage = "count" /\ t.at = now
      BY <1>2 DEF Management
    <2> HIDE DEF t
    <2>2. manager' = [manager EXCEPT ![m] = t] /\ userLock = None /\ userLock' = m
          /\ UNCHANGED <<now, ownerActive, row, keyLock, client, listing>>
      BY <1>5 DEF IssueLock, LockOwner, t
    <2>3. t.at <= now
      BY <1>2, <2>1
    <2>4. QED
      BY <2>1, <2>2, <2>3, ManagerGoesOn
  <1>6. CASE IssueCount(m)
    <2>1. userLock = m /\ UNCHANGED <<now, ownerActive, row, client, listing>>
      BY <1>1, <1>6 DEF IssueCount, ManagersHold
    <2>2. CASE ownerActive /\ Cardinality(ActiveAt(manager[m].at)) < Quota
      <3> DEFINE t == [manager[m] EXCEPT !.stage = "insert"]
      <3>1. t \in Management /\ t.stage = "insert" /\ t.at = manager[m].at
        BY <1>2 DEF Management
      <3> HIDE DEF t
      <3>2. manager' = [manager EXCEPT ![m] = t] /\ UNCHANGED <<userLock, keyLock>>
        BY <1>6, <2>2 DEF IssueCount, t
      <3>3. t.at <= now /\ Cardinality(ActiveAt(t.at)) < Quota
        BY <1>2, <2>2, <3>1
      <3>4. QED
        BY <2>1, <3>1, <3>2, <3>3, ManagerGoesOn
    <2>3. CASE ~(ownerActive /\ Cardinality(ActiveAt(manager[m].at)) < Quota)
      <3>1. manager' = [manager EXCEPT ![m] = IdleManager] /\ Release(m)
        BY <1>6, <2>3 DEF IssueCount
      <3>2. keyLock' = keyLock /\ userLock' = None
        BY <1>1, <2>1, <3>1, ManagerReleases
      <3>3. QED
        BY <1>3, <2>1, <3>1, <3>2, IdleFits, ManagerGoesOn
    <2>4. QED
      BY <2>2, <2>3
  <1>7. QED
    BY <1>4, <1>5, <1>6

LEMMA RevocationBegins ==
  ASSUME ApiKeysAssumption, KInv, NEW m \in Managers, RevokeStart(m) \/ RevokeLock(m)
  PROVE  KInv'
  <1>1. KeysTyped /\ ManagersHold /\ IssuesFit
    BY KeysParts DEF KInv
  <1>2. manager[m] \in Management /\ now \in 0 .. MaxTime /\ manager[m].at <= now /\ MaxTime \in Nat
    BY <1>1 DEF KeysTyped, IssuesFit, ApiKeysAssumption
  <1>3. m # None /\ IdleManager.stage = "idle" /\ IdleManager.at <= now
    BY <1>2 DEF ApiKeysAssumption, IdleManager
  <1>4. ASSUME NEW k \in Existing, manager' = [manager EXCEPT ![m] = [IdleManager EXCEPT !.stage = "revoke", !.key = k]],
               manager[m].stage = "idle", UNCHANGED <<now, ownerActive, row, userLock, keyLock, client, listing>>
        PROVE  KInv'
    <2> DEFINE t == [IdleManager EXCEPT !.stage = "revoke", !.key = k]
    <2>1. t = [[IdleManager EXCEPT !.stage = "revoke"] EXCEPT !.key = k] /\ k \in Keys
      BY DEF IdleManager, Existing
    <2>2. t \in Management /\ t.stage = "revoke" /\ t.at <= now /\ t.key = k
      BY <1>3, <2>1, IdleFits DEF Management, IdleManager
    <2>3. userLock # m
      BY <1>1, <1>4 DEF ManagersHold
    <2>4. manager' = [manager EXCEPT ![m] = t]
      BY <1>4
    <2> HIDE DEF t
    <2>5. QED
      BY <1>4, <2>2, <2>3, <2>4, ManagerGoesOn
  <1>5. CASE RevokeLock(m)
    <2>1. userLock = None /\ UNCHANGED <<now, ownerActive, row, keyLock, client, listing>> /\ manager[m].stage = "revoke"
      BY <1>5 DEF RevokeLock
    <2>2. CASE ownerActive
      <3> DEFINE t == [manager[m] EXCEPT !.stage = "update"]
      <3>1. t \in Management /\ t.stage = "update" /\ t.at = manager[m].at /\ t.key = manager[m].key
        BY <1>2 DEF Management
      <3> HIDE DEF t
      <3>2. manager' = [manager EXCEPT ![m] = t] /\ userLock' = m
        BY <1>5, <2>2 DEF RevokeLock, t
      <3>3. t.at <= now /\ t.key \in Existing
        BY <1>1, <1>2, <2>1, <3>1 DEF IssuesFit
      <3>4. QED
        BY <2>1, <3>1, <3>2, <3>3, ManagerGoesOn
    <2>3. CASE ~ownerActive
      <3>1. manager' = [manager EXCEPT ![m] = IdleManager] /\ UNCHANGED userLock
        BY <1>5, <2>3 DEF RevokeLock
      <3>2. QED
        BY <1>3, <2>1, <3>1, IdleFits, ManagerGoesOn
    <2>4. QED
      BY <2>2, <2>3
  <1>6. QED
    BY <1>4, <1>5 DEF RevokeStart

-----------------------------------------------------------------------------
\* A key is inserted: its number is new, and the quota leaves room for it.
LEMMA InsertKeeps ==
  ASSUME ApiKeysAssumption, KInv, NEW m \in Managers, manager[m].stage = "insert",
         NEW k \in Keys \ Existing,
         row' = [row EXCEPT ![k] = [created |-> manager[m].at, expires |-> manager[m].at + Life,
                                    status |-> "active", id |-> Cardinality(Existing) + 1]],
         manager' = [manager EXCEPT ![m] = IdleManager], Release(m),
         UNCHANGED <<now, ownerActive, client, listing>>
  PROVE  KInv'
  <1> DEFINE at == manager[m].at
             new == [created |-> at, expires |-> at + Life, status |-> "active",
                     id |-> Cardinality(Existing) + 1]
  <1>1. KeysTyped /\ ManagersHold /\ ClientsHold /\ Numbered /\ QuotaHolds /\ IssuesFit /\ UsesFit /\ WalkFits
    BY KeysParts DEF KInv
  <1>2. manager[m] \in Management /\ at \in 0 .. MaxTime /\ at <= now /\ now \in 0 .. MaxTime /\ MaxTime \in Nat
        /\ Life \in Nat /\ Cardinality(ActiveAt(at)) < Quota /\ userLock = m
    BY <1>1 DEF KeysTyped, IssuesFit, ApiKeysAssumption, Management, ManagersHold
  <1>3. keyLock' = keyLock /\ userLock' = None
    BY <1>1, <1>2, ManagerReleases
  <1>4. /\ Existing \in SUBSET Keys /\ Existing \cup {k} \in SUBSET Keys
        /\ Cardinality(Existing) \in Nat /\ Cardinality(Keys) \in Nat
        /\ Cardinality(Existing \cup {k}) = Cardinality(Existing) + 1
        /\ Cardinality(Existing) + 1 <= Cardinality(Keys)
    <2>1. Existing \in SUBSET Keys /\ Existing \cup {k} \in SUBSET Keys
      BY DEF Existing
    <2>2. IsFiniteSet(Existing) /\ Cardinality(Existing) \in Nat /\ Cardinality(Keys) \in Nat
      BY <2>1, ExistingIsFinite
    <2>3. Cardinality(Existing \cup {k}) = Cardinality(Existing) + 1
      BY <2>2, FS_AddElement
    <2>4. Cardinality(Existing \cup {k}) <= Cardinality(Keys)
      BY <2>1, ExistingIsFinite
    <2>5. QED
      BY <2>1, <2>2, <2>3, <2>4
  <1>5. new \in KeyRow /\ new # None
    BY <1>2, <1>4 DEF KeyRow, ApiKeysAssumption
  <1>6. \A l \in Keys : row'[l] = IF l = k THEN new ELSE row[l]
    BY <1>1 DEF KeysTyped
  <1>7. new.id = Cardinality(Existing) + 1 /\ new.expires = at + Life /\ new.created = at /\ new.status = "active"
    OBVIOUS
  <1> HIDE DEF new
  <1>8. Existing' = Existing \cup {k}
    BY <1>5, <1>6 DEF Existing
  <1>9. KeysTyped'
    <2>1. row' \in [Keys -> KeyRow \cup {None}]
      BY <1>1, <1>5 DEF KeysTyped, new
    <2>2. \A l \in Existing' : row'[l].expires = row'[l].created + Life /\ row'[l].id \in 1 .. Cardinality(Keys)
      BY <1>1, <1>4, <1>6, <1>7, <1>8 DEF KeysTyped
    <2>3. manager' \in [Managers -> Management]
      BY <1>1, IdleFits DEF KeysTyped
    <2>4. QED
      BY <1>1, <1>3, <2>1, <2>2, <2>3 DEF KeysTyped
  <1>10. ManagersHold' /\ ClientsHold'
    BY <1>1, <1>2, <1>3 DEF ManagersHold, ClientsHold, KeysTyped, ApiKeysAssumption, IdleManager
  <1>11. Numbered'
    <2>1. \A l \in Existing : row[l].id <= Cardinality(Existing) /\ row[l].id \in Nat
      BY <1>1 DEF Numbered, KeysTyped, Existing, KeyRow
    <2>2. SUFFICES ASSUME NEW j \in Existing \cup {k}
                   PROVE  /\ row'[j].id <= Cardinality(Existing) + 1
                          /\ \A l \in Existing \cup {k} : row'[j].id = row'[l].id => j = l
      BY <1>4, <1>8 DEF Numbered
    <2>3. CASE j = k
      BY <1>4, <1>6, <1>7, <2>1, <2>3
    <2>4. CASE j # k
      BY <1>1, <1>4, <1>6, <1>7, <2>1, <2>2, <2>4 DEF Numbered
    <2>5. QED
      BY <2>3, <2>4
  <1>12. QuotaHolds'
    <2> DEFINE S == {l \in Keys : Usable(l)'}
    <2>1. S \subseteq ActiveAt(at) \cup {k}
      <3>1. SUFFICES ASSUME NEW l \in S, l # k PROVE l \in ActiveAt(at)
        OBVIOUS
      <3>2. row'[l] = row[l] /\ row[l] # None /\ row[l].status = "active" /\ row[l].expires > now
        BY <1>6, <3>1 DEF Usable
      <3>3. row[l].expires \in Nat
        BY <1>1, <3>2 DEF KeysTyped, KeyRow
      <3>4. QED
        BY <1>2, <3>2, <3>3 DEF ActiveAt, Existing
    <2>2. ActiveAt(at) \in SUBSET Keys /\ ActiveAt(at) \cup {k} \in SUBSET Keys
      BY DEF ActiveAt, Existing
    <2>3. IsFiniteSet(ActiveAt(at)) /\ Cardinality(ActiveAt(at)) \in Nat
      BY <2>2, ExistingIsFinite
    <2>4. /\ IsFiniteSet(ActiveAt(at) \cup {k})
          /\ Cardinality(ActiveAt(at) \cup {k}) <= Cardinality(ActiveAt(at)) + 1
          /\ Cardinality(ActiveAt(at) \cup {k}) \in Nat
      <3> DEFINE A == ActiveAt(at)
      <3> HIDE DEF A
      <3>1. IsFiniteSet(A) => IsFiniteSet(A \cup {k})
              /\ Cardinality(A \cup {k}) = IF k \in A THEN Cardinality(A) ELSE Cardinality(A) + 1
        BY FS_AddElement
      <3>2. QED
        BY <2>3, <3>1 DEF A
    <2>5. Cardinality(S) <= Cardinality(ActiveAt(at) \cup {k}) /\ Cardinality(S) \in Nat
      BY <2>1, <2>4, FS_Subset, FS_CardinalityType
    <2>6. QED
      BY <1>2, <2>3, <2>4, <2>5 DEF QuotaHolds, ApiKeysAssumption
  <1>13. IssuesFit'
    <2>1. SUFFICES ASSUME NEW n \in Managers
                   PROVE  /\ manager'[n].at <= now
                          /\ manager'[n].stage # "insert"
                          /\ manager'[n].stage \in {"revoke", "update"} => manager'[n].key \in Existing'
      BY DEF IssuesFit
    <2>2. manager'[n] = IF n = m THEN IdleManager ELSE manager[n]
      BY <1>1 DEF KeysTyped
    <2>3. CASE n = m
      BY <1>2, <2>2, <2>3 DEF IdleManager
    <2>4. CASE n # m
      BY <1>1, <1>2, <1>8, <2>2, <2>4 DEF IssuesFit, ManagersHold
    <2>5. QED
      BY <2>3, <2>4
  <1>14. UsesFit'
    <2>1. SUFFICES ASSUME NEW d \in Clients PROVE UseFits(d, client[d])'
      BY DEF UsesFit
    <2>2. PICK v : v = client[d]
      OBVIOUS
    <2>3. UseFits(d, v) /\ v \in KeyUse /\ client'[d] = v
      BY <1>1, <2>2 DEF UsesFit, KeysTyped
    <2>4. v.stage # "idle" => row'[v.key] = row[v.key]
      BY <1>6, <2>3 DEF UseFits, Existing
    <2>5. UseFits(d, v)'
      BY <1>3, <1>8, <2>3, <2>4 DEF UseFits, Owning
    <2>6. QED
      BY <2>3, <2>5
  <1>15. WalkFits'
    <2>1. \A l \in Existing : row'[l] = row[l] /\ (l \in Listed' <=> l \in Listed)
      BY <1>6, <1>8 DEF Existing, Listed
    <2>2. \A l \in Existing : Beyond(l, listing.boundary)' <=> Beyond(l, listing.boundary)
      BY <2>1 DEF Beyond
    <2>3. QED
      BY <1>1, <1>8, <2>1, <2>2 DEF WalkFits
  <1>16. QED
    BY <1>9, <1>10, <1>11, <1>12, <1>13, <1>14, <1>15, KeysParts DEF KInv

\* A token that is taken: the transaction ends, and the next begins or none does.
LEMMA TokenTakenKeeps ==
  ASSUME ApiKeysAssumption, KInv, NEW m \in Managers, manager[m].stage = "insert",
         manager' = [manager EXCEPT ![m] = AnotherToken(manager[m])], Release(m),
         UNCHANGED <<now, ownerActive, row, client, listing>>
  PROVE  KInv'
  <1>1. KeysTyped /\ ManagersHold /\ IssuesFit
    BY KeysParts DEF KInv
  <1>2. manager[m] \in Management /\ now \in 0 .. MaxTime /\ MaxTime \in Nat /\ userLock = m /\ m # None
    BY <1>1 DEF KeysTyped, IssuesFit, ApiKeysAssumption, ManagersHold
  <1>3. keyLock' = keyLock /\ userLock' = None
    BY <1>1, <1>2, ManagerReleases
  <1> DEFINE t == AnotherToken(manager[m])
  <1>4. t \in Management /\ t.stage \in {"idle", "issue"} /\ t.at <= now
    <2>1. CASE manager[m].attempt + 1 = Attempts
      BY <1>2, <2>1, IdleFits DEF AnotherToken, IdleManager
    <2>2. CASE manager[m].attempt + 1 # Attempts
      <3> DEFINE n == manager[m].attempt + 1
      <3>1. n \in 0 .. Attempts - 1
        BY <1>2, <2>2 DEF Management, ApiKeysAssumption
      <3>2. t = [IdleManager EXCEPT !.stage = "issue", !.attempt = n]
        BY <2>2 DEF AnotherToken
      <3> HIDE DEF n, t
      <3>3. t = [stage |-> "issue", key |-> None, at |-> 0, attempt |-> n]
        BY <3>2 DEF IdleManager
      <3>4. QED
        BY <1>2, <3>1, <3>3 DEF Management, ApiKeysAssumption
    <2>3. QED
      BY <2>1, <2>2
  <1>5. manager' = [manager EXCEPT ![m] = t]
    OBVIOUS
  <1> HIDE DEF t
  <1>6. QED
    BY <1>2, <1>3, <1>4, <1>5, ManagerGoesOn

LEMMA IssueInsertKeeps ==
  ASSUME ApiKeysAssumption, KInv, NEW m \in Managers, IssueInsert(m)
  PROVE  KInv'
  BY InsertKeeps, TokenTakenKeeps DEF IssueInsert

\* A key is revoked: nobody who goes on has it locked.
LEMMA RevokeUpdateKeeps ==
  ASSUME ApiKeysAssumption, KInv, NEW m \in Managers, RevokeUpdate(m)
  PROVE  KInv'
  <1> DEFINE k == manager[m].key
  <1>1. KeysTyped /\ ManagersHold /\ ClientsHold /\ Numbered /\ QuotaHolds /\ IssuesFit /\ UsesFit /\ WalkFits
    BY KeysParts DEF KInv
  <1>2. /\ manager[m].stage = "update" /\ keyLock[k] = None /\ Release(m)
        /\ row' = [row EXCEPT ![k] = [row[k] EXCEPT !.status = "revoked"]]
        /\ manager' = [manager EXCEPT ![m] = IdleManager]
        /\ UNCHANGED <<now, ownerActive, client, listing>>
    BY DEF RevokeUpdate
  <1>3. k \in Existing /\ k \in Keys /\ userLock = m /\ m # None
    BY <1>1, <1>2 DEF IssuesFit, Existing, ManagersHold, ApiKeysAssumption
  <1>4. keyLock' = keyLock /\ userLock' = None
    BY <1>1, <1>2, <1>3, ManagerReleases
  <1>5. row[k] \in KeyRow /\ row[k] # None
    BY <1>1, <1>3 DEF KeysTyped, Existing
  <1>6. [row[k] EXCEPT !.status = "revoked"] \in KeyRow /\ [row[k] EXCEPT !.status = "revoked"] # None
    BY <1>5 DEF KeyRow, ApiKeysAssumption
  <1>7. \A l \in Keys : row'[l] = IF l = k THEN [row[k] EXCEPT !.status = "revoked"] ELSE row[l]
    BY <1>1, <1>2 DEF KeysTyped
  <1>8. Existing' = Existing
    BY <1>5, <1>6, <1>7 DEF Existing
  <1>9. \A l \in Existing :
          /\ row'[l].id = row[l].id /\ row'[l].created = row[l].created /\ row'[l].expires = row[l].expires
          /\ l # k => row'[l].status = row[l].status
          /\ row'[l].status = "active" => row[l].status = "active"
          /\ row[l].status = "revoked" => row'[l].status = "revoked"
    BY <1>5, <1>7 DEF Existing, KeyRow
  <1>10. KeysTyped'
    <2>1. row' \in [Keys -> KeyRow \cup {None}]
      BY <1>1, <1>2, <1>6 DEF KeysTyped
    <2>2. manager' \in [Managers -> Management]
      BY <1>1, <1>2, IdleFits DEF KeysTyped
    <2>3. QED
      BY <1>1, <1>2, <1>4, <1>8, <1>9, <2>1, <2>2 DEF KeysTyped
  <1>11. ManagersHold' /\ ClientsHold'
    BY <1>1, <1>2, <1>3, <1>4 DEF ManagersHold, ClientsHold, KeysTyped, ApiKeysAssumption, IdleManager
  <1>12. Numbered'
    BY <1>1, <1>8, <1>9 DEF Numbered
  <1>13. QuotaHolds'
    <2> DEFINE S == {l \in Keys : Usable(l)}
               T == {l \in Keys : Usable(l)'}
    <2>1. T \subseteq S
      BY <1>2, <1>8, <1>9 DEF Usable, Existing
    <2>2. IsFiniteSet(S) /\ Cardinality(S) \in Nat
      BY ExistingIsFinite
    <2>3. Cardinality(T) <= Cardinality(S) /\ Cardinality(T) \in Nat
      BY <2>1, <2>2, FS_Subset, FS_CardinalityType
    <2>4. QED
      BY <1>1, <2>2, <2>3 DEF QuotaHolds, ApiKeysAssumption
  <1>14. IssuesFit'
    <2>1. SUFFICES ASSUME NEW n \in Managers
                   PROVE  /\ manager'[n].at <= now
                          /\ manager'[n].stage # "insert"
                          /\ manager'[n].stage \in {"revoke", "update"} => manager'[n].key \in Existing
      BY <1>2, <1>8 DEF IssuesFit
    <2>2. manager'[n] = IF n = m THEN IdleManager ELSE manager[n]
      BY <1>1, <1>2 DEF KeysTyped
    <2>3. CASE n = m
      <3>1. now \in Nat
        BY <1>1 DEF KeysTyped, ApiKeysAssumption
      <3>2. QED
        BY <2>2, <2>3, <3>1 DEF IdleManager
    <2>4. CASE n # m
      BY <1>1, <1>3, <2>2, <2>4 DEF IssuesFit, ManagersHold
    <2>5. QED
      BY <2>3, <2>4
  <1>15. UsesFit'
    <2>1. SUFFICES ASSUME NEW d \in Clients PROVE UseFits(d, client[d])'
      BY DEF UsesFit
    <2>2. PICK v : v = client[d]
      OBVIOUS
    <2>3. UseFits(d, v) /\ v \in KeyUse /\ client'[d] = v /\ d # None
      BY <1>1, <1>2, <2>2 DEF UsesFit, KeysTyped, ApiKeysAssumption
    <2>4. v.stage \in Owning => v.key # k
      BY <1>2, <2>3 DEF UseFits
    <2>5. UseFits(d, v)'
      BY <1>2, <1>4, <1>8, <1>9, <2>3, <2>4 DEF UseFits, Owning
    <2>6. QED
      BY <2>3, <2>5
  <1>16. WalkFits'
    <2>1. Listed' \subseteq Listed
      BY <1>8, <1>9 DEF Listed, Existing, KeyRow
    <2>2. \A l \in Existing : Beyond(l, listing.boundary)' <=> Beyond(l, listing.boundary)
      BY <1>2, <1>9 DEF Beyond
    <2>3. QED
      BY <1>1, <1>2, <1>8, <2>1, <2>2 DEF WalkFits
  <1>17. QED
    BY <1>10, <1>11, <1>12, <1>13, <1>14, <1>15, <1>16, KeysParts DEF KInv

\* The account is disabled while no request has locked its owner, or time passes.
LEMMA AroundKeysKeeps ==
  ASSUME ApiKeysAssumption, KInv, Disable \/ Tick \/ UNCHANGED keysVars
  PROVE  KInv'
  <1>1. KeysTyped /\ ManagersHold /\ ClientsHold /\ RowsFit /\ IssuesFit /\ UsesFit /\ WalkFits
    BY KeysParts DEF KInv, RowsFit
  <1>2. /\ UNCHANGED <<row, userLock, keyLock, manager, client, listing>>
        /\ ownerActive' = ownerActive \/ (userLock = None /\ ownerActive' = FALSE)
        /\ now' \in 0 .. MaxTime /\ now <= now'
    BY <1>1 DEF Disable, Tick, keysVars, KeysTyped, ApiKeysAssumption
  <1>3. RowsFit' /\ Existing' = Existing
    BY <1>1, <1>2, SameRows
  <1>4. ownerActive' \in BOOLEAN
    BY <1>1, <1>2 DEF KeysTyped
  <1>5. KeysTyped'
    BY <1>1, <1>2, <1>3, <1>4 DEF KeysTyped
  <1>6. ManagersHold' /\ ClientsHold'
    BY <1>1, <1>2 DEF ManagersHold, ClientsHold
  <1>7. IssuesFit'
    <2>1. \A n \in Managers : manager[n].at \in Int
      BY <1>1 DEF KeysTyped, Management
    <2>2. now \in Int /\ now' \in Int
      BY <1>1, <1>2 DEF KeysTyped
    <2>3. QED
      BY <1>1, <1>2, <1>3, <2>1, <2>2 DEF IssuesFit, ActiveAt
  <1>8. UsesFit'
    <2>1. SUFFICES ASSUME NEW d \in Clients PROVE UseFits(d, client[d])'
      BY DEF UsesFit
    <2>2. PICK v : v = client[d]
      OBVIOUS
    <2>3. UseFits(d, v) /\ v \in KeyUse /\ client'[d] = v /\ d # None
      BY <1>1, <1>2, <2>2 DEF UsesFit, KeysTyped, ApiKeysAssumption
    <2>4. v.stage \in Owning => userLock = d
      BY <1>1, <2>2 DEF ClientsHold
    <2>5. v.stage \in Owning => ownerActive' = ownerActive
      BY <1>2, <2>3, <2>4
    <2>6. v.at <= now' /\ v.applied <= now'
      <3>1. v.at \in 0 .. MaxTime /\ v.applied \in 0 .. MaxTime
        BY <2>3 DEF KeyUse
      <3>2. now \in 0 .. MaxTime /\ now' \in 0 .. MaxTime /\ now <= now'
        BY <1>1, <1>2 DEF KeysTyped
      <3>3. v.at <= now /\ v.applied <= now
        BY <2>3 DEF UseFits
      <3>4. QED
        BY <3>1, <3>2, <3>3
    <2>7. v.stage \in Owning => ownerActive'
      BY <2>3, <2>5 DEF UseFits
    <2>8. UseFits(d, v)'
      BY <1>2, <1>3, <2>3, <2>6, <2>7 DEF UseFits, Owning
    <2>9. QED
      BY <2>3, <2>8
  <1>9. WalkFits'
    BY <1>1, <1>2, SameWalk
  <1>10. QED
    BY <1>3, <1>5, <1>6, <1>7, <1>8, <1>9, KeysParts DEF KInv, RowsFit

-----------------------------------------------------------------------------
\* What a request holds when it ends: nothing.
LEMMA ClientReleases ==
  ASSUME ApiKeysAssumption, KeysTyped, NEW c \in Clients, Release(c)
  PROVE  /\ keyLock' \in [Keys -> Clients \cup {None}]
         /\ \A k \in Keys : keyLock'[k] = IF keyLock[k] = c THEN None ELSE keyLock[k]
         /\ \A k \in Keys : keyLock'[k] # c
         /\ userLock' = (IF userLock = c THEN None ELSE userLock) /\ userLock' # c
  BY DEF Release, KeysTyped, ApiKeysAssumption

\* A request ends, or begins its transaction anew.
LEMMA ClientEnds ==
  ASSUME ApiKeysAssumption, KInv, NEW c \in Clients, NEW u \in KeyUse,
         client' = [client EXCEPT ![c] = u], Release(c), UseFits(c, u)',
         u.stage \in {"idle", "begin"}, UNCHANGED <<now, ownerActive, row, manager, listing>>
  PROVE  KInv'
  <1>1. KeysTyped
    BY KeysParts DEF KInv
  <1>2. /\ keyLock' \in [Keys -> Clients \cup {None}]
        /\ \A k \in Keys : keyLock'[k] = IF keyLock[k] = c THEN None ELSE keyLock[k]
        /\ \A k \in Keys : keyLock'[k] # c
        /\ userLock' = (IF userLock = c THEN None ELSE userLock) /\ userLock' # c
    BY <1>1, ClientReleases
  <1>3. u.stage \notin Owning
    BY DEF Owning
  <1>4. QED
    BY <1>2, <1>3, ClientGoesOn

LEMMA DeniedKeeps ==
  ASSUME ApiKeysAssumption, KInv, NEW c \in Clients, client' = [client EXCEPT ![c] = IdleClient],
         Release(c), UNCHANGED <<now, ownerActive, row, manager, listing>>
  PROVE  KInv'
  <1>1. now \in Nat
    BY KeysParts DEF KInv, KeysTyped, ApiKeysAssumption
  <1>2. UseFits(c, IdleClient)'
    BY <1>1 DEF UseFits, IdleClient, Owning
  <1>3. IdleClient \in KeyUse /\ IdleClient.stage = "idle"
    BY IdleFits DEF IdleClient
  <1>4. QED
    BY <1>2, <1>3, ClientEnds

\* A key is found, and its first check begins.
LEMMA ResolveKeeps ==
  ASSUME ApiKeysAssumption, KInv, NEW c \in Clients, ResolveBearer(c)
  PROVE  KInv'
  <1>1. KeysTyped /\ ClientsHold
    BY KeysParts DEF KInv
  <1>2. PICK k \in Existing :
          /\ client[c].stage = "idle"
          /\ client' = [client EXCEPT ![c] = Using(k, 0)]
          /\ UNCHANGED <<now, ownerActive, row, userLock, keyLock, manager, listing>>
    BY DEF ResolveBearer
  <1>3. [stage |-> "begin", key |-> k, at |-> 0, retry |-> 0, applied |-> 0] \in KeyUse
    BY DEF KeyUse, Existing, ApiKeysAssumption
  <1>4. PICK u \in KeyUse : u = [stage |-> "begin", key |-> k, at |-> 0, retry |-> 0, applied |-> 0]
    BY <1>3
  <1>5. client' = [client EXCEPT ![c] = u]
    BY <1>2, <1>4 DEF Using
  <1>6. u.stage = "begin" /\ u.stage \notin Owning
    BY <1>4 DEF Owning
  <1>7. now \in Nat
    BY <1>1 DEF KeysTyped, ApiKeysAssumption
  <1>8. userLock # c /\ \A l \in Keys : keyLock[l] # c
    BY <1>1, <1>2 DEF ClientsHold, Owning
  <1>9. UseFits(c, u)'
    BY <1>2, <1>4, <1>7 DEF UseFits, Owning, Existing
  <1>10. keyLock' \in [Keys -> Clients \cup {None}]
    BY <1>1, <1>2 DEF KeysTyped
  <1>11. QED
    BY <1>2, <1>5, <1>6, <1>8, <1>9, <1>10, ClientGoesOn

LEMMA RecheckKeeps ==
  ASSUME ApiKeysAssumption, KInv, NEW c \in Clients, Recheck(c)
  PROVE  KInv'
  <1>1. KeysTyped /\ ClientsHold /\ UseFits(c, client[c])
    BY KeysParts DEF KInv, UsesFit
  <1>2. /\ client[c].stage \in {"begin", "done"}
        /\ UNCHANGED <<now, ownerActive, row, userLock, keyLock, manager, listing>>
    BY DEF Recheck
  <1>3. client[c] \in KeyUse /\ now \in 0 .. MaxTime /\ now <= now
    BY <1>1 DEF KeysTyped, ApiKeysAssumption
  <1>4. PICK s \in {"key", "key again"} : s = IF client[c].stage = "begin" THEN "key" ELSE "key again"
    OBVIOUS
  <1>5. [client[c] EXCEPT !.at = now, !.stage = s] \in KeyUse
    BY <1>3 DEF KeyUse
  <1>6. PICK u \in KeyUse : u = [client[c] EXCEPT !.at = now, !.stage = s]
    BY <1>5
  <1>7. u.stage = s /\ u.at = now /\ u.key = client[c].key /\ u.applied = client[c].applied
    BY <1>3, <1>6 DEF KeyUse
  <1>8. client' = [client EXCEPT ![c] = u]
    BY <1>4, <1>6 DEF Recheck
  <1>9. u.stage \in Owning <=> userLock = c
    BY <1>1, <1>2, <1>4, <1>7 DEF ClientsHold, Owning
  <1>10. \A k \in Keys : keyLock[k] = c => u.stage \notin {"idle", "begin", "key"}
    BY <1>1, <1>2, <1>4, <1>7 DEF ClientsHold
  <1>11. UseFits(c, u)
    <2>1. CASE client[c].stage = "begin"
      <3>1. u.stage = "key" /\ u.key \in Existing /\ u.at <= now /\ u.applied <= now
        BY <1>1, <1>3, <1>4, <1>7, <2>1 DEF UseFits
      <3>2. QED
        BY <3>1 DEF UseFits, Owning
    <2>2. CASE client[c].stage = "done"
      <3>1. u.stage = "key again" /\ u.key \in Existing /\ u.at = now /\ u.applied <= now
        BY <1>1, <1>3, <1>4, <1>7, <2>2 DEF UseFits
      <3>2. client[c].stage \in Owning /\ client[c].stage \in Owning \cup {"user"}
        BY <2>2 DEF Owning
      <3>3. keyLock[u.key] = c /\ row[u.key].status = "active"
        BY <1>1, <1>7, <3>2 DEF UseFits
      <3>4. ownerActive
        BY <1>1, <3>2 DEF UseFits
      <3>5. u.at <= now
        BY <1>3, <1>7
      <3>6. u.applied <= u.at
        BY <3>1
      <3>7. QED
        BY <3>1, <3>3, <3>4, <3>5, <3>6 DEF UseFits, Owning
    <2>3. QED
      BY <1>2, <2>1, <2>2
  <1>12. UseFits(c, u)'
    BY <1>2, <1>11 DEF UseFits, Owning, Existing
  <1>13. keyLock' \in [Keys -> Clients \cup {None}]
    BY <1>1, <1>2 DEF KeysTyped
  <1>14. QED
    BY <1>2, <1>8, <1>9, <1>10, <1>12, <1>13, ClientGoesOn

\* A request that has checked goes on to its next step.
LEMMA StageKeeps ==
  ASSUME ApiKeysAssumption, KInv, NEW c \in Clients,
         NEW s \in {"user", "apply", "user again", "commit"}, ClientTo(c, s),
         UNCHANGED <<now, ownerActive, row, manager, listing>>,
         keyLock' \in [Keys -> Clients \cup {None}],
         userLock' = userLock \/ (userLock \in {None, c} /\ userLock' \in {None, c}),
         \A k \in Keys : keyLock'[k] = keyLock[k] \/ (keyLock[k] \in {None, c} /\ keyLock'[k] \in {None, c}),
         s \in Owning <=> userLock' = c,
         client[c].key \in Existing, keyLock'[client[c].key] = c,
         s \in Owning => ownerActive /\ row[client[c].key].status = "active",
         s \in {"user again", "commit"} =>
           client[c].applied <= client[c].at /\ client[c].at < row[client[c].key].expires
  PROVE  KInv'
  <1>1. KeysTyped /\ UseFits(c, client[c])
    BY KeysParts DEF KInv, UsesFit
  <1>2. client[c] \in KeyUse
    BY <1>1 DEF KeysTyped
  <1>3. PICK u \in KeyUse : u = [client[c] EXCEPT !.stage = s]
    BY <1>2 DEF KeyUse
  <1>4. /\ client' = [client EXCEPT ![c] = u]
        /\ u.stage = s /\ u.at = client[c].at /\ u.key = client[c].key /\ u.applied = client[c].applied
    BY <1>2, <1>3 DEF KeyUse, ClientTo
  <1>5. Existing' = Existing
    BY DEF Existing
  <1>6. ownerActive' = ownerActive /\ row' = row /\ now' = now
    OBVIOUS
  <1>7. u.at <= now /\ u.applied <= now
    BY <1>1, <1>4 DEF UseFits
  <1>8. u.stage \in Owning => ownerActive' /\ row'[u.key].status = "active"
    <2>1. s \in Owning => ownerActive'
      <3>1. s \in Owning => ownerActive
        OBVIOUS
      <3>2. ownerActive' = ownerActive
        OBVIOUS
      <3>3. ownerActive \in BOOLEAN
        BY <1>1 DEF KeysTyped
      <3>4. CASE ownerActive = TRUE
        BY <3>2, <3>4
      <3>5. CASE ownerActive = FALSE
        BY <3>1, <3>5
      <3>6. QED
        BY <3>3, <3>4, <3>5
    <2>2. s \in Owning => row'[client[c].key].status = "active"
      BY <1>6
    <2>3. QED
      BY <1>4, <2>1, <2>2
  <1>9. UseFits(c, u)'
    BY <1>4, <1>5, <1>6, <1>7, <1>8 DEF UseFits, Owning
  <1>10. QED
    BY <1>4, <1>9, ClientGoesOn

\* The row of the key is locked, if it has not expired.
LEMMA RecheckKeyKeeps ==
  ASSUME ApiKeysAssumption, KInv, NEW c \in Clients, RecheckKey(c)
  PROVE  KInv'
  <1>1. KeysTyped /\ ClientsHold /\ UseFits(c, client[c])
    BY KeysParts DEF KInv, UsesFit
  <1> DEFINE k == client[c].key
  <1>2. /\ client[c].stage \in {"key", "key again"}
        /\ UNCHANGED <<now, ownerActive, row, manager, listing>>
    BY DEF RecheckKey
  <1>3. k \in Existing /\ k \in Keys
    BY <1>1, <1>2 DEF UseFits, Existing
  <1>4. CASE row[k].expires > client[c].at
    <2>1. /\ keyLock[k] \in {None, c} /\ keyLock' = [keyLock EXCEPT ![k] = c] /\ UNCHANGED userLock
          /\ ClientTo(c, IF client[c].stage = "key" THEN "user" ELSE "user again")
      BY <1>4 DEF RecheckKey
    <2>2. keyLock' \in [Keys -> Clients \cup {None}] /\ keyLock'[k] = c
      BY <1>1, <1>3, <2>1 DEF KeysTyped
    <2>3. \A l \in Keys : keyLock'[l] = keyLock[l] \/ (keyLock[l] \in {None, c} /\ keyLock'[l] \in {None, c})
      BY <1>1, <2>1 DEF KeysTyped
    <2>4. CASE client[c].stage = "key"
      <3>1. ClientTo(c, "user") /\ "user" \notin Owning /\ userLock' # c
        BY <1>1, <2>1, <2>4 DEF ClientsHold, Owning
      <3>2. QED
        BY <1>2, <1>3, <2>1, <2>2, <2>3, <3>1, StageKeeps
    <2>5. CASE client[c].stage = "key again"
      <3>1. ClientTo(c, "user again") /\ "user again" \in Owning /\ userLock' = c
        BY <1>1, <2>1, <2>5 DEF ClientsHold, Owning
      <3>2. ownerActive /\ row[k].status = "active" /\ client[c].applied <= client[c].at
        BY <1>1, <2>5 DEF UseFits, Owning
      <3>3. client[c].at < row[k].expires
        <4>1. client[c] \in KeyUse /\ row[k] \in KeyRow
          BY <1>1, <1>3 DEF KeysTyped, Existing
        <4>2. client[c].at \in 0 .. MaxTime /\ row[k].expires \in Nat
          BY <4>1 DEF KeyUse, KeyRow
        <4>3. QED
          BY <1>4, <4>2 DEF ApiKeysAssumption
      <3>4. QED
        BY <1>2, <1>3, <2>1, <2>2, <2>3, <3>1, <3>2, <3>3, StageKeeps
    <2>6. QED
      BY <1>2, <2>4, <2>5
  <1>5. CASE ~(row[k].expires > client[c].at)
    BY <1>2, <1>5, DeniedKeeps DEF RecheckKey, Denied
  <1>6. QED
    BY <1>4, <1>5

\* Then the row of the owner.
LEMMA RecheckUserKeeps ==
  ASSUME ApiKeysAssumption, KInv, NEW c \in Clients, RecheckUser(c)
  PROVE  KInv'
  <1>1. KeysTyped /\ ClientsHold /\ UseFits(c, client[c])
    BY KeysParts DEF KInv, UsesFit
  <1> DEFINE k == client[c].key
  <1>2. /\ client[c].stage \in {"user", "user again"}
        /\ UNCHANGED <<now, ownerActive, row, manager, listing>>
    BY DEF RecheckUser
  <1>3. k \in Existing /\ keyLock[k] = c
    BY <1>1, <1>2 DEF UseFits, Owning
  <1>4. CASE ownerActive /\ row[k].status = "active"
    <2>1. /\ userLock \in {None, c} /\ userLock' = c /\ UNCHANGED keyLock
          /\ ClientTo(c, IF client[c].stage = "user" THEN "apply" ELSE "commit")
      BY <1>4 DEF RecheckUser, LockUser
    <2>2. keyLock' \in [Keys -> Clients \cup {None}] /\ keyLock'[k] = c
      BY <1>1, <1>3, <2>1 DEF KeysTyped
    <2>3. CASE client[c].stage = "user"
      <3>1. ClientTo(c, "apply") /\ "apply" \in Owning
        BY <2>1, <2>3 DEF Owning
      <3>2. QED
        BY <1>2, <1>3, <1>4, <2>1, <2>2, <3>1, StageKeeps
    <2>4. CASE client[c].stage = "user again"
      <3>1. ClientTo(c, "commit") /\ "commit" \in Owning
        BY <2>1, <2>4 DEF Owning
      <3>2. client[c].applied <= client[c].at /\ client[c].at < row[k].expires
        BY <1>1, <2>4 DEF UseFits
      <3>3. QED
        BY <1>2, <1>3, <1>4, <2>1, <2>2, <3>1, <3>2, StageKeeps
    <2>5. QED
      BY <1>2, <2>3, <2>4
  <1>5. CASE ~(ownerActive /\ row[k].status = "active")
    BY <1>2, <1>5, DeniedKeeps DEF RecheckUser, Denied
  <1>6. QED
    BY <1>4, <1>5

\* The work is done, with the owner and the key locked.
LEMMA ApplyKeeps ==
  ASSUME ApiKeysAssumption, KInv, NEW c \in Clients, Apply(c)
  PROVE  KInv'
  <1>1. KeysTyped /\ ClientsHold /\ UseFits(c, client[c])
    BY KeysParts DEF KInv, UsesFit
  <1>2. /\ client[c].stage = "apply"
        /\ UNCHANGED <<now, ownerActive, row, userLock, keyLock, manager, listing>>
    BY DEF Apply
  <1>3. client[c] \in KeyUse /\ now \in 0 .. MaxTime /\ now <= now
    BY <1>1 DEF KeysTyped, ApiKeysAssumption
  <1>4. PICK u \in KeyUse : u = [client[c] EXCEPT !.stage = "done", !.applied = now]
    BY <1>3 DEF KeyUse
  <1>5. u.stage = "done" /\ u.applied = now /\ u.key = client[c].key /\ u.at = client[c].at
    BY <1>3, <1>4 DEF KeyUse
  <1>6. client' = [client EXCEPT ![c] = u]
    BY <1>4 DEF Apply, AfterApply
  <1>7. client[c].stage \in Owning /\ client[c].stage \in Owning \cup {"user"} /\ userLock = c /\ u.stage \in Owning
    BY <1>1, <1>2, <1>5 DEF ClientsHold, Owning
  <1>8. UseFits(c, u)
    <2>1. u.key \in Existing /\ keyLock[u.key] = c /\ row[u.key].status = "active"
      BY <1>1, <1>2, <1>5, <1>7 DEF UseFits
    <2>2. ownerActive
      BY <1>1, <1>7 DEF UseFits
    <2>3. u.at <= now /\ u.applied <= now
      BY <1>1, <1>3, <1>5 DEF UseFits
    <2>4. QED
      BY <1>5, <2>1, <2>2, <2>3 DEF UseFits, Owning
  <1>9. UseFits(c, u)'
    BY <1>2, <1>8 DEF UseFits, Owning, Existing
  <1>10. keyLock' \in [Keys -> Clients \cup {None}]
    BY <1>1, <1>2 DEF KeysTyped
  <1>11. QED
    BY <1>2, <1>5, <1>6, <1>7, <1>9, <1>10, ClientGoesOn

LEMMA CommitKeeps ==
  ASSUME ApiKeysAssumption, KInv, NEW c \in Clients, CommitWork(c)
  PROVE  KInv'
  BY DeniedKeeps DEF CommitWork

\* A deadlock: the revocation fails, or the request is tried again.
LEMMA VictimKeeps ==
  ASSUME ApiKeysAssumption, KInv, NEW m \in Managers, NEW c \in Clients, Victim(m, c)
  PROVE  KInv'
  <1>1. KeysTyped /\ ManagersHold /\ IssuesFit /\ UseFits(c, client[c])
    BY KeysParts DEF KInv, UsesFit
  <1>2. UNCHANGED <<now, ownerActive, row, listing>> /\ userLock = m /\ client[c].stage \in {"user", "user again"}
    BY DEF Victim, Entangled
  <1>3. now \in 0 .. MaxTime /\ 0 <= now /\ client[c] \in KeyUse
    BY <1>1 DEF KeysTyped, ApiKeysAssumption
  <1>4. CASE manager' = [manager EXCEPT ![m] = IdleManager] /\ Release(m) /\ UNCHANGED client
    <2>1. keyLock' = keyLock /\ userLock' = None /\ m # None
      BY <1>1, <1>2, <1>4, ManagerReleases DEF ApiKeysAssumption
    <2>2. IdleManager.stage = "idle" /\ IdleManager.at <= now
      BY <1>3 DEF IdleManager
    <2>3. QED
      BY <1>2, <1>4, <2>1, <2>2, IdleFits, ManagerGoesOn
  <1>5. CASE client' = [client EXCEPT ![c] = AnotherTry(client[c])] /\ Release(c) /\ UNCHANGED manager
    <2>1. CASE client[c].retry = Retries
      BY <1>2, <1>5, <2>1, DeniedKeeps DEF AnotherTry
    <2>2. CASE client[c].retry # Retries
      <3>1. client[c].retry + 1 \in 0 .. Retries /\ client[c].key \in Existing /\ client[c].key \in Keys
        <4>1. client[c].retry \in 0 .. Retries
          BY <1>3 DEF KeyUse
        <4>2. client[c].retry + 1 \in 0 .. Retries
          BY <2>2, <4>1 DEF ApiKeysAssumption
        <4>3. client[c].key \in Existing
          BY <1>1, <1>2 DEF UseFits
        <4>4. QED
          BY <4>2, <4>3 DEF Existing
      <3>2. Using(client[c].key, client[c].retry + 1) \in KeyUse
        BY <3>1 DEF Using, KeyUse, ApiKeysAssumption
      <3>3. PICK u \in KeyUse : u = Using(client[c].key, client[c].retry + 1)
        BY <3>2
      <3>4. u.stage = "begin" /\ u.key = client[c].key /\ u.at = 0 /\ u.applied = 0
        BY <3>3 DEF Using
      <3>5. UseFits(c, u)
        BY <1>3, <3>1, <3>4 DEF UseFits, Owning
      <3>6. UseFits(c, u)'
        BY <1>2, <3>4, <3>5 DEF UseFits, Owning, Existing
      <3>7. client' = [client EXCEPT ![c] = u]
        BY <1>5, <2>2, <3>3 DEF AnotherTry
      <3>8. QED
        BY <1>2, <1>5, <3>4, <3>6, <3>7, ClientEnds
    <2>3. QED
      BY <2>1, <2>2
  <1>6. QED
    BY <1>4, <1>5 DEF Victim

-----------------------------------------------------------------------------
\* The list is in one order: by the moment of issue, then by number.
LEMMA OneOrder ==
  ASSUME ApiKeysAssumption, KeysTyped, Numbered, NEW j \in Existing, NEW k \in Existing, NEW l \in Existing
  PROVE  /\ j = k \/ Newer(j, k) \/ Newer(k, j)
         /\ ~(Newer(j, k) /\ Newer(k, j)) /\ ~Newer(k, k)
         /\ Newer(j, k) /\ Newer(k, l) => Newer(j, l)
  <1>1. row[j] \in KeyRow /\ row[k] \in KeyRow /\ row[l] \in KeyRow
    BY DEF Existing, KeysTyped
  <1>2. /\ row[j].created \in 0 .. MaxTime /\ row[k].created \in 0 .. MaxTime /\ row[l].created \in 0 .. MaxTime
        /\ row[j].id \in Nat /\ row[k].id \in Nat /\ row[l].id \in Nat
    BY <1>1 DEF KeyRow
  <1>3. row[j].id = row[k].id => j = k
    BY DEF Numbered
  <1>4. QED
    BY <1>2, <1>3 DEF Newer, ApiKeysAssumption

\* What is older than a key beyond a boundary is beyond it too.
LEMMA BeyondOrder ==
  ASSUME ApiKeysAssumption, KeysTyped, NEW j \in Existing, NEW k \in Existing, NEW b \in Place
  PROVE  /\ Beyond(j, b) /\ Newer(j, k) => Beyond(k, b)
         /\ b = [created |-> row[j].created, id |-> row[j].id] => (Beyond(k, b) <=> Newer(j, k))
  <1>1. row[j] \in KeyRow /\ row[k] \in KeyRow
    BY DEF Existing, KeysTyped
  <1>2. /\ row[j].created \in 0 .. MaxTime /\ row[k].created \in 0 .. MaxTime
        /\ row[j].id \in Nat /\ row[k].id \in Nat
    BY <1>1 DEF KeyRow
  <1>3. b.created \in 0 .. MaxTime /\ b.id \in Nat /\ b # None
    BY DEF Place, ApiKeysAssumption
  <1>4. QED
    BY <1>2, <1>3 DEF Beyond, Newer, ApiKeysAssumption

\* A page is the newest of what is left: what follows is older than its last.
LEMMA PageIsNewest ==
  ASSUME ApiKeysAssumption, KeysTyped, Numbered, NEW rest \in SUBSET Existing, NEW page,
         page = {k \in rest : Cardinality({l \in rest : Newer(l, k)}) < PageSize},
         NEW last \in page, NEW k \in rest \ page
  PROVE  Newer(last, k)
  <1>1. last \in Existing /\ k \in Existing /\ k # last
    OBVIOUS
  <1>2. SUFFICES ASSUME Newer(k, last) PROVE FALSE
    BY <1>1, OneOrder
  <1> DEFINE A == {l \in rest : Newer(l, k)}
             B == {l \in rest : Newer(l, last)}
  <1>3. A \subseteq B
    <2>1. SUFFICES ASSUME NEW l \in A PROVE Newer(l, last)
      OBVIOUS
    <2>2. l \in Existing /\ Newer(l, k)
      OBVIOUS
    <2> HIDE DEF A, B
    <2>3. QED
      BY <1>1, <1>2, <2>2, OneOrder
  <1>4. B \in SUBSET Keys
    BY DEF Existing
  <1>5. IsFiniteSet(B) /\ Cardinality(B) \in Nat
    BY <1>4, ExistingIsFinite
  <1>6. Cardinality(A) <= Cardinality(B) /\ Cardinality(A) \in Nat
    BY <1>3, <1>5, FS_Subset, FS_CardinalityType
  <1>7. Cardinality(B) < PageSize /\ ~(Cardinality(A) < PageSize)
    OBVIOUS
  <1>8. QED
    BY <1>5, <1>6, <1>7 DEF ApiKeysAssumption

\* A page is listed.
LEMMA PageKeeps ==
  ASSUME ApiKeysAssumption, KeysTyped, Numbered, WalkFits, ListPage
  PROVE  WalkFits' /\ listing' \in Walk
  <1> DEFINE rest == {k \in Listed : Beyond(k, listing.boundary)}
             page == {k \in rest : Cardinality({l \in rest : Newer(l, k)}) < PageSize}
             present == IF listing.open THEN listing.present ELSE Listed
             emitted == listing.emitted \cup page
  <1>1. UNCHANGED row /\ (listing.open \/ listing = NoListing) /\ listing \in Walk
    BY DEF ListPage, KeysTyped
  <1>2. rest \in SUBSET Existing /\ page \in SUBSET Existing /\ page \subseteq rest /\ page \subseteq Listed
        /\ Listed \subseteq Existing /\ Existing \subseteq Keys
    BY DEF Listed, Existing
  <1>3. Existing' = Existing /\ Listed' = Listed
    BY <1>1 DEF Existing, Listed
  <1>4. listing.emitted \cap page = {} /\ listing.emitted \in SUBSET Existing /\ present \in SUBSET Existing
        /\ listing.twice = {}
    <2>1. CASE listing.open
      <3>1. \A k \in listing.emitted : ~Beyond(k, listing.boundary)
        BY <2>1 DEF WalkFits
      <3>2. QED
        BY <2>1, <3>1 DEF WalkFits
    <2>2. CASE ~listing.open
      BY <1>1, <1>2, <2>2 DEF NoListing
    <2>3. QED
      BY <2>1, <2>2
  <1>5. \A k \in present \cap Listed : k \in listing.emitted \/ k \in rest
    <2>1. CASE listing.open
      BY <2>1 DEF WalkFits
    <2>2. CASE ~listing.open
      <3>1. listing.boundary = None
        BY <1>1, <2>2 DEF NoListing
      <3>2. QED
        BY <3>1 DEF Beyond
    <2>3. QED
      BY <2>1, <2>2
  <1>6. ASSUME NEW more \in BOOLEAN, NEW b \in Place \cup {None}, Turn(page, more, b)
        PROVE  /\ listing' \in Walk /\ listing'.open = more /\ listing'.boundary = b /\ listing'.twice = {}
               /\ listing'.emitted = emitted /\ listing'.present = present
               /\ listing'.present \cup listing'.emitted \subseteq Existing
    <2>1. listing' = [open |-> more, boundary |-> b, emitted |-> emitted, twice |-> {}, present |-> present]
      BY <1>4, <1>6 DEF Turn
    <2>2. emitted \in SUBSET Existing
      BY <1>2, <1>4
    <2> HIDE DEF emitted, present, page
    <2>3. QED
      BY <1>2, <1>4, <2>1, <2>2 DEF Walk
  <1>7. CASE page = rest /\ Turn(page, FALSE, None)
    <2>1. /\ listing' \in Walk /\ listing'.open = FALSE /\ listing'.twice = {}
          /\ listing'.emitted = emitted /\ listing'.present = present
          /\ listing'.present \cup listing'.emitted \subseteq Existing
      BY <1>6, <1>7
    <2>2. present \cap Listed \subseteq emitted
      BY <1>5, <1>7
    <2> HIDE DEF emitted, present
    <2>3. QED
      BY <1>3, <2>1, <2>2 DEF WalkFits
  <1>8. ASSUME page # rest, NEW last \in page, \A k \in page : k = last \/ Newer(k, last),
               Turn(page, TRUE, [created |-> row[last].created, id |-> row[last].id])
        PROVE  WalkFits' /\ listing' \in Walk
    <2>1. last \in Existing /\ last \in rest /\ Beyond(last, listing.boundary)
      BY <1>2
    <2>2. PICK b : b = [created |-> row[last].created, id |-> row[last].id]
      OBVIOUS
    <2>3. b \in Place
      <3>1. row[last] \in KeyRow
        BY <2>1 DEF KeysTyped, Existing
      <3>2. QED
        BY <2>2, <3>1 DEF KeyRow, Place
    <2>4. \A k \in Existing : Beyond(k, b) <=> Newer(last, k)
      BY <2>1, <2>2, <2>3, BeyondOrder
    <2>5. /\ listing' \in Walk /\ listing'.open = TRUE /\ listing'.boundary = b /\ listing'.twice = {}
          /\ listing'.emitted = emitted /\ listing'.present = present
          /\ listing'.present \cup listing'.emitted \subseteq Existing
      BY <1>6, <1>8, <2>2, <2>3
    <2>6. \A k \in present \cap Listed : k \in emitted \/ Beyond(k, b)
      <3>1. SUFFICES ASSUME NEW k \in present \cap Listed, k \notin emitted PROVE Beyond(k, b)
        OBVIOUS
      <3>2. k \in rest \ page /\ k \in Existing
        BY <1>2, <1>5, <3>1
      <3>3. Newer(last, k)
        <4>1. rest \in SUBSET Existing /\ last \in page
          BY <1>2, <1>8
        <4> HIDE DEF rest
        <4>2. QED
          BY <3>2, <4>1, PageIsNewest
      <3>4. QED
        BY <2>4, <3>2, <3>3
    <2>7. \A k \in emitted : ~Beyond(k, b)
      <3>1. SUFFICES ASSUME NEW k \in emitted, Newer(last, k) PROVE FALSE
        BY <1>2, <1>4, <2>4
      <3>2. k \in Existing
        BY <1>2, <1>4
      <3>3. CASE k \in page
        BY <1>8, <2>1, <2>3, <3>1, <3>2, <3>3, OneOrder
      <3>4. CASE k \in listing.emitted
        <4>1. listing.open
          BY <1>1, <3>4 DEF NoListing
        <4>2. listing.boundary \in Place /\ ~Beyond(k, listing.boundary)
          BY <3>4, <4>1 DEF WalkFits
        <4>3. PICK a \in Place : a = listing.boundary
          BY <4>2
        <4>4. Beyond(last, a) /\ ~Beyond(k, a)
          BY <2>1, <4>2, <4>3
        <4>5. Beyond(last, a) /\ Newer(last, k) => Beyond(k, a)
          BY <2>1, <3>2, BeyondOrder
        <4>6. QED
          BY <3>1, <4>4, <4>5
      <3>5. QED
        BY <3>3, <3>4
    <2>8. \A k : Beyond(k, b)' <=> Beyond(k, b)
      BY <1>1 DEF Beyond
    <2> HIDE DEF emitted, present
    <2>9. QED
      BY <1>3, <2>3, <2>5, <2>6, <2>7, <2>8 DEF WalkFits, Beyond
  <1>9. QED
    BY <1>7, <1>8 DEF ListPage

LEMMA ListPageKeeps ==
  ASSUME ApiKeysAssumption, KInv, ListPage
  PROVE  KInv'
  <1>1. KeysTyped /\ ManagersHold /\ ClientsHold /\ RowsFit /\ Numbered /\ IssuesFit /\ UsesFit /\ WalkFits
    BY KeysParts DEF KInv, RowsFit
  <1>2. UNCHANGED <<now, ownerActive, row, userLock, keyLock, manager, client>>
    BY DEF ListPage
  <1>3. WalkFits' /\ listing' \in Walk
    BY <1>1, PageKeeps
  <1>4. now' \in 0 .. MaxTime /\ now <= now'
    BY <1>1, <1>2 DEF KeysTyped, ApiKeysAssumption
  <1>5. RowsFit' /\ Existing' = Existing
    BY <1>1, <1>2, <1>4, SameRows
  <1>6. KeysTyped'
    BY <1>1, <1>2, <1>3, <1>5 DEF KeysTyped
  <1>7. ManagersHold' /\ ClientsHold'
    BY <1>1, <1>2 DEF ManagersHold, ClientsHold
  <1>8. IssuesFit' /\ UsesFit'
    BY <1>1, <1>2, <1>5 DEF IssuesFit, ActiveAt, UsesFit, UseFits
  <1>9. QED
    BY <1>3, <1>5, <1>6, <1>7, <1>8, KeysParts DEF KInv, RowsFit

-----------------------------------------------------------------------------
LEMMA KeysBegin ==
  ASSUME ApiKeysAssumption
  PROVE  KeysInit => KInv
  <1>1. SUFFICES ASSUME KeysInit PROVE KInv
    OBVIOUS
  <1>2. Existing = {} /\ \A k \in Keys : ~Usable(k)
    BY <1>1 DEF KeysInit, Existing, Usable
  <1>3. KeysTyped
    <2>1. NoListing \in Walk
      BY DEF NoListing, Walk
    <2>2. QED
      BY <1>1, <1>2, <2>1, IdleFits DEF KeysInit, KeysTyped, ApiKeysAssumption
  <1>4. ManagersHold /\ ClientsHold
    BY <1>1 DEF KeysInit, ManagersHold, ClientsHold, IdleManager, IdleClient, Owning, ApiKeysAssumption
  <1>5. Numbered
    BY <1>2 DEF Numbered
  <1>6. QuotaHolds
    <2>1. {k \in Keys : Usable(k)} = {}
      BY <1>2
    <2>2. QED
      BY <2>1, FS_EmptySet DEF QuotaHolds, ApiKeysAssumption
  <1>7. IssuesFit
    BY <1>1 DEF KeysInit, IssuesFit, IdleManager
  <1>8. UsesFit
    <2>1. SUFFICES ASSUME NEW c \in Clients PROVE UseFits(c, IdleClient)
      BY <1>1 DEF KeysInit, UsesFit
    <2>2. QED
      BY <1>1 DEF KeysInit, UseFits, IdleClient, Owning
  <1>9. WalkFits
    BY <1>1 DEF KeysInit, WalkFits, NoListing
  <1>10. QED
    BY <1>3, <1>4, <1>5, <1>6, <1>7, <1>8, <1>9, KeysParts DEF KInv

LEMMA KeysKeep ==
  ASSUME ApiKeysAssumption, KInv, [KeysNext]_keysVars
  PROVE  KInv'
  <1>1. ASSUME NEW m \in Managers, IssueStart(m) \/ RevokeStart(m) \/ ManagerStep(m) PROVE KInv'
    BY <1>1, IssueBegins, RevocationBegins, IssueInsertKeeps, RevokeUpdateKeeps DEF ManagerStep
  <1>2. ASSUME NEW c \in Clients, ResolveBearer(c) \/ ClientStep(c) PROVE KInv'
    BY <1>2, ResolveKeeps, RecheckKeeps, RecheckKeyKeeps, RecheckUserKeeps, ApplyKeeps, CommitKeeps
       DEF ClientStep
  <1>3. QED
    BY <1>1, <1>2, VictimKeeps, ListPageKeeps, AroundKeysKeeps DEF KeysNext

LEMMA KeysFollow ==
  ASSUME ApiKeysAssumption, KInv
  PROVE  KeysHold
  <1>1. KeysTyped /\ UsesFit /\ WalkFits /\ QuotaHolds /\ KeysTypeOK
    BY KeysParts DEF KInv
  <1>2. ASSUME NEW c \in Clients, client[c].stage = "commit"
        PROVE  /\ ownerActive /\ row[client[c].key].status = "active"
               /\ client[c].applied < row[client[c].key].expires
    <2>1. UseFits(c, client[c]) /\ client[c] \in KeyUse
      BY <1>1 DEF UsesFit, KeysTyped
    <2>2. client[c].key \in Existing /\ client[c].stage \in Owning
      BY <1>2, <2>1 DEF UseFits, Owning
    <2>3. row[client[c].key] \in KeyRow
      BY <1>1, <2>2 DEF KeysTyped, Existing
    <2>4. row[client[c].key].expires \in Nat /\ client[c].at \in 0 .. MaxTime /\ client[c].applied \in 0 .. MaxTime
      BY <2>1, <2>3 DEF KeyRow, KeyUse
    <2>5. client[c].applied <= client[c].at /\ client[c].at < row[client[c].key].expires
      BY <1>2, <2>1 DEF UseFits
    <2>6. ownerActive /\ row[client[c].key].status = "active"
      BY <2>1, <2>2 DEF UseFits
    <2>7. client[c].applied < row[client[c].key].expires
      BY <2>4, <2>5 DEF ApiKeysAssumption
    <2>8. QED
      BY <2>6, <2>7
  <1>3. CommitsWhileActive /\ NoWorkAfterExpiry
    BY <1>2 DEF CommitsWhileActive, NoWorkAfterExpiry
  <1>4. WalkIsComplete
    BY <1>1 DEF WalkFits, WalkIsComplete
  <1>5. QED
    BY <1>1, <1>3, <1>4 DEF KeysHold

\* The keys of an account stay within its quota, work is committed only under a
\* key and an owner in force, and a walk misses no key: for any number of keys,
\* managers and requests.
THEOREM KeysAlwaysHold ==
  ASSUME ApiKeysAssumption
  PROVE  KeysSpec => []KeysHold
  <1>1. KeysInit => KInv
    BY KeysBegin
  <1>2. KInv /\ [KeysNext]_keysVars => KInv'
    BY KeysKeep
  <1>3. KInv => KeysHold
    BY KeysFollow
  <1>4. QED
    BY <1>1, <1>2, <1>3, PTL DEF KeysSpec
=============================================================================
