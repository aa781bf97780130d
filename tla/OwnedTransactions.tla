-------------------------- MODULE OwnedTransactions --------------------------
(* Transactions on pooled connections, with a deadline or an abort signal     *)
(* that may end the wait for them (sceneboard-be/src/database/transaction.ts, *)
(* mysql.service.ts).  A wait that is given up does not stop the operation:   *)
(* its statements, and the ROLLBACK that is sent after them, are on their way *)
(* over the connection, in order.                                             *)
EXTENDS Naturals, Sequences, FiniteSets

CONSTANTS
    Requests,      \* calls of withConnection with one transaction each
    Owned,         \* those with an ownership (signal and deadline)
    Slots,         \* connectionLimit of the pool
    NoSlot,        \* no slot
    Works          \* the statements an operation sends one after the other

OwnedAssumption == Owned \subseteq Requests /\ NoSlot \notin Slots /\ Works \in Nat \ {0}

VARIABLES
    req,           \* of every request: pc, its slot, whether its operation runs
                   \* on, whether the deadline of its transaction fired before
                   \* that of its connection, and what the caller was told
    slot,          \* of every slot: state in the pool, statements sent and not
                   \* answered, whether a transaction is open, its writes
    durable        \* the writes that are committed: <<request, work>>

poolVars == <<req, slot, durable>>

\* A statement: the request that sent it, its kind, and the number of a work.
Sent(r, k, n) == [by |-> r, kind |-> k, work |-> n]
Fresh == [state |-> "closed", queue |-> <<>>, open |-> FALSE, writes |-> {}]
StatementKinds == {"configure", "begin", "work", "commit", "rollback"}
Answers == {"none", "ok", "failed", "aborted", "unknown"}
AllWorks(r) == {<<r, n>> : n \in 1..Works}

PoolTypeOK ==
    /\ req \in [Requests -> [pc : {"new", "asking", "late"} \cup StatementKinds \cup {"undone", "ended"},
                             at : Slots \cup {NoSlot}, runs : BOOLEAN, early : BOOLEAN, told : Answers]]
    /\ DOMAIN slot = Slots
    /\ \A c \in Slots :
         /\ slot[c].state \in {"closed", "idle", "used"}
         /\ slot[c].state # "used" => ~slot[c].open \/ slot[c].queue # <<>>
         /\ slot[c].state = "closed" => slot[c].queue = <<>>
    /\ durable \subseteq UNION {AllWorks(r) : r \in Requests}

PoolInit ==
    /\ req = [r \in Requests |-> [pc |-> "new", at |-> NoSlot, runs |-> FALSE, early |-> FALSE,
                                 told |-> "none"]]
    /\ slot = [c \in Slots |-> Fresh]
    /\ durable = {}

-----------------------------------------------------------------------------
\* What the database does with a statement: START TRANSACTION commits a
\* transaction that is open, a write without one commits by itself.
Executed(c, s) ==
    CASE s.kind = "begin" -> [slot[c] EXCEPT !.open = TRUE, !.writes = {}]
      [] s.kind = "work" /\ slot[c].open ->
            [slot[c] EXCEPT !.writes = @ \cup {<<s.by, s.work>>}]
      [] s.kind \in {"commit", "rollback"} -> [slot[c] EXCEPT !.open = FALSE, !.writes = {}]
      [] OTHER -> slot[c]
Commits(c, s) ==
    CASE s.kind \in {"begin", "commit"} -> slot[c].writes
      [] s.kind = "work" /\ ~slot[c].open -> {<<s.by, s.work>>}
      [] OTHER -> {}

\* The session ends with the connection: what is open is rolled back, but the
\* statement the database had begun may still be carried out.
SessionEnds(c) ==
    \E done \in BOOLEAN :
        durable' = IF done /\ slot[c].queue # <<>>
                   THEN durable \cup Commits(c, Head(slot[c].queue)) ELSE durable

\* Mutant: a connection whose request was aborted goes back to the pool.
Abandon_Released(r) ==
    /\ slot' = [slot EXCEPT ![req[r].at].state = "idle",
                            ![req[r].at].queue = Append(@, Sent(r, "rollback", 0))]
    /\ UNCHANGED durable
\* The connection of an aborted request is destroyed, whatever is on its way.
Abandon(r) == slot' = [slot EXCEPT ![req[r].at] = Fresh] /\ SessionEnds(req[r].at)

Ask(r) ==
    /\ req[r].pc = "new"
    /\ req' = [req EXCEPT ![r].pc = "asking"]
    /\ UNCHANGED <<slot, durable>>

\* Mutant: a connection that arrives late is left alone.
Late_Kept(r, c) == slot' = [slot EXCEPT ![c].state = "used"]
\* A connection that arrives when nobody waits for it is destroyed.
Late(r, c) == slot' = [slot EXCEPT ![c] = Fresh]

\* The pool gives a connection that is idle, or opens one.
Connect(r, c) ==
    /\ req[r].pc \in {"asking", "late"}
    /\ slot[c].state # "used"
    /\ IF req[r].pc = "late"
       THEN /\ Late(r, c)
            /\ req' = [req EXCEPT ![r].pc = "ended"]
            /\ IF slot[c].queue # <<>> THEN SessionEnds(c) ELSE UNCHANGED durable
       ELSE /\ slot' = [slot EXCEPT ![c].state = "used",
                                    ![c].queue = Append(@, Sent(r, "configure", 0))]
            /\ req' = [req EXCEPT ![r].pc = "configure", ![r].at = c]
            /\ UNCHANGED durable

\* What follows the answer to a statement: the next one the request sends, or
\* the end of the operation, which may throw after any answer.
AfterAnswer(s) ==
    CASE s.kind = "configure" -> {Sent(s.by, "begin", 0)}
      [] s.kind = "begin" -> {Sent(s.by, "work", 1)}
      [] s.kind = "work" ->
            {Sent(s.by, "rollback", 0),
             IF s.work < Works THEN Sent(s.by, "work", s.work + 1) ELSE Sent(s.by, "commit", 0)}

\* The connection goes back to the pool.
Released(r, told) == [req[r] EXCEPT !.pc = "ended", !.at = NoSlot, !.runs = FALSE, !.told = told]

\* What an operation sends whose caller has gone.
OnItsOwn(s) == IF s.kind = "work" /\ s.work < Works /\ req[s.by].runs
               THEN <<Sent(s.by, "work", s.work + 1)>> ELSE <<>>

\* s is the ROLLBACK of a transaction that was given up before its connection.
Undone(c, s) == s.kind = "rollback" /\ req[s.by].at = c /\ req[s.by].pc = "undone"

\* The database answers the statement it received first.  A request that waits
\* for it goes on; an operation whose caller has gone sends its next work all
\* the same, if the connection still takes it.
Answer(c) ==
    /\ slot[c].queue # <<>>
    /\ ~Undone(c, Head(slot[c].queue))
    /\ LET s == Head(slot[c].queue)
           r == s.by
           waits == req[r].at = c /\ req[r].pc = s.kind
           rest == [Executed(c, s) EXCEPT !.queue = Tail(@)]
       IN /\ durable' = durable \cup Commits(c, s)
          /\ \/ /\ waits
                /\ s.kind \in {"configure", "begin", "work"}
                /\ \E n \in AfterAnswer(s) :
                     /\ slot' = [slot EXCEPT ![c] = [rest EXCEPT !.queue = Append(@, n)]]
                     /\ req' = [req EXCEPT ![r].pc = n.kind, ![r].runs = n.kind = "work"]
             \/ /\ waits
                /\ s.kind \in {"commit", "rollback"}
                /\ slot' = [slot EXCEPT ![c] = [rest EXCEPT !.state = "idle"]]
                /\ req' = [req EXCEPT ![r] = Released(r, IF s.kind = "commit" THEN "ok" ELSE "failed")]
             \/ /\ ~waits
                /\ slot' = [slot EXCEPT ![c] = [rest EXCEPT !.queue = @ \o OnItsOwn(s)]]
                /\ UNCHANGED req

\* The rollback takes longer than its grace: the connection is released while
\* the ROLLBACK is on its way.
GraceOver(r) ==
    /\ req[r].pc = "rollback"
    /\ slot' = [slot EXCEPT ![req[r].at].state = "idle"]
    /\ req' = [req EXCEPT ![r] = Released(r, "failed")]
    /\ UNCHANGED durable

\* The signal fires, which all waits of a request hear at once, or the deadline
\* of its connection passes before that of its transaction, or the grace of its
\* ROLLBACK: the connection is destroyed in this turn.
Abort(r) ==
    /\ r \in Owned
    /\ req[r].pc \notin {"new", "late", "ended"}
    /\ IF req[r].pc = "asking"
       THEN /\ req' = [req EXCEPT ![r].pc = "late", ![r].told = "aborted"]
            /\ UNCHANGED <<slot, durable>>
       ELSE /\ Abandon(r)
            /\ req' = [req EXCEPT ![r].pc = "ended", ![r].at = NoSlot, ![r].told = "aborted"]

\* The deadline of the transaction, a timer of its own, passes a turn before
\* that of the connection: the ROLLBACK is sent and its answer is waited for,
\* while the operation, if it has not returned, goes on.
DeadlineInside(r) ==
    /\ r \in Owned
    /\ req[r].pc \in {"work", "commit"}
    /\ slot' = [slot EXCEPT ![req[r].at].queue = Append(@, Sent(r, "rollback", 0))]
    /\ req' = [req EXCEPT ![r].pc = "undone", ![r].early = TRUE]
    /\ UNCHANGED durable

\* That ROLLBACK is answered and the connection destroyed; what the operation
\* has sent behind it the database may have begun, outside any transaction.
Undo(r) ==
    LET c == req[r].at
    IN /\ req[r].pc = "undone"
       /\ Undone(c, Head(slot[c].queue))
       /\ \E done \in BOOLEAN :
            durable' = IF done /\ Tail(slot[c].queue) # <<>>
                       THEN durable \cup {<<r, Head(Tail(slot[c].queue)).work>>} ELSE durable
       /\ slot' = [slot EXCEPT ![c] = Fresh]
       /\ req' = [req EXCEPT ![r] = Released(r, "aborted")]

\* What a request is told when its connection is lost.
LostAs(pc) ==
    CASE pc = "commit" -> "unknown" [] pc = "undone" -> "aborted" [] OTHER -> "failed"

\* The connection is lost: the request fails, and so does its rollback.
Lose(c) ==
    /\ slot[c].state # "closed"
    /\ SessionEnds(c)
    /\ slot' = [slot EXCEPT ![c] = Fresh]
    /\ req' = [r \in Requests |->
                 IF req[r].at = c
                 THEN Released(r, LostAs(req[r].pc))
                 ELSE req[r]]

PoolNext ==
    \/ \E r \in Requests : Ask(r) \/ GraceOver(r) \/ Abort(r) \/ DeadlineInside(r) \/ Undo(r)
    \/ \E r \in Requests, c \in Slots : Connect(r, c)
    \/ \E c \in Slots : Answer(c) \/ Lose(c)

PoolSpec == PoolInit /\ [][PoolNext]_poolVars

-----------------------------------------------------------------------------
\* A transaction is all or nothing, also when its wait was given up, its
\* connection broke or went back to the pool with statements on their way: no
\* work of it is committed by the transaction of another request.  Only where
\* its own deadline came before its connection's, one write may be committed
\* alone: the one that followed the ROLLBACK.
AllOrNothing ==
    \A r \in Requests :
        \/ \A n \in 1..Works : <<r, n>> \in durable
        \/ \A n \in 1..Works : <<r, n>> \notin durable
        \/ /\ req[r].early /\ req[r].told = "aborted"
           /\ \E w \in 2..Works : \A n \in 1..Works : <<r, n>> \in durable <=> n = w

\* What a caller was told holds: work that was reported is durable, work that
\* was reported as failed is not and never becomes so.
AnswersHold ==
    \A r \in Requests :
        /\ req[r].told = "ok" => \A n \in 1..Works : <<r, n>> \in durable
        /\ req[r].told = "failed" => \A n \in 1..Works : <<r, n>> \notin durable

\* No statement of an abandoned request reaches a connection that another
\* request uses, and no transaction begins inside another.
NeverMixed ==
    \A c \in Slots :
         (slot[c].queue # <<>> /\ slot[c].state = "used" /\ slot'[c] # slot[c]) =>
             /\ slot[c].queue[1].kind = "begin" => ~slot[c].open
             /\ slot[c].queue[1].kind = "work" => slot[c].open

\* A transaction is all or nothing and its answer holds, with the connection given
\* up, lost or passed on at any moment (MysqlService and its transactions).
TransactionsAreWhole ==
    /\ [](PoolTypeOK /\ AllOrNothing /\ AnswersHold)
    /\ [][NeverMixed]_poolVars

\* Who asks is answered: slots come back from requests that were aborted, late
\* or failed (liveness).
EveryoneAnswered == \A r \in Requests : req[r].pc = "asking" ~> req[r].told # "none"
=============================================================================
