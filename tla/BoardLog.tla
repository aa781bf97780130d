------------------------------ MODULE BoardLog ------------------------------
(***************************************************************************)
(* What a board promises to its callers and to the streams that replay its *)
(* events, without rows, locks or numbers: a log that only grows, a head   *)
(* revision that is replaced only by a writer that saw it, keys that take  *)
(* effect at most once, and a board that takes no request once it is       *)
(* closed.  Notices (invalidations, expiries) are entries without a key.   *)
(***************************************************************************)
EXTENDS Sequences

CONSTANTS Revisions, Keys, None

VARIABLES
  head,      \* the latest revision
  closed,    \* the board is archived
  taken,     \* by key: the revision it was based on and the one it made
  log        \* entries: the revision an entry announces, or None

vars == <<head, closed, taken, log>>

Announced == {log[n] : n \in DOMAIN log} \ {None}
Take(k, base, made) == taken' = [taken EXCEPT ![k] = [base |-> base, made |-> made]]

Init ==
  /\ head \in Revisions
  /\ closed = FALSE
  /\ taken = [k \in Keys |-> None]
  /\ log = <<head>>

\* A new revision replaces the head its writer was based on.
Write(k, r) ==
  /\ ~closed
  /\ taken[k] = None
  /\ r \notin Announced
  /\ Take(k, head, r)
  /\ head' = r
  /\ log' = Append(log, r)
  /\ UNCHANGED closed

\* A control operation, which may have nothing to announce.
Control(k) ==
  /\ ~closed
  /\ taken[k] = None
  /\ Take(k, head, None)
  /\ log' \in {log, Append(log, None)}
  /\ UNCHANGED <<head, closed>>

Notice ==
  /\ log' = Append(log, None)
  /\ UNCHANGED <<head, closed, taken>>

Close(k) ==
  /\ ~closed
  /\ taken[k] = None
  /\ Take(k, None, None)
  /\ closed' = TRUE
  /\ UNCHANGED <<head, log>>

Next ==
  \/ \E k \in Keys, r \in Revisions : Write(k, r)
  \/ \E k \in Keys : Control(k) \/ Close(k)
  \/ Notice

Spec == Init /\ [][Next]_vars
=============================================================================
