----------------------------- MODULE AtLeastOnce -----------------------------
(***************************************************************************)
(* What the dispatch of the outbox promises: an event that was committed   *)
(* is hinted to the subscribers of its board at least once before it is    *)
(* counted as delivered, and in the end every sound event is delivered.    *)
(***************************************************************************)
CONSTANTS Events, Sound    \* Sound: the events whose stored bytes are intact

VARIABLES pending, hinted, delivered

stages == <<pending, hinted, delivered>>

Init == pending = {} /\ hinted = {} /\ delivered = {}

Commit(e) ==
  /\ e \notin pending \cup delivered
  /\ pending' = pending \cup {e}
  /\ UNCHANGED <<hinted, delivered>>

\* Hinting again changes nothing a subscriber can rely on.
Hint(e) ==
  /\ e \in Sound \cap (pending \cup delivered)
  /\ hinted' = hinted \cup {e}
  /\ UNCHANGED <<pending, delivered>>

Deliver(e) ==
  /\ e \in pending \cap hinted
  /\ pending' = pending \ {e}
  /\ delivered' = delivered \cup {e}
  /\ UNCHANGED hinted

Next == \E e \in Events : Commit(e) \/ Hint(e) \/ Deliver(e)

Spec == Init /\ [][Next]_stages
FairSpec == Spec /\ \A e \in Sound : WF_stages(Hint(e)) /\ WF_stages(Deliver(e))
=============================================================================
