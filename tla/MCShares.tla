------------------------------ MODULE MCShares ------------------------------
(***************************************************************************)
(* Published boards: the link and its transitions, the admission of its     *)
(* viewers, and the rate limits that stand before requests with keys and   *)
(* passwords.  They share no state; a behaviour runs one of them (`part`).   *)
(***************************************************************************)
EXTENDS ShareAdmission, SharePublication, RateLimits, TLC

VARIABLE part

\* Three requests to two servers.
Placement == "a" :> "s1" @@ "b" :> "s1" @@ "c" :> "s2"

ASSUME SharesAssumption == ShareAssumption /\ AdmissionAssumption /\ RateLimitsAssumption

sharesVars == <<part, vars, linkVars, limitsVars>>

\* Requests and keys are only compared, and so are viewers (which are named as keys).
Symmetry == Permutations(Requests) \cup Permutations(Keys)

\* A viewer who has done nothing yet.
Fresh(v) == try[v] = NoTry /\ cookie[v] = 0 /\ context[v] = NoContext

SharesInit ==
  /\ part \in {"link", "grants", "locks", "guard", "failures"}
  /\ LinkInit /\ Init /\ LimitsInit

\* One viewer at a time while the owner changes everything, and two who fail;
\* three requests through a guard for two windows, and two with failed keys for one.
Bounds ==
  /\ part = "grants" =>
       tries' <= 2 /\ \E v \in Viewers : \A u \in Viewers \ {v} : Fresh(u)'
  /\ part = "locks" => now' <= 3 /\ UNCHANGED share
  /\ part = "guard" => \A r \in Callers : request'[r].kind \in {Unset, "guard"}
  /\ part = "failures" =>
       /\ clock' <= 4 /\ request'["b"] = Idle
       /\ \A r \in Callers : request'[r].kind # "guard"

SharesNext ==
  \/ part = "link" /\ LinkNext /\ UNCHANGED <<part, vars, limitsVars>>
  \/ part \in {"grants", "locks"} /\ Next /\ Bounds /\ UNCHANGED <<part, linkVars, limitsVars>>
  \/ part \in {"guard", "failures"} /\ LimitsNext /\ Bounds /\ UNCHANGED <<part, vars, linkVars>>

SharesSpec == SharesInit /\ [][SharesNext]_sharesVars
=============================================================================
