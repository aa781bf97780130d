------------------------------ MODULE MCPairing ------------------------------
(***************************************************************************)
(* The pairing of agents: on the board server, where transactions decide    *)
(* about pairings, grants and sessions, and in the processes of the agent.  *)
(* A behaviour runs one of them (`part`), and Bounds says what it is spared. *)
(***************************************************************************)
EXTENDS PairingGrants, PairingOwner, TLC

CONSTANTS x1, x2, p1, p2, y1, y2, z    \* model values

VARIABLE part

ASSUME PairingAssumption == PairingGrantsAssumption /\ PairingOwnerAssumption

pairingVars == <<part, vars, ownerVars>>

\* Two processes of a profile; one of them may have two calls at a time.
ProcessesOfCalls == y1 :> p1 @@ y2 :> p2 @@ z :> p1

\* Transactions and codes are only compared.
Symmetry == Permutations({x1, x2})

\* One pairing through its whole life; approved while its session ends; approved
\* while the password changes; and two under a quota of one.
UsesOf ==
  [life |-> Kinds \ {"poll", "password", "login"},
   approved |-> {"create", "claim", "approve", "redeem", "end"},
   changed |-> {"create", "claim", "approve", "password", "login"},
   quota |-> {"create", "claim", "poll", "cancel"}]

\* The agent's processes take turns, or the calls of one overlap, or they close.
Manners == {"turns", "overlap", "closing"}

PairingInit ==
  /\ part \in DOMAIN UsesOf \cup Manners
  /\ Init /\ (part \in {"life", "quota"} => family[2].status = "none")
  /\ OwnerInit /\ (part \in Manners => \A f \in Families : family[f].status = "none")

Bounds ==
  /\ \A x \in Requests : tx'[x] # Idle =>
       tx'[x].kind \in UsesOf[part] /\ (tx'[x].p = 2 => part = "quota")
  /\ part \in {"changed", "quota"} => \A f \in Families : family'[f].status # "lapsed"
  /\ part \in {"approved", "changed"} => \A p \in Pairings : ~due'[p]
  /\ part # "life" => \A p \in Pairings : pairing'[p].failures = 0

OwnerBounds ==
  /\ part # "overlap" => call'[z].pc = "idle"
  /\ part = "overlap" => \A c \in Calls : call'[c].uses <= 1
  /\ part # "closing" => \A c \in Calls : ProcessOf[c] \in ended' => call'[c].pc = "idle"

PairingNext ==
  \/ part \in DOMAIN UsesOf /\ Next /\ Bounds /\ UNCHANGED <<part, ownerVars>>
  \/ part \in Manners /\ OwnerNext /\ OwnerBounds /\ UNCHANGED <<part, vars>>

PairingSpec == PairingInit /\ [][PairingNext]_pairingVars
=============================================================================
