------------------------------ MODULE MCAccounts ------------------------------
(***************************************************************************)
(* Who may do what: the keys of an account, the session of a browser, and    *)
(* the members and invitations of a board.  They share no state; a           *)
(* behaviour runs one of them (`part`).                                      *)
(***************************************************************************)
EXTENDS SessionRenewal, BoardMembers, ApiKeys, TLC

CONSTANTS x1, x2, m1, m2, k1, k2, k3    \* model values

VARIABLE part

accountsVars == <<part, keysVars, membersVars, vars>>

ASSUME AccountsAssumption == SessionAssumption /\ MembersAssumption /\ ApiKeysAssumption

\* Tabs and requests are only compared.
Symmetry == Permutations({x1, x2})

AccountsInit ==
  /\ part \in {"keys", "use", "session", "edits", "tokens"}
  /\ KeysInit /\ MembersInit /\ Init

\* Two sessions where something was lost, and one more while nothing is.
Bounds == lost' => Len(sessions') <= 2

\* One member edits while the owner changes its access; two invitations of it.
UsesOf ==
  [edits |-> {"issue", "update", "remove", "archive", "accept", "edit", "send"},
   tokens |-> {"issue", "resend", "revoke", "remove", "accept", "send"}]

MembersBounds ==
  /\ \A x \in Requests : tx'[x] # Idle => tx'[x].kind \in UsesOf[part]
  /\ part = "edits" => invite'[2].state = "none"
  /\ part = "tokens" => \A a \in Accounts : member'[a].version <= 2

\* Two management requests over three keys with a quota of two, and two
\* requests that use the same key while it is revoked or expires.  Keys are
\* only compared: the first issued is k1, and so on.
KeysBounds ==
  /\ (k2 \in Existing' => k1 \in Existing') /\ (k3 \in Existing' => k2 \in Existing')
  /\ part = "keys" => now' <= 2 /\ \A c \in Clients : client'[c] = IdleClient
  /\ part = "use" => Existing' \subseteq {k1} /\ manager'[m2] = IdleManager

AccountsNext ==
  \/ part \in {"keys", "use"} /\ KeysNext /\ KeysBounds /\ UNCHANGED <<part, vars, membersVars>>
  \/ part = "session" /\ Next /\ Bounds /\ UNCHANGED <<part, keysVars, membersVars>>
  \/ part \in DOMAIN UsesOf /\ MembersNext /\ MembersBounds /\ UNCHANGED <<part, keysVars, vars>>

AccountsSpec == AccountsInit /\ [][AccountsNext]_accountsVars
=============================================================================
