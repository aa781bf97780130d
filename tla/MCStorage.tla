------------------------------ MODULE MCStorage ------------------------------
(***************************************************************************)
(* What keeps rows: uploaded images, the retention of revisions, and under *)
(* them the migrations of the schema and the transactions on pooled         *)
(* connections.  A behaviour runs one of them (`part`), the images in one of *)
(* two ways.                                                               *)
(***************************************************************************)
EXTENDS MediaIngestion, Migrations, RevisionRetention, OwnedTransactions, TLC

CONSTANTS x1, x2    \* model values

VARIABLE part

InFlight(u) == upload[u] \in Request

\* An image whose object is stored twice, for two boards, beside two cleanup items;
\* and two images of a board under two keys, two uploads at a time, beside one.
Slice ==
  \/ /\ part = "cleanup"
     /\ \A u \in Uploads : InFlight(u) => upload[u].image = "i1" /\ upload[u].key = "k1"
     /\ upload["u2"] = [answer |-> "none"]
  \/ /\ part = "retries"
     /\ \A u \in Uploads : InFlight(u) => upload[u].board = "b1"
     /\ Cardinality({n \in CleanupItems : cleanup[n] # NoItem}) <= 1
     /\ \A i \in Images : object[i].life <= 1
     /\ \A bi \in Boards \X Images : HasRow(bi[1], bi[2]) => ownership[bi].version <= 3

\* Migrations as of 014 (repeatable), 029 (recognised), 017 (columns, then a table);
\* two processes of the newest build and one of the build before it.
Kinds == <<<<"again", "again">>, <<"known">>, <<"once", "again", "once">>>>
Build == x1 :> 3 @@ x2 :> 3 @@ "old" :> 2

ASSUME StorageAssumption ==
  /\ MediaAssumption /\ RetentionAssumption /\ MigrationsAssumption /\ OwnedAssumption

storageVars == <<part, mediaVars, vars, retentionVars, poolVars>>

\* Items, uploads, workers, processes of a build and connections are only compared.
Symmetry == Permutations({x1, x2})

StorageInit ==
  /\ part \in {"cleanup", "retries", "retention", "migrations", "transactions"}
  /\ MediaInit
  /\ RetentionInit
  /\ Init /\ (part # "migrations" => ~foreign)
  /\ PoolInit

StorageNext ==
  \/ /\ part \in {"cleanup", "retries"} /\ MediaNext
     /\ UNCHANGED <<part, vars, retentionVars, poolVars>> /\ Slice'
  \/ /\ part = "retention" /\ RetentionNext
     /\ UNCHANGED <<part, mediaVars, vars, poolVars>>
  \/ /\ part = "migrations" /\ Next
     /\ UNCHANGED <<part, mediaVars, retentionVars, poolVars>>
  \/ /\ part = "transactions" /\ PoolNext
     /\ UNCHANGED <<part, mediaVars, vars, retentionVars>>

StorageSpec == StorageInit /\ [][StorageNext]_storageVars
=============================================================================
