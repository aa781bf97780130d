------------------------------ MODULE MCDelivery ------------------------------
(***************************************************************************)
(* The ways by which a change of a board reaches its readers.  Of the      *)
(* components below none reads what another one writes, so a behaviour     *)
(* runs one of them (`part`) and leaves the others where they start: the   *)
(* states to check are their sum, not their product.                       *)
(***************************************************************************)
EXTENDS BoardStream, HitlWait, EventFanout, StreamHealth, Presence, TLC

VARIABLE part

\* A user with two tabs, one of which reconnects.
TwoTabs == <<"u1", "u1">>
Reconnects == "s1" :> 1 @@ "s2" :> 1 @@ "s3" :> 2

ASSUME DeliveryAssumption ==
  StreamAssumption /\ WaitAssumption /\ FanoutAssumption /\ HealthAssumption /\ PresenceAssumption

deliveryVars == <<part, vars, waitVars, fanoutVars, healthVars, presenceVars>>

DeliveryInit ==
  /\ part \in {"stream", "waits", "fanout", "health", "presence"}
  /\ Init /\ WaitInit /\ FanoutInit /\ HealthInit /\ PresenceInit

DeliveryNext ==
  \/ /\ part = "stream" /\ Next
     /\ UNCHANGED <<part, waitVars, fanoutVars, healthVars, presenceVars>>
  \/ /\ part = "waits" /\ WaitNext
     /\ UNCHANGED <<part, vars, fanoutVars, healthVars, presenceVars>>
  \/ /\ part = "fanout" /\ FanoutNext
     /\ UNCHANGED <<part, vars, waitVars, healthVars, presenceVars>>
  \/ /\ part = "health" /\ HealthNext
     /\ UNCHANGED <<part, vars, waitVars, fanoutVars, presenceVars>>
  \/ /\ part = "presence" /\ PresenceNext
     /\ UNCHANGED <<part, vars, waitVars, fanoutVars, healthVars>>

DeliverySpec == DeliveryInit /\ [][DeliveryNext]_deliveryVars
=============================================================================
