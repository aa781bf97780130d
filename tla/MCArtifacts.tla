------------------------------ MODULE MCArtifacts ------------------------------
(***************************************************************************)
(* The artifacts of a board: shown in a page beside its board (the bridge, *)
(* its navigation, its clipboard, the packages of a shared board), and      *)
(* exported (admission, renderer, render session).  A behaviour runs one of *)
(* them (`part`).                                                          *)
(***************************************************************************)
EXTENDS ExportAdmission, ExportRenderer, ExportRenderSession, ArtifactBridge, ArtifactNavigation,
        ClipboardCapability, PublicArtifactSlots, TLC

CONSTANTS x1, x2    \* model values

VARIABLE part

\* Two exports of a board in a process.
MCProcessOf == [j \in Jobs |-> "p1"]
MCBoardOf == [j \in Jobs |-> "b1"]

\* Two requests for the projection, two for resources.
MCKindOf == x1 :> "projection" @@ x2 :> "projection" @@ "q3" :> "resource" @@ "q4" :> "resource"

ASSUME ArtifactsAssumption ==
  /\ AdmissionAssumption /\ RendererAssumption /\ RequestsAssumption /\ BridgeAssumption
  /\ NavigationAssumption /\ ClipboardAssumption /\ SlotsAssumption

artifactsVars ==
  <<part, admissionVars, rendererVars, sessionVars, bridgeVars, navigationVars, clipboardVars,
    slotsVars>>

\* Jobs, renders, requests of one kind, pointers and handles are only compared.
Symmetry == Permutations({x1, x2})

ArtifactsInit ==
  /\ part \in {"exports", "renderer", "session", "bridge", "navigation", "clipboard", "packages"}
  /\ AdmissionInit /\ RendererInit /\ SessionInit /\ BridgeInit /\ NavigationInit
  /\ ClipboardInit /\ (part # "clipboard" => ~access.allowed)
  /\ SlotsInit

ArtifactsNext ==
  \/ /\ part = "exports" /\ AdmissionNext
     /\ UNCHANGED <<part, rendererVars, sessionVars, bridgeVars, navigationVars,
                    clipboardVars, slotsVars>>
  \/ /\ part = "renderer" /\ RendererNext
     /\ UNCHANGED <<part, admissionVars, sessionVars, bridgeVars, navigationVars,
                    clipboardVars, slotsVars>>
  \/ /\ part = "session" /\ SessionNext
     /\ UNCHANGED <<part, admissionVars, rendererVars, bridgeVars, navigationVars,
                    clipboardVars, slotsVars>>
  \/ /\ part = "bridge" /\ BridgeNext
     /\ UNCHANGED <<part, admissionVars, rendererVars, sessionVars, navigationVars,
                    clipboardVars, slotsVars>>
  \/ /\ part = "navigation" /\ NavigationNext
     /\ UNCHANGED <<part, admissionVars, rendererVars, sessionVars, bridgeVars,
                    clipboardVars, slotsVars>>
  \/ /\ part = "clipboard" /\ ClipboardNext
     /\ UNCHANGED <<part, admissionVars, rendererVars, sessionVars, bridgeVars,
                    navigationVars, slotsVars>>
  \/ /\ part = "packages" /\ SlotsNext
     /\ UNCHANGED <<part, admissionVars, rendererVars, sessionVars, bridgeVars,
                    navigationVars, clipboardVars>>

ArtifactsSpec == ArtifactsInit /\ [][ArtifactsNext]_artifactsVars
=============================================================================
