--------------------------- MODULE MCBoardLedger ---------------------------
(* Two small boards for BoardLedger, side by side: `part` is chosen once   *)
(* and says which requests the callers of this board send.  A behaviour of *)
(* either part is a behaviour of Spec.                                     *)
EXTENDS BoardLedger, TLC

CONSTANTS g, p, a1

VARIABLE part
mcVars == <<vars, part>>

MCArgs == {p, a1} \cup RevisionIds
Request(ops, args, selectors) ==
  [scope : Scopes, auth : {g}, op : ops, expected : RevisionIds, arg : args,
   selector : selectors]

\* Every scene operation under every selector, on every head.
SceneRequests ==
  Request({"scene.replace", "scene.clear"}, {p}, {1, 3})
    \cup Request({"document.replace"}, {p}, {2, 3})
    \cup Request({"scene.restore"}, RevisionIds, {1, 3})

\* Revisions, artifacts and archiving together.
MixedRequests ==
  Request({"scene.clear"}, {p}, {1})
    \cup Request({"artifact.publish", "artifact.stop"}, {a1}, {1})
    \cup [scope : Scopes, auth : {g}, op : {"board.archive"}, expected : {None},
          arg : {p}, selector : {1}]

MCRequests == SceneRequests \cup MixedRequests

\* Only the callers of the second part remember the answers they got.
MCInit == Init /\ part \in {"scene", "mixed"}

MCNext ==
  /\ UNCHANGED part
  /\ \/ /\ part = "scene"
        /\ \E q \in SceneRequests : Sendable(q) /\ Handle(q)
        /\ UNCHANGED replies
     \/ /\ part = "mixed"
        /\ \E q \in MixedRequests : Sendable(q) /\ Handle(q)
     \/ AppendInvalidation

MCSpec == MCInit /\ [][MCNext]_mcVars

Interchangeable == Permutations(RevisionIds) \cup Permutations(Scopes)
=============================================================================
