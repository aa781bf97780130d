------------------------ MODULE MCHitlInteractions ------------------------
(* One board with a few questions: asked by grants or by a user, answered  *)
(* under keys of their own.                                                *)
EXTENDS HitlInteractions, TLC

CONSTANTS u, m, p

MCArgs == {p} \cup Interactions
Ask(scopes, auths) ==
  [scope : scopes, auth : auths, op : HitlOperations, expected : RevisionIds,
   arg : Interactions, selector : {1}]
Other(scopes, op, expected) ==
  [scope : scopes, auth : {u}, op : {op}, expected : expected, arg : {p}, selector : {1}]

\* Questions, answers, a new revision and archiving.
MCRequests ==
  Ask(Scopes, {m}) \cup Other(Scopes, "scene.clear", RevisionIds)
    \cup Other(Scopes, "board.archive", {None})

\* Questions and archiving only, for the liveness run.
MCQuestions ==
  {q \in Ask(Scopes, {u}) : q.op = "hitl.request"} \cup Other(Scopes, "board.archive", {None})

Interchangeable == Permutations(RevisionIds) \cup Permutations(Scopes)
                     \cup Permutations(Interactions)
=============================================================================
