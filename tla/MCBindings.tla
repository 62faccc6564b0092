----------------------------- MODULE MCBindings -----------------------------
(***************************************************************************)
(* Bindings for TLC, with what the docstring of bind_sub_agents says and   *)
(* the code does not keep.                                                 *)
(***************************************************************************)
EXTENDS Bindings

\* "Replace all sub-agent bindings for an orchestrator.": when all requests so far
\* are replacements, what is bound after one of them was granted is what one of
\* them asked for.
ReplacementsReplace ==
  LET granted == {r \in Requests : pc[r] = "ok"}
  IN (\A r \in Requests : asked[r].kind \in {"none", "replace"}) /\ granted # {} =>
       \E r \in granted : bound = asked[r].items
=============================================================================
