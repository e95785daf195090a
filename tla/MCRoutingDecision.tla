------------------------- MODULE MCRoutingDecision -------------------------
EXTENDS RoutingDecision

CONSTANTS r1, r2    \* route keys

(* The balanced and exploratory presets with the default margin and scores,*)
(* and a policy whose min_candidate_score is its threshold.                *)
MCPolicies ==
    {[threshold |-> t, margin |-> 16, min |-> 110, fallback |-> 90] :
        t \in {160, 120}}
      \cup {[threshold |-> 140, margin |-> 10, min |-> 140, fallback |-> 100]}

(* 0.5, 0.56, 0.8 and 1.0                                                  *)
MCSimilarities == {100, 112, 160, 200}

(* An unrestricted key and one restricted to an intent and a route.        *)
MCScopes == {[intents |-> {}, routes |-> {}],
             [intents |-> {1}, routes |-> {r1}]}
=============================================================================
