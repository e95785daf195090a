-------------------------- MODULE RoutingDecision --------------------------
(***************************************************************************)
(* One runtime query against one release: risk policy, semantic search     *)
(* over the release's catalog, scoring, the decision, off-topic policy.    *)
(*                                                                         *)
(* Scores are integers in units of 1/200, in which every literal of the    *)
(* code (0.08, 0.55, 0.02 ...) is a whole number; similarities are         *)
(* multiples of 0.01, so that the halved penalty is whole too.  The code   *)
(* compares floats; a score that differs from its decimal value in the     *)
(* last bit is, for the comparisons below, a score next to it.             *)
(***************************************************************************)
EXTENDS Integers, FiniteSets

CONSTANTS
    MaxCandidates,      \* bound: intents in the catalog snapshot
    MaxRows,            \* bound: examples in the catalog version
    Similarities,       \* cosine similarities of query and example
    KeywordCounts,      \* numbers of matched keywords of an intent
    RouteKeys,          \* route keys
    Policies,           \* policy versions
    Scopes,             \* scopes of API keys
    MinRows,            \* the search returns at least this many rows (8)
    RowsPerCandidate,   \* or this many for each candidate (4)
    MaxClarify,         \* MAX_CLARIFY_CANDIDATES (3)
    None

One == 200              \* a score of 1.0
Candidates == 1 .. MaxCandidates    \* by position in the snapshot

(* PolicyVersionCreateRequest accepts a policy when its scores are within  *)
(* 0..1 and fallback_score <= min_candidate_score <= threshold_value.      *)
ValidPolicy(p) ==
    /\ p \in [threshold : 0 .. One, margin : 0 .. One, min : 0 .. One,
              fallback : 0 .. One]
    /\ p.fallback <= p.min /\ p.min <= p.threshold

ASSUME RoutingAssumption ==
    /\ MaxCandidates \in Nat /\ MaxRows \in Nat
    /\ Similarities \subseteq {2 * k : k \in -100 .. 100}
    /\ KeywordCounts \subseteq Nat
    /\ \A p \in Policies : ValidPolicy(p)
    /\ Scopes \subseteq [intents : SUBSET Candidates, routes : SUBSET RouteKeys]
    /\ MinRows \in Nat /\ RowsPerCandidate \in Nat
    /\ MaxClarify \in Nat /\ MaxClarify >= 2
    /\ None \notin Candidates

VARIABLES
    pc,         \* where the request is
    policy,     \* the release's policy version
    routeKey,   \* route_key of each candidate of the snapshot
    catalog,    \* the examples of the catalog version and their similarity
    found,      \* the rows the search has returned
    include,    \* include keywords of each candidate that the query contains
    exclude,    \* exclude keywords
    conf,       \* confidence of each candidate
    scope,      \* allowed_intents and allowed_route_keys of the API key
    result      \* RoutingDecisionResult

inputs == <<policy, routeKey, catalog, include, exclude, scope>>
vars == <<pc, policy, routeKey, catalog, found, include, exclude, conf,
          scope, result>>

Row == [intent : Candidates, type : {"positive", "negative"},
        sim : Similarities]
Result == [decision : {"confident", "clarify", "fallback", "off_topic",
                       "risk", "unauthorized"},
           intent : Candidates \cup {None}, offered : SUBSET Candidates]

-----------------------------------------------------------------------------
(* Scoring.                                                                *)

AtMost(x, bound) == IF x < bound THEN x ELSE bound
AtLeast(x, bound) == IF x > bound THEN x ELSE bound
clamp(x) == AtLeast(AtMost(x, One), 0)

(* The scores of one intent's rows of one type.                            *)
Scores(rows, i, type) == {r.sim : r \in {q \in rows : /\ q.intent = i
                                                      /\ q.type = type}}

(* max(scores, default=0.0)                                                *)
MaxScore(scores) ==
    LET highest == {s \in scores : \A q \in scores : q <= s}
    IN IF highest = {} THEN 0 ELSE CHOOSE s \in highest : TRUE

(* Mutant: the keyword boost is added after the clamp.                     *)
boost_after_clamp(pos, neg, inc, exc) ==
    clamp(pos - AtMost(6 * exc, 24) - (AtLeast(neg - 110, 0) \div 2))
      + AtMost(4 * inc, 16)

(* pos and neg are the highest positive and negative score.                *)
compute_intent_confidence(pos, neg, inc, exc) ==
    clamp(pos + AtMost(4 * inc, 16) - AtMost(6 * exc, 24)
              - (AtLeast(neg - 110, 0) \div 2))

(* _score_candidate for every candidate, from the rows of the search.      *)
score_candidates(rows, inc, exc) ==
    [i \in DOMAIN routeKey |->
        compute_intent_confidence(MaxScore(Scores(rows, i, "positive")),
                                  MaxScore(Scores(rows, i, "negative")),
                                  inc[i], exc[i])]

-----------------------------------------------------------------------------
(* DecisionComposer.compose.  t is ranked[0], c the confidences.           *)

(* sorted(..., reverse=True) is stable: i is ranked before j.              *)
Before(c, i, j) == c[i] > c[j] \/ (c[i] = c[j] /\ i < j)
IsTop(c, t) == t \in DOMAIN c /\ \A i \in DOMAIN c \ {t} : Before(c, t, i)

(* Mutant: the comparison is turned round.                                 *)
MarginWithin(c, t, m) ==
    IF DOMAIN c = {t} THEN c[t] >= m
    ELSE \A i \in DOMAIN c \ {t} : c[t] - c[i] <= m

(* margin >= m: the distance to ranked[1], or the score when it is alone.  *)
MarginReaches(c, t, m) ==
    IF DOMAIN c = {t} THEN c[t] >= m
    ELSE \A i \in DOMAIN c \ {t} : c[t] - c[i] >= m

(* Mutant: an empty list allows nothing.                                   *)
is_listed(s, keys, t) ==
    t \in s.intents /\ (s.routes = {} \/ keys[t] \in s.routes)

(* _is_authorized: an empty list allows everything.                        *)
is_authorized(s, keys, t) ==
    /\ s.intents = {} \/ t \in s.intents
    /\ s.routes = {} \/ keys[t] \in s.routes

Viable(p, c) == {i \in DOMAIN c : c[i] >= p.min}

Weak(p, c, inc, t) ==
    c[t] < AtMost(p.threshold, p.min + p.margin) /\ inc[t] = 0

Close(p, c, t) ==
    /\ \E i, j \in Viable(p, c) : i # j
    /\ ~ MarginReaches(c, t, p.margin)

(* Mutant: the threshold itself is not enough.                             *)
compose_above_threshold(p, c, inc, s, keys, t) ==
    IF c[t] < p.fallback THEN "fallback"
    ELSE IF ~ is_authorized(s, keys, t) THEN "unauthorized"
    ELSE IF c[t] > p.threshold /\ MarginReaches(c, t, p.margin)
         THEN "confident"
    ELSE IF Weak(p, c, inc, t) THEN "fallback"
    ELSE IF Close(p, c, t) \/ (c[t] >= p.min /\ c[t] < p.threshold)
         THEN "clarify"
    ELSE "fallback"

(* Mutant: the scope is looked at when the query is not clear.             *)
compose_scope_last(p, c, inc, s, keys, t) ==
    IF c[t] < p.fallback THEN "fallback"
    ELSE IF c[t] >= p.threshold /\ MarginReaches(c, t, p.margin)
         THEN "confident"
    ELSE IF ~ is_authorized(s, keys, t) THEN "unauthorized"
    ELSE IF Weak(p, c, inc, t) THEN "fallback"
    ELSE IF Close(p, c, t) \/ (c[t] >= p.min /\ c[t] < p.threshold)
         THEN "clarify"
    ELSE "fallback"

(* The decision when there are candidates, in the order of the returns.    *)
compose(p, c, inc, s, keys, t) ==
    IF c[t] < p.fallback THEN "fallback"
    ELSE IF ~ is_authorized(s, keys, t) THEN "unauthorized"
    ELSE IF c[t] >= p.threshold /\ MarginReaches(c, t, p.margin)
         THEN "confident"
    ELSE IF Weak(p, c, inc, t) THEN "fallback"
    ELSE IF Close(p, c, t) \/ (c[t] >= p.min /\ c[t] < p.threshold)
         THEN "clarify"
    ELSE "fallback"
(* Mutant: the alternatives to the best candidate.                         *)
ClarifyAlternatives(p, c, t) ==
    {i \in Viable(p, c) \ {t} :
        Cardinality({j \in Viable(p, c) : Before(c, j, i)}) < MaxClarify}

(* _clarify: the first MAX_CLARIFY_CANDIDATES of the viable candidates.    *)
ClarifyCandidates(p, c, t) ==
    LET candidates == IF Viable(p, c) = {} THEN {t} ELSE Viable(p, c)
    IN {i \in candidates :
          Cardinality({j \in candidates : Before(c, j, i)}) < MaxClarify}

-----------------------------------------------------------------------------
(* The request.                                                            *)

TypeOK ==
    /\ pc \in {"risk", "search", "compose", "off_topic", "done", "error"}
    /\ policy \in Policies
    /\ \E n \in 0 .. MaxCandidates :
         /\ routeKey \in [1 .. n -> RouteKeys]
         /\ include \in [1 .. n -> Nat]
         /\ exclude \in [1 .. n -> Nat]
         /\ conf \in [1 .. n -> 0 .. One]
    /\ catalog \subseteq Row
    /\ found \subseteq catalog
    /\ scope \in Scopes
    /\ result \in Result \cup {None}

(* _load_active_release and the key's scope.                               *)
Init ==
    /\ pc = "risk"
    /\ policy \in Policies
    /\ scope \in Scopes
    /\ \E n \in 0 .. MaxCandidates :
         /\ routeKey \in [1 .. n -> RouteKeys]
         /\ include = [i \in 1 .. n |-> 0]
         /\ exclude = [i \in 1 .. n |-> 0]
         /\ conf = [i \in 1 .. n |-> 0]
    /\ catalog = {}
    /\ found = {}
    /\ result = None

Decide(decision, intent, offered) ==
    result' = [decision |-> decision, intent |-> intent, offered |-> offered]

(* RiskPolicy.evaluate comes first; a policy version may disable it.       *)
evaluate_risk(matched) ==
    /\ pc = "risk"
    /\ \/ /\ matched
          /\ Decide("risk", None, {})
          /\ pc' = "done"
       \/ /\ ~ matched
          /\ pc' = "search"
          /\ UNCHANGED result
    /\ UNCHANGED <<inputs, found, conf>>

(* Mutant: room for the positive and the negative example of one intent.   *)
small_limit == MinRows

(* The search's LIMIT: max(8, len(candidates) * 4).                        *)
search_limit ==
    AtLeast(RowsPerCandidate * Cardinality(DOMAIN routeKey), MinRows)

(* ORDER BY distance LIMIT: which of two equal rows is dropped is open.    *)
SearchResult(rows, nearest) ==
    /\ nearest \subseteq rows
    /\ Cardinality(nearest) = AtMost(Cardinality(rows), search_limit)
    /\ \A r \in nearest, q \in rows \ nearest : r.sim >= q.sim

(* _semantic_matches and the scoring of all candidates.                    *)
semantic_search ==
    /\ pc = "search"
    /\ \E rows \in SUBSET {r \in Row : r.intent \in DOMAIN routeKey} :
         /\ Cardinality(rows) <= MaxRows
         /\ catalog' = rows
         /\ found' \in {nearest \in SUBSET rows : SearchResult(rows, nearest)}
    /\ include' \in [DOMAIN routeKey -> KeywordCounts]
    /\ exclude' \in [DOMAIN routeKey -> KeywordCounts]
    /\ conf' = score_candidates(found', include', exclude')
    /\ pc' = "compose"
    /\ UNCHANGED <<policy, routeKey, scope, result>>

(* Embedding model or vector store unavailable: an error, no decision.     *)
search_unavailable ==
    /\ pc = "search"
    /\ DOMAIN routeKey # {}
    /\ pc' = "error"
    /\ UNCHANGED <<inputs, found, conf, result>>

compose_decision ==
    /\ pc = "compose"
    /\ \/ /\ DOMAIN conf = {}
          /\ Decide("fallback", None, {})
       \/ \E t \in DOMAIN conf :
            LET decision == compose(policy, conf, include, scope, routeKey, t)
            IN /\ IsTop(conf, t)
               /\ Decide(decision,
                         IF decision = "confident" THEN t ELSE None,
                         IF decision = "clarify"
                         THEN ClarifyCandidates(policy, conf, t) ELSE {})
    /\ pc' = "off_topic"
    /\ UNCHANGED <<inputs, found, conf>>

(* _off_topic_decision: any decision but a confident one gives way.        *)
evaluate_off_topic(matched) ==
    /\ pc = "off_topic"
    /\ \/ /\ matched /\ result.decision # "confident"
          /\ Decide("off_topic", None, {})
       \/ /\ ~ matched \/ result.decision = "confident"
          /\ UNCHANGED result
    /\ pc' = "done"
    /\ UNCHANGED <<inputs, found, conf>>

Next ==
    \/ \E matched \in BOOLEAN : evaluate_risk(matched) \/ evaluate_off_topic(matched)
    \/ semantic_search
    \/ search_unavailable
    \/ compose_decision

Spec == Init /\ [][Next]_vars

-----------------------------------------------------------------------------
(* Properties.                                                             *)

Decision(p, c, inc, s, t) == compose(p, c, inc, s, routeKey, t)

(* A catalog with no more examples per intent than the search makes room   *)
(* for is compared whole: when the router is confident, the scores over    *)
(* all examples of the catalog, found or not, make the intent the clear    *)
(* winner, and it is within the key's scope.                               *)
ConfidentIsUnambiguous ==
    result # None /\ result.intent # None =>
        LET t == result.intent
            full == score_candidates(catalog, include, exclude)
        IN /\ is_authorized(scope, routeKey, t)
           /\ Cardinality(catalog) <= RowsPerCandidate * Cardinality(DOMAIN routeKey)
                => /\ full[t] >= policy.threshold
                   /\ \A i \in DOMAIN full \ {t} : full[i] + policy.margin <= full[t]

(* A clarifying question offers the best candidate and, when it is why the *)
(* router asks, the one next to it; all offered candidates are viable.     *)
ClarifyOffersContenders ==
    result # None /\ result.decision = "clarify" =>
        /\ result.offered \subseteq Viable(policy, conf)
        /\ \E t \in result.offered : IsTop(conf, t)
        /\ Close(policy, conf, CHOOSE t \in DOMAIN conf : IsTop(conf, t))
             => Cardinality(result.offered) >= 2

(* Both decisions that name intents rest on what the search found: the     *)
(* confident one on a clear winner of the whole catalog, the question on   *)
(* the candidates that are really in contention.                           *)
DecisionsAreGrounded == ConfidentIsUnambiguous /\ ClarifyOffersContenders

(* A competitor that comes closer never makes the router confident.        *)
CompetitionNeverRoutes ==
    pc = "compose" =>
        \A t, i \in DOMAIN conf : \A s \in conf[i] .. conf[t] :
            LET closer == [conf EXCEPT ![i] = s]
            IN /\ i # t /\ IsTop(conf, t) /\ IsTop(closer, t)
               /\ Decision(policy, closer, include, scope, t) = "confident"
               => Decision(policy, conf, include, scope, t) = "confident"

(* An empty list is no restriction.                                        *)
Narrower(few, many) == many = {} \/ (few # {} /\ few \subseteq many)

(* A policy that asks for more, and an API key with a narrower scope, never*)
(* route what the present ones do not.                                     *)
StricterNeverRoutes ==
    pc = "compose" =>
        \A t \in DOMAIN conf, q \in Policies, s \in Scopes :
            /\ IsTop(conf, t)
            /\ q.threshold >= policy.threshold /\ q.margin >= policy.margin
            /\ Narrower(s.intents, scope.intents)
            /\ Narrower(s.routes, scope.routes)
            /\ Decision(q, conf, include, s, t) = "confident"
            => Decision(policy, conf, include, scope, t) = "confident"

Rank(decision) == IF decision = "confident" THEN 2
                  ELSE IF decision = "clarify" THEN 1 ELSE 0

(* One more matched keyword of the best candidate, worth up to 0.02, never *)
(* makes the decision worse, as long as threshold_value is at least        *)
(* min_candidate_score + clarify_margin (the exploratory preset with the   *)
(* default margin is not).                                                 *)
KeywordsHelp ==
    pc = "compose" /\ policy.threshold >= policy.min + policy.margin =>
        \A t \in DOMAIN conf, d \in 0 .. 4 :
            LET better == [conf EXCEPT ![t] = AtMost(@ + d, One)]
                inc == [include EXCEPT ![t] = @ + 1]
            IN IsTop(conf, t) =>
                 Rank(Decision(policy, better, inc, scope, t))
                   >= Rank(Decision(policy, conf, include, scope, t))
=============================================================================
