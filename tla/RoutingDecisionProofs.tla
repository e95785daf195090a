----------------------- MODULE RoutingDecisionProofs -----------------------
(***************************************************************************)
(* Proofs about RoutingDecision, for any catalog size, policies, scopes    *)
(* and similarities.  The comparisons of decisions follow from the type    *)
(* invariant: confidences are whole numbers in 0..One.  What a decision    *)
(* rests on needs the state the search left behind.                        *)
(***************************************************************************)
EXTENDS RoutingDecision, FiniteSetTheorems, WellFoundedInduction, TLAPS

-----------------------------------------------------------------------------
(* Scores.                                                                 *)

(* max(scores, default=0.0) is a number.                                   *)
LEMMA MaxScoreType ==
    ASSUME NEW S \in SUBSET Int
    PROVE  MaxScore(S) \in Int
<1> DEFINE highest == {s \in S : \A q \in S : q <= s}
<1>1. highest # {} => (CHOOSE s \in highest : TRUE) \in highest
  <2> HIDE DEF highest
  <2> QED
    BY Zenon
<1>2. highest \subseteq Int
  OBVIOUS
<1>3. MaxScore(S) = IF highest = {} THEN 0 ELSE CHOOSE s \in highest : TRUE
  BY DEF MaxScore
<1> QED
  BY <1>1, <1>2, <1>3

(* compute_intent_confidence stays within 0..1 whatever it adds up.        *)
LEMMA ConfidenceBounded ==
    ASSUME NEW pos \in Int, NEW neg \in Int, NEW inc \in Nat, NEW exc \in Nat
    PROVE  compute_intent_confidence(pos, neg, inc, exc) \in 0 .. One
<1>1. AtMost(4 * inc, 16) \in Int /\ AtMost(6 * exc, 24) \in Int
  BY DEF AtMost
<1>2. AtLeast(neg - 110, 0) \div 2 \in Int
  BY DEF AtLeast
<1> DEFINE x == pos + AtMost(4 * inc, 16) - AtMost(6 * exc, 24)
                  - (AtLeast(neg - 110, 0) \div 2)
<1>3. x \in Int
  BY <1>1, <1>2
<1> HIDE DEF x
<1>4. clamp(x) \in 0 .. One
  BY <1>3 DEF clamp, AtMost, AtLeast, One
<1> QED
  BY <1>4 DEF compute_intent_confidence, x

(* The scores of a row set are similarities.                               *)
LEMMA ScoresType ==
    ASSUME NEW rows \in SUBSET Row, NEW i, NEW type
    PROVE  Scores(rows, i, type) \in SUBSET Int
<1>1. Similarities \subseteq Int
  BY RoutingAssumption
<1> QED
  BY <1>1 DEF Scores, Row

-----------------------------------------------------------------------------
(* Types.                                                                  *)

(* Every candidate has its confidence within 0..1, and what is decided is  *)
(* about a candidate of the snapshot.                                      *)
THEOREM TypeCorrect == Spec => []TypeOK
<1>1. Init => TypeOK
  <2> SUFFICES ASSUME Init PROVE TypeOK
    OBVIOUS
  <2>1. PICK n \in 0 .. MaxCandidates :
          /\ routeKey \in [1 .. n -> RouteKeys]
          /\ include = [i \in 1 .. n |-> 0]
          /\ exclude = [i \in 1 .. n |-> 0]
          /\ conf = [i \in 1 .. n |-> 0]
    BY DEF Init
  <2>2. include \in [1 .. n -> Nat] /\ exclude \in [1 .. n -> Nat]
        /\ conf \in [1 .. n -> 0 .. One]
    BY <2>1 DEF One
  <2> QED
    BY <2>1, <2>2 DEF Init, TypeOK
<1>2. TypeOK /\ [Next]_vars => TypeOK'
  <2> SUFFICES ASSUME TypeOK, [Next]_vars PROVE TypeOK'
    OBVIOUS
  <2>0. PICK n \in 0 .. MaxCandidates :
          /\ routeKey \in [1 .. n -> RouteKeys]
          /\ include \in [1 .. n -> Nat]
          /\ exclude \in [1 .. n -> Nat]
          /\ conf \in [1 .. n -> 0 .. One]
    BY DEF TypeOK
  <2>n. 1 .. n \subseteq Candidates
    BY RoutingAssumption DEF Candidates
  <2>1. ASSUME NEW matched \in BOOLEAN, evaluate_risk(matched) PROVE TypeOK'
    <3>1. result' \in Result \cup {None}
      BY <2>1 DEF evaluate_risk, Decide, Result, TypeOK
    <3> QED
      BY <2>1, <3>1, <2>0 DEF evaluate_risk, inputs, TypeOK
  <2>2. ASSUME NEW matched \in BOOLEAN, evaluate_off_topic(matched) PROVE TypeOK'
    <3>1. result' \in Result \cup {None}
      BY <2>2 DEF evaluate_off_topic, Decide, Result, TypeOK
    <3> QED
      BY <2>2, <3>1, <2>0 DEF evaluate_off_topic, inputs, TypeOK
  <2>3. CASE semantic_search
    <3>1. PICK rows \in SUBSET {r \in Row : r.intent \in DOMAIN routeKey} :
            /\ catalog' = rows
            /\ found' \in {nearest \in SUBSET rows : SearchResult(rows, nearest)}
      BY <2>3 DEF semantic_search
    <3>2. catalog' \subseteq Row /\ found' \subseteq catalog' /\ found' \subseteq Row
      BY <3>1
    <3>3. include' \in [1 .. n -> Nat] /\ exclude' \in [1 .. n -> Nat]
      BY <2>3, <2>0, RoutingAssumption DEF semantic_search
    <3>4. ASSUME NEW i \in 1 .. n
          PROVE  compute_intent_confidence(
                    MaxScore(Scores(found', i, "positive")),
                    MaxScore(Scores(found', i, "negative")),
                    include'[i], exclude'[i]) \in 0 .. One
      <4>1. /\ Scores(found', i, "positive") \in SUBSET Int
            /\ Scores(found', i, "negative") \in SUBSET Int
        BY <3>2, ScoresType
      <4>2. /\ MaxScore(Scores(found', i, "positive")) \in Int
            /\ MaxScore(Scores(found', i, "negative")) \in Int
        BY <4>1, MaxScoreType
      <4>3. include'[i] \in Nat /\ exclude'[i] \in Nat
        BY <3>3
      <4> QED
        BY <4>2, <4>3, ConfidenceBounded
    <3>5. conf' \in [1 .. n -> 0 .. One]
      BY <2>3, <2>0, <3>4 DEF semantic_search, score_candidates
    <3> QED
      BY <2>3, <2>0, <3>2, <3>3, <3>5 DEF semantic_search, TypeOK
  <2>4. CASE search_unavailable
    BY <2>4, <2>0 DEF search_unavailable, inputs, TypeOK
  <2>5. CASE compose_decision
    <3>1. result' \in Result
      <4>1. CASE Decide("fallback", None, {})
        BY <4>1 DEF Decide, Result
      <4>2. ASSUME NEW t \in DOMAIN conf, NEW d,
                   d = compose(policy, conf, include, scope, routeKey, t),
                   Decide(d, IF d = "confident" THEN t ELSE None,
                          IF d = "clarify"
                          THEN ClarifyCandidates(policy, conf, t) ELSE {})
            PROVE  result' \in Result
        <5>1. d \in {"confident", "clarify", "fallback", "unauthorized"}
          BY <4>2 DEF compose
        <5>2. t \in Candidates
          BY <2>0, <2>n
        <5>3. ClarifyCandidates(policy, conf, t) \subseteq Candidates
          BY <5>2, <2>0, <2>n DEF ClarifyCandidates, Viable
        <5> QED
          BY <4>2, <5>1, <5>2, <5>3 DEF Decide, Result
      <4> QED
        BY <2>5, <4>1, <4>2 DEF compose_decision
    <3> QED
      BY <2>5, <3>1, <2>0 DEF compose_decision, inputs, TypeOK
  <2>6. CASE UNCHANGED vars
    BY <2>6 DEF vars, TypeOK
  <2> QED
    BY <2>1, <2>2, <2>3, <2>4, <2>5, <2>6 DEF Next
<1> QED
  BY <1>1, <1>2, PTL DEF Spec

-----------------------------------------------------------------------------
(* Decisions that are compared.                                            *)

(* What TypeOK says of the values the decision is made from.               *)
LEMMA DecisionTypes ==
    ASSUME TypeOK
    PROVE  /\ \A i \in DOMAIN conf : conf[i] \in 0 .. One
           /\ \A i \in DOMAIN conf : include[i] \in Nat
           /\ DOMAIN include = DOMAIN conf
           /\ \A p \in Policies : ValidPolicy(p)
           /\ policy \in Policies
  BY RoutingAssumption DEF TypeOK

(* The numbers of a policy the API accepts, and their order.               *)
LEMMA PolicyTypes ==
    ASSUME NEW p, ValidPolicy(p)
    PROVE  /\ p.threshold \in Int /\ p.margin \in Int
           /\ p.min \in Int /\ p.fallback \in Int
           /\ p.min >= 0
           /\ p.fallback <= p.min /\ p.min <= p.threshold
  BY DEF ValidPolicy, One

(* Confidences are integers of at most One.                                *)
LEMMA ConfidenceTypes ==
    ASSUME TypeOK
    PROVE  \A j \in DOMAIN conf : conf[j] \in Int /\ conf[j] <= One
  BY DecisionTypes DEF One

(* compose is confident in exactly one case.                               *)
LEMMA ConfidentMeans ==
    ASSUME NEW p, NEW c, NEW inc, NEW s, NEW keys, NEW t
    PROVE  compose(p, c, inc, s, keys, t) = "confident" <=>
             /\ ~ (c[t] < p.fallback)
             /\ is_authorized(s, keys, t)
             /\ c[t] >= p.threshold
             /\ MarginReaches(c, t, p.margin)
  BY DEF compose

(* A competitor that comes closer only lowers the margin.                  *)
THEOREM CompetitionSafe == Spec => []CompetitionNeverRoutes
<1>1. TypeOK => CompetitionNeverRoutes
  <2> SUFFICES ASSUME TypeOK, NEW t \in DOMAIN conf, NEW i \in DOMAIN conf,
                      NEW s \in conf[i] .. conf[t], i # t,
                      NEW closer, closer = [conf EXCEPT ![i] = s],
                      Decision(policy, closer, include, scope, t) = "confident"
               PROVE  Decision(policy, conf, include, scope, t) = "confident"
    BY DEF CompetitionNeverRoutes
  <2>1. /\ \A j \in DOMAIN conf : conf[j] \in Int
        /\ policy.margin \in Int
    BY DecisionTypes, ConfidenceTypes, PolicyTypes
  <2>2. DOMAIN closer = DOMAIN conf /\ closer[t] = conf[t]
        /\ \A j \in DOMAIN conf : closer[j] >= conf[j] /\ closer[j] \in Int
    BY <2>1
  <2>3. MarginReaches(closer, t, policy.margin)
        => MarginReaches(conf, t, policy.margin)
    BY <2>1, <2>2 DEF MarginReaches
  <2>4. /\ ~ (closer[t] < policy.fallback)
        /\ is_authorized(scope, routeKey, t)
        /\ closer[t] >= policy.threshold
        /\ MarginReaches(closer, t, policy.margin)
    BY ConfidentMeans DEF Decision
  <2> QED
    BY <2>2, <2>3, <2>4, ConfidentMeans DEF Decision
<1> QED
  BY <1>1, TypeCorrect, PTL

(* Stricter thresholds, margins and scopes route a subset of the queries:  *)
(* what the stricter policy routes is above the lower threshold, hence     *)
(* above its fallback score, which a valid policy keeps below.             *)
THEOREM StricterSafe == Spec => []StricterNeverRoutes
<1>1. TypeOK => StricterNeverRoutes
  <2> SUFFICES ASSUME TypeOK, NEW t \in DOMAIN conf, NEW q \in Policies,
                      NEW s \in Scopes,
                      q.threshold >= policy.threshold,
                      q.margin >= policy.margin,
                      Narrower(s.intents, scope.intents),
                      Narrower(s.routes, scope.routes),
                      Decision(q, conf, include, s, t) = "confident"
               PROVE  Decision(policy, conf, include, scope, t) = "confident"
    BY DEF StricterNeverRoutes
  <2>1. /\ \A j \in DOMAIN conf : conf[j] \in Int
        /\ policy.margin \in Int /\ q.margin \in Int
        /\ policy.threshold \in Int /\ q.threshold \in Int
        /\ policy.fallback \in Int /\ policy.min \in Int
        /\ policy.fallback <= policy.min /\ policy.min <= policy.threshold
    BY DecisionTypes, ConfidenceTypes, PolicyTypes
  <2>2. /\ is_authorized(s, routeKey, t)
        /\ conf[t] >= q.threshold
        /\ MarginReaches(conf, t, q.margin)
    BY ConfidentMeans DEF Decision
  <2>3. is_authorized(scope, routeKey, t)
    BY <2>2 DEF is_authorized, Narrower
  <2>4. MarginReaches(conf, t, policy.margin)
    BY <2>1, <2>2 DEF MarginReaches
  <2>5. conf[t] >= policy.threshold /\ ~ (conf[t] < policy.fallback)
    BY <2>1, <2>2
  <2> QED
    BY <2>3, <2>4, <2>5, ConfidentMeans DEF Decision
<1> QED
  BY <1>1, TypeCorrect, PTL

(* compose asks for clarification in exactly one case.                     *)
LEMMA ClarifyMeans ==
    ASSUME NEW p, NEW c, NEW inc, NEW s, NEW keys, NEW t
    PROVE  compose(p, c, inc, s, keys, t) = "clarify" <=>
             /\ ~ (c[t] < p.fallback)
             /\ is_authorized(s, keys, t)
             /\ ~ (c[t] >= p.threshold /\ MarginReaches(c, t, p.margin))
             /\ ~ Weak(p, c, inc, t)
             /\ Close(p, c, t) \/ (c[t] >= p.min /\ c[t] < p.threshold)
  BY DEF compose

(* A better best candidate never makes the decision worse when the         *)
(* threshold is at least min + margin: whoever keeps it from being routed  *)
(* is then viable itself, so the router asks.                              *)
THEOREM KeywordsSafe == Spec => []KeywordsHelp
<1>1. TypeOK => KeywordsHelp
  <2> SUFFICES ASSUME TypeOK, policy.threshold >= policy.min + policy.margin,
                      NEW t \in DOMAIN conf, NEW d \in 0 .. 4,
                      IsTop(conf, t),
                      NEW better,
                      better = [conf EXCEPT ![t] = AtMost(conf[t] + d, One)],
                      NEW inc, inc = [include EXCEPT ![t] = include[t] + 1]
               PROVE  Rank(Decision(policy, better, inc, scope, t))
                        >= Rank(Decision(policy, conf, include, scope, t))
    BY DEF KeywordsHelp
  <2>1. /\ \A j \in DOMAIN conf : conf[j] \in Int /\ conf[j] <= One
        /\ policy.margin \in Int /\ policy.threshold \in Int
        /\ policy.fallback \in Int /\ policy.min \in Int
        /\ policy.min >= 0
        /\ policy.fallback <= policy.min /\ policy.min <= policy.threshold
    BY DecisionTypes, ConfidenceTypes, PolicyTypes
  <2>2. /\ DOMAIN better = DOMAIN conf
        /\ better[t] \in Int /\ better[t] >= conf[t]
        /\ \A j \in DOMAIN conf \ {t} : better[j] = conf[j]
    BY <2>1 DEF AtMost, One
  <2>3. inc[t] # 0
    BY DecisionTypes
  <2>4. MarginReaches(conf, t, policy.margin)
        => MarginReaches(better, t, policy.margin)
    BY <2>1, <2>2 DEF MarginReaches
  <2>5. CASE Decision(policy, conf, include, scope, t) = "confident"
    <3>1. /\ ~ (conf[t] < policy.fallback)
          /\ is_authorized(scope, routeKey, t)
          /\ conf[t] >= policy.threshold
          /\ MarginReaches(conf, t, policy.margin)
      BY <2>5, ConfidentMeans DEF Decision
    <3>2. ~ (better[t] < policy.fallback) /\ better[t] >= policy.threshold
      BY <2>1, <2>2, <3>1
    <3>3. Decision(policy, better, inc, scope, t) = "confident"
      BY <2>4, <3>1, <3>2, ConfidentMeans DEF Decision
    <3> QED
      BY <2>5, <3>3 DEF Rank
  <2>6. CASE Decision(policy, conf, include, scope, t) = "clarify"
    <3>1. /\ ~ (conf[t] < policy.fallback)
          /\ is_authorized(scope, routeKey, t)
          /\ Close(policy, conf, t)
               \/ (conf[t] >= policy.min /\ conf[t] < policy.threshold)
      BY <2>6, ClarifyMeans DEF Decision
    <3>2. conf[t] >= policy.min
      <4>1. ASSUME Close(policy, conf, t) PROVE conf[t] >= policy.min
        <5>1. PICK i \in DOMAIN conf : conf[i] >= policy.min
          BY <4>1 DEF Close, Viable
        <5>2. conf[t] >= conf[i]
          BY <2>1 DEF IsTop, Before
        <5> QED
          BY <5>1, <5>2, <2>1
      <4> QED
        BY <3>1, <4>1
    <3>3. ~ (better[t] < policy.fallback) /\ better[t] >= policy.min
      BY <2>1, <2>2, <3>2
    <3>4. ~ Weak(policy, better, inc, t)
      BY <2>3 DEF Weak
    <3>5. ASSUME ~ MarginReaches(better, t, policy.margin),
                 better[t] >= policy.threshold
          PROVE  Close(policy, better, t)
      <4>1. DOMAIN better # {t}
        BY <3>5, <2>1, <2>2 DEF MarginReaches
      <4>2. PICK j \in DOMAIN better \ {t} :
              ~ (better[t] - better[j] >= policy.margin)
        BY <3>5, <4>1 DEF MarginReaches
      <4>3. better[j] \in Int
        BY <2>1, <2>2
      <4>4. better[j] >= policy.min
        BY <4>2, <4>3, <3>5, <2>1, <2>2
      <4>5. t \in Viable(policy, better) /\ j \in Viable(policy, better)
        BY <4>4, <3>3, <2>2 DEF Viable
      <4> QED
        BY <4>5, <3>5 DEF Close
    <3>6. Decision(policy, better, inc, scope, t) \in {"confident", "clarify"}
      <4>1. CASE /\ better[t] >= policy.threshold
                 /\ MarginReaches(better, t, policy.margin)
        BY <4>1, <3>1, <3>3, ConfidentMeans DEF Decision
      <4>2. CASE ~ (/\ better[t] >= policy.threshold
                    /\ MarginReaches(better, t, policy.margin))
        <5>1. Close(policy, better, t)
              \/ (better[t] >= policy.min /\ better[t] < policy.threshold)
          BY <4>2, <3>3, <3>5, <2>1, <2>2
        <5>2. Decision(policy, better, inc, scope, t) = "clarify"
          BY <4>2, <5>1, <3>1, <3>3, <3>4, ClarifyMeans DEF Decision
        <5> QED
          BY <5>2
      <4> QED
        BY <4>1, <4>2
    <3> QED
      BY <2>6, <3>6 DEF Rank
  <2>7. CASE /\ Decision(policy, conf, include, scope, t) # "confident"
             /\ Decision(policy, conf, include, scope, t) # "clarify"
    BY <2>7 DEF Rank
  <2> QED
    BY <2>5, <2>6, <2>7
<1> QED
  BY <1>1, TypeCorrect, PTL

-----------------------------------------------------------------------------
(* What the search returns.                                                *)

LEMMA SnapshotTypes ==
    ASSUME TypeOK
    PROVE  /\ IsFiniteSet(DOMAIN routeKey) /\ DOMAIN routeKey = DOMAIN conf
           /\ DOMAIN conf \subseteq Nat
<1>1. PICK n \in 0 .. MaxCandidates : DOMAIN routeKey = 1 .. n /\ DOMAIN conf = 1 .. n
  BY DEF TypeOK
<1>2. IsFiniteSet(1 .. n)
  BY FS_Interval, RoutingAssumption
<1> QED
  BY <1>1, <1>2

(* There are finitely many rows an example can give.                       *)
LEMMA RowsAreFinite == IsFiniteSet(Row)
<1> DEFINE types == {"positive", "negative"}
           f == [x \in -100 .. 100 |-> 2 * x]
           g == [x \in (Candidates \X types) \X Similarities |->
                   [intent |-> x[1][1], type |-> x[1][2], sim |-> x[2]]]
<1>1. IsFiniteSet(-100 .. 100) /\ IsFiniteSet(Candidates)
  <2>1. -100 \in Int /\ 100 \in Int /\ 1 \in Int /\ MaxCandidates \in Int
    BY RoutingAssumption
  <2>2. \A a, b \in Int : IsFiniteSet(a .. b)
    BY FS_Interval
  <2> QED
    BY <2>1, <2>2 DEF Candidates
<1>2. IsFiniteSet({2 * k : k \in -100 .. 100})
  <2>1. f \in Surjection(-100 .. 100, {2 * k : k \in -100 .. 100})
    BY DEF Surjection
  <2> HIDE DEF f
  <2> QED
    BY <1>1, <2>1, FS_Surjection
<1>3. IsFiniteSet(Similarities)
  BY <1>2, FS_Subset, RoutingAssumption
<1>4. IsFiniteSet(types)
  <2>1. IsFiniteSet({"positive"}) /\ types = {"positive"} \cup {"negative"}
    BY FS_Singleton
  <2> QED
    BY <2>1, FS_AddElement
<1> HIDE DEF types
<1>5. IsFiniteSet((Candidates \X types) \X Similarities)
  BY <1>1, <1>3, <1>4, FS_Product
<1>6. g \in Surjection((Candidates \X types) \X Similarities, Row)
  <2>1. ASSUME NEW r \in Row
        PROVE  \E x \in (Candidates \X types) \X Similarities : g[x] = r
    <3>1. <<<<r.intent, r.type>>, r.sim>> \in (Candidates \X types) \X Similarities
      BY DEF Row, types
    <3>2. g[<<<<r.intent, r.type>>, r.sim>>] = r
      BY <3>1 DEF Row
    <3> QED
      BY <3>1, <3>2
  <2>2. g \in [(Candidates \X types) \X Similarities -> Row]
    BY DEF Row, types
  <2> HIDE DEF g
  <2> QED
    BY <2>1, <2>2 DEF Surjection
<1> HIDE DEF g
<1> QED
  BY <1>5, <1>6, FS_Surjection

(* A catalog the LIMIT makes room for is returned whole.                   *)
LEMMA SmallCatalogIsFound ==
    ASSUME TypeOK, NEW rows \in SUBSET Row, NEW nearest, SearchResult(rows, nearest),
           Cardinality(rows) <= RowsPerCandidate * Cardinality(DOMAIN routeKey)
    PROVE  nearest = rows
<1> DEFINE room == RowsPerCandidate * Cardinality(DOMAIN routeKey)
<1>1. IsFiniteSet(rows) /\ Cardinality(rows) \in Nat
  BY RowsAreFinite, FS_Subset, FS_CardinalityType
<1>2. Cardinality(DOMAIN routeKey) \in Nat /\ RowsPerCandidate \in Nat
  BY SnapshotTypes, FS_CardinalityType, RoutingAssumption
<1>3. room \in Int /\ Cardinality(rows) <= room
  BY <1>2
<1>4. /\ nearest \subseteq rows
      /\ Cardinality(nearest) = AtMost(Cardinality(rows), AtLeast(room, MinRows))
  BY DEF SearchResult, search_limit
<1> HIDE DEF room
<1>5. Cardinality(nearest) = Cardinality(rows)
  BY <1>1, <1>3, <1>4, RoutingAssumption DEF AtMost, AtLeast
<1> QED
  BY <1>1, <1>4, <1>5, FS_Subset

-----------------------------------------------------------------------------
(* The candidates in order.                                                *)

LEMMA LeastNumber ==
    ASSUME NEW T \in SUBSET Nat, T # {}
    PROVE  \E x \in T : \A y \in T : x <= y
<1> DEFINE R == {p \in Nat \X Nat : p[1] < p[2]}
<1>1. IsWellFoundedOn(R, Nat)
  BY NatLessThanWellFounded DEF OpToRel
<1>2. PICK x \in T : \A y \in T : ~ (<<y, x>> \in R)
  <2> HIDE DEF R
  <2> QED
    BY <1>1, WFMin
<1>3. ASSUME NEW y \in T PROVE x <= y
  <2>1. y < x => <<y, x>> \in R
    OBVIOUS
  <2>2. ~ (y < x) /\ x \in Nat /\ y \in Nat
    BY <1>2, <2>1
  <2> QED
    BY <2>2
<1> QED
  BY <1>3

(* Of some candidates, one is ranked first.                                *)
LEMMA SomeoneIsFirst ==
    ASSUME TypeOK, NEW S \in SUBSET DOMAIN conf, S # {}
    PROVE  \E s \in S : \A j \in S \ {s} : Before(conf, s, j)
<1>1. \A j \in DOMAIN conf : /\ conf[j] \in Int /\ conf[j] <= One /\ conf[j] >= 0
                             /\ j \in Nat
  BY DecisionTypes, SnapshotTypes DEF One
<1> DEFINE gaps == {One - conf[j] : j \in S}
<1>2. gaps \subseteq Nat /\ gaps # {}
  BY <1>1 DEF One
<1>3. PICK x \in gaps : \A y \in gaps : x <= y
  <2> HIDE DEF gaps
  <2> QED
    BY <1>2, LeastNumber
<1>4. PICK h \in S : x = One - conf[h]
  BY <1>3
<1>5. \A j \in S : conf[j] <= conf[h]
  BY <1>1, <1>3, <1>4 DEF One
<1> DEFINE best == {j \in S : conf[j] = conf[h]}
<1>6. best \subseteq Nat /\ h \in best
  BY <1>1
<1>7. PICK s \in best : \A j \in best : s <= j
  <2> HIDE DEF best
  <2> QED
    BY <1>6, LeastNumber
<1>8. s \in S /\ conf[s] = conf[h]
  BY <1>7
<1>9. ASSUME NEW j \in S \ {s} PROVE Before(conf, s, j)
  <2>1. conf[j] \in Int /\ conf[s] \in Int /\ j \in Nat /\ s \in Nat /\ j # s
    BY <1>1, <1>8
  <2>2. conf[j] <= conf[s] /\ (conf[j] = conf[s] => s <= j)
    BY <1>5, <1>7, <1>8
  <2> QED
    BY <2>1, <2>2 DEF Before
<1> QED
  BY <1>8, <1>9

(* The best candidate is ranked before everyone, and there is only one.    *)
LEMMA TopIsUnique ==
    ASSUME TypeOK, NEW t, IsTop(conf, t)
    PROVE  /\ (CHOOSE u \in DOMAIN conf : IsTop(conf, u)) = t
           /\ \A j \in DOMAIN conf : conf[j] <= conf[t] /\ ~ Before(conf, j, t)
<1>1. \A j \in DOMAIN conf : conf[j] \in Int /\ j \in Nat
  BY ConfidenceTypes, SnapshotTypes
<1>2. /\ t \in DOMAIN conf
      /\ \A j \in DOMAIN conf : j # t => Before(conf, t, j)
  BY DEF IsTop
<1>3. \A j \in DOMAIN conf : conf[j] <= conf[t] /\ ~ Before(conf, j, t)
  BY <1>1, <1>2 DEF Before
<1>4. \A u \in DOMAIN conf : IsTop(conf, u) => u = t
  BY <1>2, <1>3 DEF IsTop
<1>5. (CHOOSE u \in DOMAIN conf : IsTop(conf, u)) = t
  BY <1>2, <1>4
<1> QED
  BY <1>3, <1>5

-----------------------------------------------------------------------------
(* Clarifying questions.                                                   *)

(* When the router asks, the best candidate is viable itself.              *)
LEMMA AskedTopIsViable ==
    ASSUME TypeOK, NEW t, IsTop(conf, t),
           compose(policy, conf, include, scope, routeKey, t) = "clarify"
    PROVE  t \in Viable(policy, conf)
<1>1. /\ policy.min \in Int /\ \A j \in DOMAIN conf : conf[j] \in Int
      /\ t \in DOMAIN conf /\ \A j \in DOMAIN conf : conf[j] <= conf[t]
  BY DecisionTypes, PolicyTypes, ConfidenceTypes, TopIsUnique DEF IsTop
<1>2. Close(policy, conf, t) \/ conf[t] >= policy.min
  BY ClarifyMeans
<1>3. Close(policy, conf, t) => \E j \in DOMAIN conf : conf[j] >= policy.min
  BY DEF Close, Viable
<1>4. conf[t] >= policy.min
  BY <1>1, <1>2, <1>3
<1> QED
  BY <1>1, <1>4 DEF Viable

(* The question offers the best candidate and, of two viable ones, the     *)
(* next: at most one is ranked before it, and the question has room for 2. *)
LEMMA QuestionOffersContenders ==
    ASSUME TypeOK, NEW t, IsTop(conf, t),
           compose(policy, conf, include, scope, routeKey, t) = "clarify"
    PROVE  LET offered == ClarifyCandidates(policy, conf, t)
           IN /\ offered \subseteq Viable(policy, conf) /\ t \in offered
              /\ Close(policy, conf, t) => Cardinality(offered) >= 2
<1> DEFINE V == Viable(policy, conf)
           Ahead(i) == {j \in V : Before(conf, j, i)}
           offered == ClarifyCandidates(policy, conf, t)
<1>1. t \in V /\ V \subseteq DOMAIN conf
  BY AskedTopIsViable DEF Viable
<1>2. offered = {i \in V : Cardinality(Ahead(i)) < MaxClarify}
  BY <1>1 DEF ClarifyCandidates
<1>3. t \in offered
  <2>1. Ahead(t) = {}
    BY <1>1, TopIsUnique
  <2>2. Cardinality(Ahead(t)) = 0
    BY <2>1, FS_EmptySet
  <2> QED
    BY <1>1, <1>2, <2>2, RoutingAssumption
<1>4. ASSUME Close(policy, conf, t) PROVE Cardinality(offered) >= 2
  <2>1. V \ {t} # {}
    BY <1>4 DEF Close
  <2>2. V \ {t} \in SUBSET DOMAIN conf
    BY <1>1
  <2>3. PICK s \in V \ {t} : \A j \in (V \ {t}) \ {s} : Before(conf, s, j)
    BY <2>1, <2>2, SomeoneIsFirst
  <2>4. Ahead(s) = {t}
    <3>1. \A j \in DOMAIN conf : conf[j] \in Int /\ j \in Nat
      BY ConfidenceTypes, SnapshotTypes
    <3>2. Before(conf, t, s)
      BY <1>1, <2>3 DEF IsTop
    <3>3. ASSUME NEW j \in V, Before(conf, j, s) PROVE j = t
      <4>1. j \in DOMAIN conf /\ s \in DOMAIN conf
        BY <1>1, <2>3
      <4>2. ~ Before(conf, s, s) /\ ~ (Before(conf, s, j) /\ Before(conf, j, s))
        BY <3>1, <4>1 DEF Before
      <4> QED
        BY <2>3, <3>3, <4>2
    <3> QED
      BY <1>1, <3>2, <3>3
  <2>5. Cardinality(Ahead(s)) = 1
    BY <2>4, FS_Singleton
  <2>6. s \in offered
    BY <1>2, <2>3, <2>5, RoutingAssumption
  <2>7. IsFiniteSet(offered) /\ {t, s} \subseteq offered
    BY <1>1, <1>2, <1>3, <2>6, SnapshotTypes, FS_Subset
  <2>8. Cardinality({t, s}) = 2
    <3>1. IsFiniteSet({t}) /\ Cardinality({t}) = 1 /\ s # t
      BY <2>3, FS_Singleton
    <3>2. {t, s} = {t} \cup {s}
      OBVIOUS
    <3>3. Cardinality({t} \cup {s}) = Cardinality({t}) + 1
      BY <3>1, FS_AddElement
    <3> QED
      BY <3>1, <3>2, <3>3
  <2>9. Cardinality({t, s}) <= Cardinality(offered) /\ Cardinality(offered) \in Nat
    BY <2>7, FS_Subset, FS_CardinalityType
  <2> QED
    BY <2>8, <2>9
<1> QED
  BY <1>2, <1>3, <1>4

-----------------------------------------------------------------------------
(* What the decisions rest on.                                             *)

(* Until it is used, the search's result is what the confidences are made  *)
(* from, and it is the whole catalog when that is small.                   *)
SearchInv ==
    /\ pc \in {"risk", "search", "compose"} => result = None
    /\ pc = "compose" =>
         /\ conf = score_candidates(found, include, exclude)
         /\ Cardinality(catalog) <= RowsPerCandidate * Cardinality(DOMAIN routeKey)
              => found = catalog

GroundedInv == TypeOK /\ SearchInv /\ DecisionsAreGrounded

LEMMA ComposeIsGrounded ==
    ASSUME GroundedInv, NEW t, IsTop(conf, t),
           compose(policy, conf, include, scope, routeKey, t) = "confident",
           pc = "compose"
    PROVE  LET full == score_candidates(catalog, include, exclude)
           IN /\ is_authorized(scope, routeKey, t)
              /\ Cardinality(catalog) <= RowsPerCandidate * Cardinality(DOMAIN routeKey)
                   => /\ full[t] >= policy.threshold
                      /\ \A i \in DOMAIN full \ {t} : full[i] + policy.margin <= full[t]
<1> DEFINE full == score_candidates(catalog, include, exclude)
<1>1. TypeOK /\ t \in DOMAIN conf
  BY DEF GroundedInv, IsTop
<1>2. /\ is_authorized(scope, routeKey, t) /\ conf[t] >= policy.threshold
      /\ MarginReaches(conf, t, policy.margin)
  BY ConfidentMeans
<1>3. policy.margin \in Int /\ \A j \in DOMAIN conf : conf[j] \in Int
  BY <1>1, DecisionTypes, PolicyTypes, ConfidenceTypes
<1>4. \A i \in DOMAIN conf \ {t} : conf[i] + policy.margin <= conf[t]
  BY <1>1, <1>2, <1>3 DEF MarginReaches
<1>5. Cardinality(catalog) <= RowsPerCandidate * Cardinality(DOMAIN routeKey)
        => full = conf
  BY DEF GroundedInv, SearchInv
<1> HIDE DEF full
<1>6. Cardinality(catalog) <= RowsPerCandidate * Cardinality(DOMAIN routeKey)
        => /\ full[t] >= policy.threshold
           /\ \A i \in DOMAIN full \ {t} : full[i] + policy.margin <= full[t]
  BY <1>2, <1>4, <1>5
<1> QED
  BY <1>2, <1>6 DEF full

(* A confident decision names the clear winner of the whole catalog, as    *)
(* far as the search's LIMIT makes room for it, and a clarifying question  *)
(* offers the candidates in contention: for catalogs of any size, any      *)
(* policy the API accepts and any scope.                                   *)
THEOREM DecisionsGrounded == Spec => []DecisionsAreGrounded
<1>1. Init => SearchInv /\ DecisionsAreGrounded
  BY DEF Init, SearchInv, DecisionsAreGrounded, ConfidentIsUnambiguous,
         ClarifyOffersContenders
<1>2. ASSUME GroundedInv, [Next]_vars
      PROVE  SearchInv' /\ DecisionsAreGrounded'
  <2>0. TypeOK /\ SearchInv /\ ConfidentIsUnambiguous /\ ClarifyOffersContenders
    BY <1>2 DEF GroundedInv, DecisionsAreGrounded
  <2> DEFINE Kept == UNCHANGED <<policy, routeKey, catalog, include, exclude,
                                 scope, found, conf>>
  <2>1. ASSUME Kept, UNCHANGED result PROVE DecisionsAreGrounded'
    BY <2>0, <2>1 DEF DecisionsAreGrounded, ConfidentIsUnambiguous,
          ClarifyOffersContenders, score_candidates, is_authorized, Close, Viable
  <2>2. ASSUME NEW d \in {"risk", "off_topic", "fallback", "unauthorized"},
               Decide(d, None, {})
        PROVE  DecisionsAreGrounded'
    <3>1. result'.intent = None /\ result'.decision # "clarify"
      BY <2>2 DEF Decide
    <3> QED
      BY <3>1 DEF DecisionsAreGrounded, ConfidentIsUnambiguous,
                  ClarifyOffersContenders
  <2>3. ASSUME NEW matched \in BOOLEAN, evaluate_risk(matched)
        PROVE  SearchInv' /\ DecisionsAreGrounded'
    <3>1. Kept /\ pc = "risk"
      BY <2>3 DEF evaluate_risk, inputs
    <3>2. \/ Decide("risk", None, {}) /\ pc' = "done"
          \/ UNCHANGED result /\ pc' = "search"
      BY <2>3 DEF evaluate_risk
    <3>3. SearchInv'
      BY <2>0, <3>1, <3>2 DEF SearchInv
    <3> QED
      BY <2>1, <2>2, <3>1, <3>2, <3>3
  <2>4. ASSUME NEW matched \in BOOLEAN, evaluate_off_topic(matched)
        PROVE  SearchInv' /\ DecisionsAreGrounded'
    <3>1. /\ Kept /\ pc' = "done"
          /\ Decide("off_topic", None, {}) \/ UNCHANGED result
      BY <2>4 DEF evaluate_off_topic, inputs
    <3>2. SearchInv'
      BY <3>1 DEF SearchInv
    <3> QED
      BY <2>1, <2>2, <3>1, <3>2
  <2>5. CASE semantic_search
    <3>1. PICK rows \in SUBSET Row :
            catalog' = rows /\ SearchResult(rows, found')
      BY <2>5 DEF semantic_search
    <3>2. /\ conf' = score_candidates(found', include', exclude') /\ pc' = "compose"
          /\ UNCHANGED <<routeKey, result>> /\ pc = "search"
      BY <2>5 DEF semantic_search
    <3>3. result' = None
      BY <2>0, <3>2 DEF SearchInv
    <3>4. Cardinality(catalog') <= RowsPerCandidate * Cardinality(DOMAIN routeKey)
            => found' = catalog'
      BY <2>0, <3>1, SmallCatalogIsFound
    <3>5. conf' = score_candidates(found, include, exclude)'
      BY <3>2 DEF score_candidates
    <3> QED
      BY <3>2, <3>3, <3>4, <3>5 DEF SearchInv, DecisionsAreGrounded,
            ConfidentIsUnambiguous, ClarifyOffersContenders
  <2>6. CASE search_unavailable
    <3>1. Kept /\ UNCHANGED result /\ pc' = "error"
      BY <2>6 DEF search_unavailable, inputs
    <3> QED
      BY <2>1, <3>1 DEF SearchInv
  <2>7. CASE compose_decision
    <3>1. Kept /\ pc' = "off_topic" /\ pc = "compose"
      BY <2>7 DEF compose_decision, inputs
    <3>2. SearchInv'
      BY <3>1 DEF SearchInv
    <3>3. ASSUME NEW t \in DOMAIN conf, IsTop(conf, t), NEW d,
                 d = compose(policy, conf, include, scope, routeKey, t),
                 Decide(d, IF d = "confident" THEN t ELSE None,
                        IF d = "clarify"
                        THEN ClarifyCandidates(policy, conf, t) ELSE {})
          PROVE  DecisionsAreGrounded'
      <4>1. CASE d = "confident"
        <5>1. result'.intent = t /\ result'.decision = "confident"
          BY <3>3, <4>1 DEF Decide
        <5> QED
          BY <1>2, <3>1, <3>3, <4>1, <5>1, ComposeIsGrounded
             DEF DecisionsAreGrounded, ConfidentIsUnambiguous,
                 ClarifyOffersContenders, score_candidates, is_authorized
      <4>2. CASE d = "clarify"
        <5> DEFINE offered == ClarifyCandidates(policy, conf, t)
        <5>1. /\ result'.intent = None /\ result'.decision = "clarify"
              /\ result'.offered = offered
          BY <3>3, <4>2 DEF Decide
        <5>2. /\ offered \subseteq Viable(policy, conf) /\ t \in offered
              /\ Close(policy, conf, t) => Cardinality(offered) >= 2
          BY <2>0, <3>3, <4>2, QuestionOffersContenders
        <5> HIDE DEF offered
        <5>3. (CHOOSE u \in DOMAIN conf : IsTop(conf, u)) = t
          BY <2>0, <3>3, TopIsUnique
        <5>4. policy' = policy /\ conf' = conf
          BY <3>1
        <5>5. ClarifyOffersContenders'
          BY <3>3, <5>1, <5>2, <5>3, <5>4 DEF ClarifyOffersContenders
        <5> QED
          BY <5>1, <5>5 DEF DecisionsAreGrounded, ConfidentIsUnambiguous
      <4>3. CASE d # "confident" /\ d # "clarify"
        <5>1. d \in {"fallback", "unauthorized"}
          BY <3>3, <4>3 DEF compose
        <5>2. Decide(d, None, {})
          BY <3>3, <4>3
        <5> QED
          BY <2>2, <5>1, <5>2
      <4> QED
        BY <4>1, <4>2, <4>3
    <3>4. \/ Decide("fallback", None, {})
          \/ \E t \in DOMAIN conf :
               LET d == compose(policy, conf, include, scope, routeKey, t)
               IN /\ IsTop(conf, t)
                  /\ Decide(d, IF d = "confident" THEN t ELSE None,
                            IF d = "clarify"
                            THEN ClarifyCandidates(policy, conf, t) ELSE {})
      BY <2>7 DEF compose_decision
    <3> QED
      BY <2>2, <3>2, <3>3, <3>4
  <2>8. CASE UNCHANGED vars
    <3>1. Kept /\ UNCHANGED <<result, pc>>
      BY <2>8 DEF vars
    <3>2. SearchInv'
      BY <2>0, <3>1 DEF SearchInv, score_candidates
    <3> QED
      BY <2>1, <3>1, <3>2
  <2> QED
    BY <1>2, <2>3, <2>4, <2>5, <2>6, <2>7, <2>8 DEF Next
<1> QED
  BY <1>1, <1>2, TypeCorrect, PTL DEF Spec, GroundedInv
=============================================================================
