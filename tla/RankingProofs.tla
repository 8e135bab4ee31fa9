--------------------------- MODULE RankingProofs ----------------------------
(***************************************************************************)
(* The ranking is a strict total order on candidates, and therefore the    *)
(* decision does not depend on the order in which candidates are visited:  *)
(* for any policy, conflict and fairness, not just the enumerated cases.   *)
(***************************************************************************)
EXTENDS Ranking, TLAPS

-----------------------------------------------------------------------------
(* The ranking keys. *)

\* class_index finds the position of every class ...
LEMMA ClassIndexType ==
    ASSUME NEW cls \in InterventionClass
    PROVE  ClassIndex(cls) \in 1..21 /\ ClassOrder[ClassIndex(cls)] = cls
  BY DEF InterventionClass, ClassIndex

\* ... and two classes never share one.
LEMMA ClassIndexInjective ==
    ASSUME NEW a \in InterventionClass, NEW b \in InterventionClass,
           ClassIndex(a) = ClassIndex(b)
    PROVE  a = b
  BY ClassIndexType

\* Every effect of default_effect is a record of numbers.
LEMMA EffectType ==
    ASSUME NEW cls
    PROVE  /\ DefaultEffect(cls).reduction \in Int
           /\ DefaultEffect(cls).neighbor \in Int
           /\ DefaultEffect(cls).reversibility \in Int
  BY DEF DefaultEffect

\* The keys are seven numbers ...
LEMMA RankKeyType ==
    ASSUME NEW q \in ContentionPolicy, NEW a \in Candidate
    PROVE  \A i \in 1..7 : RankKey(q, a)[i] \in Int
<1>1. q.workloads[a.target].value \in Int
  BY DEF ContentionPolicy, WorkloadPolicy, Candidate
<1>2. ClassIndex(a.cls) \in Int /\ a.target \in Int
  <2>1. a.cls \in InterventionClass /\ a.target \in Workloads
    BY DEF Candidate
  <2>2. ClassIndex(a.cls) \in 1..21
    BY <2>1, ClassIndexType
  <2>3. a.target \in Nat
    BY <2>1, WorkloadsAssumption
  <2>. QED
    BY <2>2, <2>3
<1>. DEFINE effect == DefaultEffect(a.cls)
<1>3. /\ -effect.reduction \in Int
      /\ effect.neighbor \in Int
      /\ -effect.reversibility \in Int
  BY EffectType
<1>4. RankKey(q, a) = << -effect.reduction, effect.neighbor,
                         q.workloads[a.target].value, effect.neighbor,
                         -effect.reversibility, ClassIndex(a.cls), a.target >>
  BY DEF RankKey
<1>. HIDE DEF effect
<1>. QED
  BY <1>1, <1>2, <1>3, <1>4

\* ... and the last two alone tell any two candidates apart.
LEMMA RankKeyInjective ==
    ASSUME NEW q \in ContentionPolicy, NEW a \in Candidate, NEW b \in Candidate,
           \A i \in 1..7 : RankKey(q, a)[i] = RankKey(q, b)[i]
    PROVE  a = b
<1>1. RankKey(q, a)[6] = ClassIndex(a.cls) /\ RankKey(q, a)[7] = a.target
  BY DEF RankKey
<1>2. RankKey(q, b)[6] = ClassIndex(b.cls) /\ RankKey(q, b)[7] = b.target
  BY DEF RankKey
<1>3. ClassIndex(a.cls) = ClassIndex(b.cls) /\ a.target = b.target
  BY <1>1, <1>2
<1>4. a.cls = b.cls
  BY <1>3, ClassIndexInjective DEF Candidate
<1>. QED
  BY <1>3, <1>4 DEF Candidate

-----------------------------------------------------------------------------
(* The order. *)

\* The comparison never puts a candidate before itself.
LEMMA BetterIrreflexive ==
    ASSUME NEW q \in ContentionPolicy, NEW a \in Candidate
    PROVE  ~Better(q, a, a)
  BY RankKeyType DEF Better

\* Of two different candidates, one comes first.
LEMMA BetterTotal ==
    ASSUME NEW q \in ContentionPolicy, NEW a \in Candidate, NEW b \in Candidate,
           a # b
    PROVE  Better(q, a, b) \/ Better(q, b, a)
<1>. DEFINE x(i) == RankKey(q, a)[i]
            y(i) == RankKey(q, b)[i]
<1>1. \A i \in 1..7 : x(i) \in Int /\ y(i) \in Int
  BY RankKeyType
<1>2. PICK i \in 1..7 : /\ x(i) # y(i)
                        /\ \A j \in 1..(i - 1) : x(j) = y(j)
  <2>1. \E i \in 1..7 : x(i) # y(i)
    BY RankKeyInjective
  <2>. HIDE DEF x, y
  <2>2. \/ x(1) # y(1) \/ x(2) # y(2) \/ x(3) # y(3) \/ x(4) # y(4)
        \/ x(5) # y(5) \/ x(6) # y(6) \/ x(7) # y(7)
    BY <2>1
  <2>. QED
    BY <2>2
<1>3. x(i) < y(i) \/ y(i) < x(i)
  BY <1>1, <1>2
<1>. QED
  BY <1>2, <1>3 DEF Better

\* The comparison is transitive.
LEMMA BetterTransitive ==
    ASSUME NEW q \in ContentionPolicy,
           NEW a \in Candidate, NEW b \in Candidate, NEW d \in Candidate,
           Better(q, a, b), Better(q, b, d)
    PROVE  Better(q, a, d)
<1>. DEFINE x(i) == RankKey(q, a)[i]
            y(i) == RankKey(q, b)[i]
            z(i) == RankKey(q, d)[i]
<1>1. \A i \in 1..7 : x(i) \in Int /\ y(i) \in Int /\ z(i) \in Int
  BY RankKeyType
<1>2. PICK i \in 1..7 : x(i) < y(i) /\ \A n \in 1..(i - 1) : x(n) = y(n)
  BY DEF Better
<1>3. PICK j \in 1..7 : y(j) < z(j) /\ \A n \in 1..(j - 1) : y(n) = z(n)
  BY DEF Better
<1>. DEFINE m == IF i <= j THEN i ELSE j
<1>. HIDE DEF x, y, z
<1>4. /\ m \in 1..7
      /\ x(m) < z(m)
      /\ \A n \in 1..(m - 1) : x(n) = z(n)
  BY <1>1, <1>2, <1>3
<1>. QED
  BY <1>4 DEF Better, x, z

\* A candidate that comes before all others is the front of the sorted list.
LEMMA BestIs ==
    ASSUME NEW q \in ContentionPolicy, NEW S \in SUBSET Candidate,
           NEW best \in S, \A other \in S \ {best} : Better(q, best, other)
    PROVE  Best(q, S) = {best}
<1>1. best \in Best(q, S)
  BY DEF Best
<1>2. ASSUME NEW o \in Best(q, S), o # best PROVE FALSE
  <2>1. o \in Candidate /\ Better(q, o, best) /\ Better(q, best, o)
    BY <1>2 DEF Best
  <2>. QED
    BY <2>1, BetterTransitive, BetterIrreflexive
<1>. QED
  BY <1>1, <1>2

-----------------------------------------------------------------------------
(* The candidate loop. *)

\* What the loop keeps true besides its result.
LoopTypeOK ==
    /\ p \in ContentionPolicy
    /\ fairness \in [Workloads -> FairnessRecord]
    /\ pending \subseteq Candidates(p, c)

\* Throughout the loop the policy, the conflict, the fairness and the set of
\* visited candidates stay what their types say.
LEMMA LoopType == Spec => []LoopTypeOK
<1>1. Init => LoopTypeOK
  BY RankingAssumption DEF Init, LoopTypeOK
<1>2. LoopTypeOK /\ [Next]_rankingVars => LoopTypeOK'
  BY DEF LoopTypeOK, Next, Visit, rankingVars
<1>. QED
  BY <1>1, <1>2, PTL DEF Spec

\* Whatever order the candidates are visited in, the front is always the one
\* best feasible candidate among those visited.
THEOREM OrderNeverMatters == Spec => []OrderIrrelevant
<1>. DEFINE seen == FeasibleCandidates(p, Context, fairness, c) \ pending
<1>1. Init => OrderIrrelevant
  <2>. SUFFICES ASSUME Init PROVE seen = {} /\ front = {}
    BY DEF OrderIrrelevant, Best
  <2>. QED
    BY DEF Init, FeasibleCandidates
<1>2. LoopTypeOK /\ OrderIrrelevant /\ [Next]_rankingVars => OrderIrrelevant'
  <2>. SUFFICES ASSUME LoopTypeOK, OrderIrrelevant, [Next]_rankingVars
                PROVE  OrderIrrelevant'
    OBVIOUS
  <2>1. CASE UNCHANGED rankingVars
    BY <2>1 DEF rankingVars, OrderIrrelevant
  <2>2. ASSUME NEW cand \in pending, Visit(cand) PROVE OrderIrrelevant'
    <3>. DEFINE feasible == Feasible(p, Context, fairness, cand.target,
                                     cand.cls, MakeFence(Context, cand.target))
                leads == \A best \in front : Better(p, cand, best)
    <3>1. /\ p \in ContentionPolicy
          /\ cand \in Candidates(p, c)
          /\ seen \subseteq Candidate
          /\ cand \in Candidate
          /\ cand \notin seen
      BY DEF LoopTypeOK, FeasibleCandidates, Candidates
    <3>2. seen' = IF feasible THEN seen \cup {cand} ELSE seen
      BY <2>2, <3>1 DEF Visit, FeasibleCandidates
    <3>3. /\ front' = IF feasible /\ leads THEN {cand} ELSE front
          /\ p' = p
      BY <2>2 DEF Visit
    <3>4. /\ front = Best(p, seen)
          /\ seen # {} => \E best \in seen : front = {best}
      BY DEF OrderIrrelevant
    <3>. HIDE DEF seen, feasible, leads
    <3>5. SUFFICES /\ front' = Best(p, seen')
                   /\ seen' # {} => \E best \in seen' : front' = {best}
      BY <3>3 DEF OrderIrrelevant, seen
    <3>6. CASE ~feasible
      BY <3>2, <3>3, <3>4, <3>6
    <3>7. CASE feasible /\ leads
      <4>1. ASSUME NEW o \in seen PROVE Better(p, cand, o)
        <5>1. PICK best \in seen : front = {best}
          BY <3>4
        <5>2. Better(p, cand, best)
          BY <3>7, <5>1 DEF leads
        <5>3. o = best \/ Better(p, best, o)
          BY <3>4, <5>1 DEF Best
        <5>. QED
          BY <3>1, <5>2, <5>3, BetterTransitive
      <4>2. seen' = seen \cup {cand} /\ front' = {cand}
        BY <3>2, <3>3, <3>7
      <4>3. Best(p, seen') = {cand}
        BY <3>1, <4>1, <4>2, BestIs
      <4>. QED
        BY <4>2, <4>3
    <3>8. CASE feasible /\ ~leads
      <4>1. PICK best \in front : ~Better(p, cand, best)
        BY <3>8 DEF leads
      <4>2. best \in seen /\ front = {best}
        BY <3>4, <4>1 DEF Best
      <4>3. Better(p, best, cand)
        BY <3>1, <4>1, <4>2, BetterTotal
      <4>4. \A o \in seen \ {best} : Better(p, best, o)
        BY <3>4, <4>2 DEF Best
      <4>5. seen' = seen \cup {cand} /\ front' = {best}
        BY <3>2, <3>3, <3>8, <4>2
      <4>6. Best(p, seen') = {best}
        BY <3>1, <4>2, <4>3, <4>4, <4>5, BestIs
      <4>. QED
        BY <4>2, <4>5, <4>6
    <3>. QED
      BY <3>6, <3>7, <3>8
  <2>. QED
    BY <2>1, <2>2 DEF Next
<1>. QED
  BY <1>1, <1>2, LoopType, PTL DEF Spec
=============================================================================
