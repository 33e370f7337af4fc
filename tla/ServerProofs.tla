---------------------------- MODULE ServerProofs ----------------------------
(***************************************************************************)
(* Theorems about the two parts of the server that several processes or    *)
(* threads share and that are not tickets.                                 *)
(*                                                                         *)
(* Permissions, for every set of asks, connections, actions and patterns:  *)
(* no race turns silence or a denial into an allowance, a request is       *)
(* answered once, no wakeup is lost, and the durable rules in force leave  *)
(* those of the rule file in four named ways only.                         *)
(*                                                                         *)
(* Notifications, for every set of processes and messages, every journal   *)
(* an older version left and every size of the log: a held notification is *)
(* in at most one summary, and each summary is recorded once.              *)
(***************************************************************************)
EXTENDS Permissions, Notifications, TLAPS, FiniteSetTheorems, SequenceTheorems,
        WellFoundedInduction

-----------------------------------------------------------------------------
(* Positions and retained elements.                                        *)

\* A nonempty set of natural numbers has a least element.
LEMMA LeastNat ==
    ASSUME NEW S \in SUBSET Nat, S # {}
    PROVE  \E m \in S : \A n \in S : m <= n
<1> DEFINE Less == {ss \in Nat \X Nat : ss[1] < ss[2]}
<1>1. Less = OpToRel(<, Nat)
  BY DEF OpToRel
<1>2. IsWellFoundedOn(Less, Nat)
  BY <1>1, NatLessThanWellFounded
<1>3. PICK m \in S : \A n \in S : ~(<<n, m>> \in Less)
  <2> HIDE DEF Less
  <2> QED
    BY <1>2, WFMin
<1>4. ASSUME NEW n \in S PROVE m <= n
  <2>1. n \in Nat /\ m \in Nat /\ ~(<<n, m>> \in Less)
    BY <1>3
  <2>2. <<n, m>> \in Nat \X Nat /\ <<n, m>>[1] = n /\ <<n, m>>[2] = m
    BY <2>1
  <2>3. ~(n < m)
    BY <2>1, <2>2
  <2> QED
    BY <2>1, <2>3
<1> QED
  BY <1>4

\* A nonempty set of positions has a greatest one.
LEMMA GreatestPosition ==
    ASSUME NEW n \in Nat, NEW S \in SUBSET (1..n), S # {}
    PROVE  \E i \in S : \A j \in S : j <= i
<1> DEFINE U == {m \in Nat : \A j \in S : j <= m}
<1>1. n \in U
  OBVIOUS
<1>2. PICK m \in U : \A k \in U : m <= k
  <2> HIDE DEF U
  <2>1. U \in SUBSET Nat /\ U # {}
    BY <1>1 DEF U
  <2> QED
    BY <2>1, LeastNat
<1>3. m \in S
  <2> SUFFICES ASSUME m \notin S PROVE FALSE
    OBVIOUS
  <2>1. PICK j \in S : TRUE
    OBVIOUS
  <2>2. m - 1 \in Nat
    BY <1>2, <2>1
  <2>3. \A k \in S : k <= m - 1
    BY <1>2
  <2> QED
    BY <1>2, <2>2, <2>3
<1> QED
  BY <1>2, <1>3

\* Every number up to the size of a set of positions is the rank of one of
\* them.
LEMMA RankExists ==
    ASSUME NEW n \in Nat, NEW keep \in SUBSET (1..n), NEW k \in 1..Cardinality(keep)
    PROVE  \E i \in keep : Cardinality({j \in keep : j <= i}) = k
<1> DEFINE upto(m) == {j \in keep : j <= m}
           U == {m \in 0..n : k <= Cardinality(upto(m))}
<1>1. IsFiniteSet(keep) /\ Cardinality(keep) \in Nat /\ k \in Nat
  <2>1. IsFiniteSet(1..n)
    BY FS_Interval
  <2>2. IsFiniteSet(keep)
    BY <2>1, FS_Subset
  <2> QED
    BY <2>2, FS_CardinalityType
<1>2. \A m \in 0..n : IsFiniteSet(upto(m)) /\ Cardinality(upto(m)) \in Nat
  BY <1>1, FS_Subset, FS_CardinalityType
<1>0. \A j \in keep : j \in Nat /\ 1 <= j /\ j <= n
  OBVIOUS
<1>3. upto(n) = keep /\ upto(0) = {}
  <2>1. \A j \in keep : j <= n /\ ~(j <= 0)
    BY <1>0
  <2> QED
    BY <2>1
<1>4. n \in U /\ U \in SUBSET Nat
  BY <1>1, <1>3
<1>5. PICK m \in U : \A q \in U : m <= q
  <2> HIDE DEF U
  <2> QED
    BY <1>4, LeastNat
<1>6. m # 0
  <2>1. Cardinality({}) = 0
    BY FS_EmptySet
  <2> SUFFICES ASSUME m = 0 PROVE FALSE
    OBVIOUS
  <2>2. k <= Cardinality(upto(0))
    BY <1>5
  <2>3. k <= 0
    BY <1>3, <2>1, <2>2
  <2> QED
    BY <2>3
<1>7. m - 1 \in 0..n /\ m - 1 \notin U /\ m \in 0..n
  <2>1. m \in 0..n
    BY <1>5
  <2> HIDE DEF U
  <2>2. m - 1 \in 0..n /\ ~(m <= m - 1)
    BY <1>6, <2>1
  <2> QED
    BY <1>5, <2>1, <2>2
<1>8. Cardinality(upto(m - 1)) < k /\ k <= Cardinality(upto(m))
  <2>1. k <= Cardinality(upto(m)) /\ ~(k <= Cardinality(upto(m - 1)))
    BY <1>5, <1>7
  <2>2. Cardinality(upto(m - 1)) \in Nat
    BY <1>2, <1>7
  <2> HIDE DEF upto
  <2> QED
    BY <1>1, <2>1, <2>2
<1>9. m \in keep
  <2> SUFFICES ASSUME m \notin keep PROVE FALSE
    OBVIOUS
  <2>1. upto(m) = upto(m - 1)
    <3>1. \A j \in keep : j <= m <=> j <= m - 1
      BY <1>0, <1>7
    <3> QED
      BY <3>1
  <2> HIDE DEF upto
  <2> QED
    BY <1>1, <1>2, <1>7, <1>8, <2>1
<1>10. upto(m) = upto(m - 1) \cup {m} /\ m \notin upto(m - 1)
  <2>1. \A j \in keep : j <= m <=> j <= m - 1 \/ j = m
    BY <1>0, <1>7
  <2>2. ~(m <= m - 1) /\ m <= m
    BY <1>7
  <2> QED
    BY <1>9, <2>1, <2>2
<1>11. Cardinality(upto(m)) = Cardinality(upto(m - 1)) + 1
  <2> HIDE DEF upto
  <2> QED
    BY <1>2, <1>7, <1>10, FS_AddElement
<1>12. Cardinality(upto(m)) = k
  <2> HIDE DEF upto
  <2> QED
    BY <1>1, <1>2, <1>7, <1>8, <1>11
<1> QED
  BY <1>9, <1>12

\* Two positions of a set have different ranks, all within its size.
LEMMA RankOrder ==
    ASSUME NEW n \in Nat, NEW keep \in SUBSET (1..n), NEW i \in keep
    PROVE  /\ Cardinality({j \in keep : j <= i}) \in 1..Cardinality(keep)
           /\ \A h \in keep :
                 Cardinality({j \in keep : j <= h}) = Cardinality({j \in keep : j <= i})
                 => h = i
           /\ \A h \in keep : h <= i =>
                 Cardinality({j \in keep : j <= h}) <= Cardinality({j \in keep : j <= i})
<1> DEFINE upto(m) == {j \in keep : j <= m}
<1>1. IsFiniteSet(keep)
  <2>1. IsFiniteSet(1..n)
    BY FS_Interval
  <2> QED
    BY <2>1, FS_Subset
<1>2. \A m \in keep : /\ IsFiniteSet(upto(m)) /\ Cardinality(upto(m)) \in Nat
                      /\ Cardinality(upto(m)) <= Cardinality(keep) /\ m \in upto(m)
  <2>1. \A m \in keep : upto(m) \subseteq keep /\ m \in upto(m)
    OBVIOUS
  <2> HIDE DEF upto
  <2> QED
    BY <1>1, <2>1, FS_Subset, FS_CardinalityType
<1>3. Cardinality(upto(i)) # 0 /\ Cardinality(keep) \in Nat
  <2> HIDE DEF upto
  <2> QED
    BY <1>1, <1>2, FS_EmptySet, FS_CardinalityType
<1>4. ASSUME NEW g \in keep, NEW h \in keep, g < h
      PROVE  Cardinality(upto(g)) # Cardinality(upto(h))
  <2>1. upto(g) \subseteq upto(h) /\ upto(g) # upto(h)
    <3>1. g \in Nat /\ h \in Nat /\ \A j \in keep : j \in Nat
      OBVIOUS
    <3>2. \A j \in keep : j <= g => j <= h
      BY <1>4, <3>1
    <3>3. h \in upto(h) /\ h \notin upto(g)
      BY <1>4, <3>1
    <3> QED
      BY <3>2, <3>3
  <2> HIDE DEF upto
  <2> QED
    BY <1>2, <2>1, FS_Subset
<1>5. ASSUME NEW h \in keep, Cardinality(upto(h)) = Cardinality(upto(i)) PROVE h = i
  <2>1. h \in Nat /\ i \in Nat
    OBVIOUS
  <2> HIDE DEF upto
  <2> QED
    BY <1>4, <1>5, <2>1
<1>6. Cardinality(upto(i)) \in 1..Cardinality(keep)
  <2> HIDE DEF upto
  <2> QED
    BY <1>2, <1>3
<1>7. ASSUME NEW h \in keep, h <= i PROVE Cardinality(upto(h)) <= Cardinality(upto(i))
  <2>1. upto(h) \subseteq upto(i)
    <3>1. h \in Nat /\ i \in Nat /\ \A j \in keep : j \in Nat
      OBVIOUS
    <3>2. \A j \in keep : j <= h => j <= i
      BY <1>7, <3>1
    <3> QED
      BY <3>2
  <2> HIDE DEF upto
  <2> QED
    BY <1>2, <2>1, FS_Subset
<1> QED
  BY <1>5, <1>6, <1>7

\* Retain is a sequence of the kept elements, each from its own position.
LEMMA RetainFacts ==
    ASSUME NEW S, NEW s \in Seq(S), NEW keep \in SUBSET (DOMAIN s)
    PROVE  /\ Retain(s, keep) \in Seq(S)
           /\ \E pick \in [DOMAIN Retain(s, keep) -> keep] :
                 /\ \A n \in DOMAIN Retain(s, keep) : Retain(s, keep)[n] = s[pick[n]]
                 /\ \A m, n \in DOMAIN Retain(s, keep) : pick[m] = pick[n] => m = n
                 /\ \A m, n \in DOMAIN Retain(s, keep) : m < n => pick[m] < pick[n]
                 /\ \A i \in keep : \E n \in DOMAIN Retain(s, keep) : pick[n] = i
<1> DEFINE rank(i) == Cardinality({j \in keep : j <= i})
           C == Cardinality(keep)
           pk(n) == CHOOSE i \in keep : rank(i) = n
           p == [n \in 1..C |-> pk(n)]
           R == Retain(s, keep)
<1>1. Len(s) \in Nat /\ DOMAIN s = 1..Len(s) /\ keep \in SUBSET (1..Len(s))
  OBVIOUS
<1>2. C \in Nat
  <2>1. IsFiniteSet(1..Len(s))
    BY <1>1, FS_Interval
  <2>2. IsFiniteSet(keep)
    BY <1>1, <2>1, FS_Subset
  <2> QED
    BY <2>2, FS_CardinalityType
<1>3. \A n \in 1..C : \E i \in keep : rank(i) = n
  BY <1>1, RankExists
<1>4. \A i \in keep : /\ rank(i) \in 1..C
                      /\ \A h \in keep : /\ rank(h) = rank(i) => h = i
                                         /\ h <= i => rank(h) <= rank(i)
  <2> SUFFICES ASSUME NEW i \in keep
               PROVE  /\ rank(i) \in 1..C
                      /\ \A h \in keep : /\ rank(h) = rank(i) => h = i
                                         /\ h <= i => rank(h) <= rank(i)
    OBVIOUS
  <2>1. rank(i) \in 1..C /\ \A h \in keep : rank(h) = rank(i) => h = i
    BY <1>1, RankOrder
  <2>2. \A h \in keep : h <= i => rank(h) <= rank(i)
    BY <1>1, RankOrder
  <2> QED
    BY <2>1, <2>2
<1> HIDE DEF rank, C
<1>5. \A n \in 1..C : pk(n) \in keep /\ rank(pk(n)) = n
  BY <1>3
<1>6. R = [n \in 1..C |-> s[pk(n)]]
  BY DEF Retain, rank, C
<1> HIDE DEF pk
<1>7. \A n \in 1..C : s[pk(n)] \in S
  BY <1>1, <1>5
<1>8. R \in Seq(S) /\ DOMAIN R = 1..C
  <2> HIDE DEF R
  <2>1. \A n \in 1..C : R[n] \in S
    BY <1>6, <1>7
  <2> QED
    BY <1>2, <1>6, <1>7
<1>9. p \in [1..C -> keep] /\ \A n \in 1..C : R[n] = s[p[n]]
  <2> HIDE DEF R
  <2> QED
    BY <1>5, <1>6
<1>10. \A m, n \in 1..C : p[m] = p[n] => m = n
  BY <1>5
<1>11. \A i \in keep : \E n \in 1..C : p[n] = i
  <2> SUFFICES ASSUME NEW i \in keep PROVE \E n \in 1..C : p[n] = i
    OBVIOUS
  <2>1. rank(i) \in 1..C
    BY <1>4
  <2>2. pk(rank(i)) = i
    BY <1>4, <1>5, <2>1
  <2> QED
    BY <2>1, <2>2
<1>0. \A m, n \in 1..C : m < n => p[m] < p[n]
  <2> SUFFICES ASSUME NEW m \in 1..C, NEW n \in 1..C, m < n, ~(pk(m) < pk(n))
               PROVE  FALSE
    OBVIOUS
  <2>1. pk(m) \in Nat /\ pk(n) \in Nat
    BY <1>1, <1>5
  <2>2. pk(n) <= pk(m)
    BY <2>1
  <2>3. rank(pk(n)) <= rank(pk(m))
    BY <1>4, <1>5, <2>2
  <2> QED
    BY <1>2, <1>5, <2>3
<1> HIDE DEF p, R
<1>12. \E pick \in [DOMAIN R -> keep] :
             /\ \A n \in DOMAIN R : R[n] = s[pick[n]]
             /\ \A m, n \in DOMAIN R : pick[m] = pick[n] => m = n
             /\ \A m, n \in DOMAIN R : m < n => pick[m] < pick[n]
             /\ \A i \in keep : \E n \in DOMAIN R : pick[n] = i
  <2>1. p \in [DOMAIN R -> keep]
    BY <1>8, <1>9
  <2> WITNESS p \in [DOMAIN R -> keep]
  <2> QED
    BY <1>0, <1>8, <1>9, <1>10, <1>11
<1> QED
  BY <1>8, <1>12 DEF R

\* A function on 0..n can be defined by its first value and a step.
LEMMA RecursionExists ==
    ASSUME NEW S, NEW a \in S, NEW n \in Nat, NEW F \in [1..n -> [S -> S]]
    PROVE  \E g \in [0..n -> S] : g[0] = a /\ \A i \in 1..n : g[i] = F[i][g[i-1]]
<1> DEFINE Defines(k, g) == g[0] = a /\ \A i \in 1..k : g[i] = F[i][g[i-1]]
           Bad == {k \in 0..n : ~\E g \in [0..k -> S] : Defines(k, g)}
<1>1. SUFFICES ASSUME Bad # {} PROVE FALSE
  <2>1. n \in 0..n
    OBVIOUS
  <2>2. Bad = {} => \E g \in [0..n -> S] : Defines(n, g)
    BY <2>1
  <2> QED
    BY <2>2
<1>2. PICK m \in Bad : \A k \in Bad : m <= k
  <2> HIDE DEF Bad
  <2>1. Bad \in SUBSET Nat
    BY DEF Bad
  <2> QED
    BY <1>1, <2>1, LeastNat
<1>3. m \in 0..n /\ ~\E g \in [0..m -> S] : Defines(m, g)
  BY <1>2
<1>4. CASE m = 0
  <2> DEFINE h == [i \in 0..0 |-> a]
  <2>1. h \in [0..m -> S] /\ h[0] = a /\ 1..m = {}
    BY <1>4
  <2> QED
    BY <1>3, <2>1
<1>5. CASE m # 0
  <2>1. m - 1 \in 0..n /\ m - 1 \in Nat /\ ~(m <= m - 1) /\ m \in 1..n
    BY <1>3, <1>5
  <2>2. m - 1 \notin Bad
    <3> HIDE DEF Bad
    <3> QED
      BY <1>2, <2>1
  <2>3. PICK g \in [0..(m-1) -> S] : Defines(m - 1, g)
    BY <2>1, <2>2
  <2> DEFINE h == [i \in 0..m |-> IF i = m THEN F[m][g[m-1]] ELSE g[i]]
  <2>4. g[m-1] \in S /\ F[m][g[m-1]] \in S
    <3>1. g[m-1] \in S
      BY <2>1, <2>3
    <3>2. F[m] \in [S -> S]
      BY <2>1
    <3> QED
      BY <3>1, <3>2
  <2>5. h \in [0..m -> S]
    <3>1. \A i \in 0..m : i # m => i \in 0..(m-1)
      BY <2>1
    <3> QED
      BY <2>3, <2>4, <3>1
  <2>6. h[0] = a
    BY <1>5, <2>1, <2>3
  <2>7. ASSUME NEW i \in 1..m PROVE h[i] = F[i][h[i-1]]
    <3>1. i \in 0..m /\ i - 1 \in 0..m /\ i - 1 # m /\ h[i-1] = g[i-1]
      BY <2>1
    <3>2. CASE i = m
      BY <3>1, <3>2
    <3>3. CASE i # m
      <4>1. i \in 1..(m-1)
        BY <2>1, <3>3
      <4> QED
        BY <2>3, <3>1, <3>3, <4>1
    <3> QED
      BY <3>2, <3>3
  <2> HIDE DEF h
  <2> QED
    BY <1>3, <2>5, <2>6, <2>7
<1> QED
  BY <1>4, <1>5

\* Induction over 0..n, with the set of the numbers that satisfy the claim.
LEMMA IntervalInduction ==
    ASSUME NEW n \in Nat, NEW T, 0 \in T, \A i \in 1..n : i - 1 \in T => i \in T
    PROVE  \A i \in 0..n : i \in T
<1> DEFINE Bad == {i \in 0..n : i \notin T}
<1>1. SUFFICES ASSUME Bad # {} PROVE FALSE
  OBVIOUS
<1>2. PICK m \in Bad : \A k \in Bad : m <= k
  <2> HIDE DEF Bad
  <2>1. Bad \in SUBSET Nat
    BY DEF Bad
  <2> QED
    BY <1>1, <2>1, LeastNat
<1>3. m \in 1..n /\ m - 1 \in 0..n /\ ~(m <= m - 1)
  BY <1>2
<1>4. m - 1 \notin Bad
  <2> HIDE DEF Bad
  <2> QED
    BY <1>2, <1>3
<1> QED
  BY <1>2, <1>3, <1>4

\* Newest is the greatest position of a nonempty set of positions.
LEMMA NewestFacts ==
    ASSUME NEW n \in Nat, NEW S \in SUBSET (1..n), S # {}
    PROVE  Newest(S) \in S
  BY GreatestPosition DEF Newest

-----------------------------------------------------------------------------
(* Permissions: the inductive invariant.                                   *)

\* Where an ask can be while its request is in the queue.
Queued == {"waiting", "enabled", "notified", "parked", "expiring"}

\* A request in the queue has no verdict, and whatever has left the queue, is
\* delivered or was collected agrees with the verdict.
AskOK(r) ==
    /\ r \in queue => verdict[r] = None /\ asks[r] \in Queued
    /\ asks[r] \in {"new", "loading", "asked"} => verdict[r] = None
    /\ results[r] # None => verdict[r] = results[r]
    /\ asks[r] = "allow" => verdict[r] = "allow"
    /\ \A b \in deliveries : b.todo[r] # None => verdict[r] = b.todo[r]

\* A durable rule belongs to the project, and the file has one rule of a key.
Durable == \A i \in DOMAIN rules : rules[i].persist => rules[i].conn = None
RulesOK == Durable /\ OneOfAKey(vault)

\* A refused registration brings no rules.
LoadsOK == \A x \in Requests \cup {None} : loads[x].at # "loaded" => loads[x].stored = <<>>

IInv ==
    /\ TypeOK /\ (\A r \in Requests : AskOK(r)) /\ NoLostWakeup
    /\ RulesOK /\ LoadsOK

\* What DurableRulesStored says of a step that installs no load, rule by rule.
AllStored ==
    \A i \in DOMAIN rules :
        rules[i].persist => \E j \in DOMAIN vault : Stored(rules[i]) = vault[j]
Excuse(k) == RecreatesVault \/ Doubled(k) \/ Shadowed(k)
KeptStep ==
    AllStored => \A n \in DOMAIN rules' :
        rules'[n].persist => \/ \E j \in DOMAIN vault' : Stored(rules'[n]) = vault'[j]
                             \/ Excuse(rules'[n].key)
StoredStep ==
    /\ Unstored = {} =>
          \A k \in Unstored' : InstallsStale \/ RecreatesVault \/ Doubled(k) \/ Shadowed(k)
    /\ InstallsFresh => Unstored' = {}

-----------------------------------------------------------------------------
(* Rules and the rule file.                                                *)

LEMMA RuleFields ==
    ASSUME NEW rs \in Seq(RuleType), NEW i \in DOMAIN rs
    PROVE  /\ rs[i] \in RuleType /\ rs[i].key \in Keys /\ rs[i].action \in Actions
           /\ rs[i].decision \in Decisions /\ rs[i].persist \in BOOLEAN
           /\ rs[i].conn \in Conns \cup {None}
<1>1. rs[i] \in RuleType
  OBVIOUS
<1> QED
  BY <1>1 DEF RuleType

LEMMA UnstoredFacts == Unstored = {} <=> AllStored
BY DEF Unstored, AllStored

\* Without an installation, a step that keeps the rules stored is as
\* DurableRulesStored says.
LEMMA KeptIsStored ==
    ASSUME KeptStep, UNCHANGED loads
    PROVE  StoredStep
<1>1. ~InstallsFresh
  BY DEF InstallsFresh, InstallsLoad
<1>2. ASSUME Unstored = {}, NEW k \in Unstored'
      PROVE  RecreatesVault \/ Doubled(k) \/ Shadowed(k)
  <2>1. PICK n \in DOMAIN rules' : /\ k = rules'[n].key /\ rules'[n].persist
                                   /\ \A j \in DOMAIN vault' : Stored(rules'[n]) # vault'[j]
    BY <1>2 DEF Unstored
  <2>2. Excuse(rules'[n].key)
    BY <1>2, <2>1, UnstoredFacts DEF KeptStep
  <2> QED
    BY <2>1, <2>2 DEF Excuse
<1> QED
  BY <1>1, <1>2 DEF StoredStep

LEMMA TemporaryFacts ==
    ASSUME NEW rs \in Seq(RuleType)
    PROVE  /\ Temporary(rs) \in Seq(RuleType)
           /\ \A n \in DOMAIN Temporary(rs) : ~Temporary(rs)[n].persist
<1> DEFINE keep == {i \in DOMAIN rs : ~rs[i].persist}
           T == Retain(rs, keep)
<1>1. keep \in SUBSET (DOMAIN rs) /\ \A i \in keep : ~rs[i].persist
  OBVIOUS
<1> HIDE DEF keep
<1>2. /\ T \in Seq(RuleType)
      /\ \E pick \in [DOMAIN T -> keep] : \A n \in DOMAIN T : T[n] = rs[pick[n]]
  BY <1>1, RetainFacts
<1>3. Temporary(rs) = T
  BY DEF Temporary, keep
<1> HIDE DEF T
<1>4. \A n \in DOMAIN T : ~T[n].persist
  BY <1>1, <1>2
<1> QED
  BY <1>2, <1>3, <1>4

\* Rules that are taken out leave the others in order.
LEMMA KeptRules ==
    ASSUME IInv, NEW keep \in SUBSET (DOMAIN rules), rules' = Retain(rules, keep),
           UNCHANGED vault
    PROVE  rules' \in Seq(RuleType) /\ RulesOK' /\ KeptStep
<1>0. rules \in Seq(RuleType) /\ Durable /\ OneOfAKey(vault)
  BY DEF IInv, TypeOK, RulesOK
<1>1. rules' \in Seq(RuleType)
  BY <1>0, RetainFacts
<1>2. PICK pick \in [DOMAIN rules' -> keep] :
          \A n \in DOMAIN rules' : rules'[n] = rules[pick[n]]
  BY <1>0, RetainFacts
<1>3. \A n \in DOMAIN rules' : pick[n] \in DOMAIN rules
  BY <1>2
<1>4. Durable'
  BY <1>0, <1>2, <1>3 DEF Durable
<1>5. KeptStep
  BY <1>2, <1>3 DEF KeptStep, AllStored, Stored
<1>6. OneOfAKey(vault)'
  BY <1>0 DEF OneOfAKey
<1> QED
  BY <1>1, <1>4, <1>5, <1>6 DEF RulesOK

\* enforce_durable_health keeps the rules, or the temporary ones.
LEMMA HealthyRules ==
    ASSUME IInv, rules' = Healthy(rules), UNCHANGED vault
    PROVE  rules' \in Seq(RuleType) /\ RulesOK' /\ KeptStep
<1>1. CASE vaultState = "ok"
  <2>1. UNCHANGED rules
    BY <1>1 DEF Healthy
  <2> QED
    BY <2>1 DEF IInv, TypeOK, RulesOK, Durable, OneOfAKey, KeptStep, AllStored
<1>2. CASE vaultState # "ok"
  <2> DEFINE keep == {i \in DOMAIN rules : ~rules[i].persist}
  <2>1. keep \in SUBSET (DOMAIN rules) /\ rules' = Retain(rules, keep)
    BY <1>2 DEF Healthy, Temporary
  <2> HIDE DEF keep
  <2> QED
    BY <2>1, KeptRules
<1> QED
  BY <1>1, <1>2

\* An installation puts the loaded rules behind the temporary ones.
LEMMA InstallRules ==
    ASSUME IInv, NEW x \in Requests \cup {None}, Install(x)
    PROVE  rules' \in Seq(RuleType) /\ RulesOK' /\ StoredStep
<1> DEFINE T == Temporary(rules)
           L == loads[x].stored
           V == FromVault(L)
<1>0. /\ rules \in Seq(RuleType) /\ loads \in [Requests \cup {None} -> LoadType]
      /\ OneOfAKey(vault) /\ (loads[x].at # "loaded" => L = <<>>)
  BY DEF IInv, TypeOK, RulesOK, LoadsOK
<1>1. /\ rules' = T \o V /\ vault' = vault /\ loads[x].at # "idle"
      /\ known' = (known \/ loads[x].at = "loaded")
      /\ loads' = [loads EXCEPT ![x] = NoLoad]
  BY DEF Install, disk
<1>2. T \in Seq(RuleType) /\ \A n \in DOMAIN T : ~T[n].persist
  BY <1>0, TemporaryFacts
<1>9. L \in Seq(StoredType)
  <2>1. loads[x] \in LoadType
    BY <1>0
  <2> QED
    BY <2>1 DEF LoadType
<1> HIDE DEF L
<1>3. ASSUME NEW i \in DOMAIN L
      PROVE  /\ V[i] \in RuleType /\ V[i].conn = None /\ Stored(V[i]) = L[i]
  <2>1. L[i] \in StoredType
    BY <1>9
  <2>2. V[i] = [key |-> L[i].key, action |-> L[i].action,
                decision |-> L[i].decision, persist |-> TRUE, conn |-> None]
    BY DEF FromVault
  <2> QED
    BY <2>1, <2>2 DEF StoredType, RuleType, Stored
<1>4. V \in Seq(RuleType) /\ DOMAIN V = DOMAIN L
  <2>1. DOMAIN V = 1..Len(L) /\ Len(L) \in Nat /\ DOMAIN L = 1..Len(L)
    BY <1>9 DEF FromVault
  <2>2. V = [i \in 1..Len(L) |-> V[i]]
    BY <2>1 DEF FromVault
  <2> HIDE DEF V
  <2> QED
    BY <1>3, <2>1, <2>2
<1> HIDE DEF T, V
<1>5. rules' \in Seq(RuleType)
  BY <1>1, <1>2, <1>4
<1>6. ASSUME NEW n \in DOMAIN rules', rules'[n].persist
      PROVE  rules'[n].conn = None /\ \E j \in DOMAIN L : Stored(rules'[n]) = L[j]
  <2>3. n > Len(T) /\ n - Len(T) \in DOMAIN V /\ rules'[n] = V[n - Len(T)]
    <3>1. n \in 1..(Len(T) + Len(V)) /\ Len(T) \in Nat /\ Len(V) \in Nat
      BY <1>1, <1>2, <1>4
    <3>2. n <= Len(T) => n \in DOMAIN T /\ rules'[n] = T[n]
      BY <1>1, <1>2, <1>4, <3>1
    <3>3. n > Len(T)
      BY <1>2, <1>6, <3>1, <3>2
    <3> QED
      BY <1>1, <1>2, <1>4, <3>1, <3>3
  <2> QED
    BY <1>3, <1>4, <2>3
<1>7. RulesOK'
  <2>1. Durable'
    BY <1>6 DEF Durable
  <2>2. OneOfAKey(vault)'
    BY <1>0, <1>1 DEF OneOfAKey
  <2> QED
    BY <2>1, <2>2 DEF RulesOK
<1>8. L = vault \/ loads[x].at # "loaded" => Unstored' = {}
  <2>1. loads[x].at # "loaded" => \A n \in DOMAIN rules' : ~rules'[n].persist
    <3>1. L = <<>> => DOMAIN L = {}
      BY <1>9
    <3>2. loads[x].at # "loaded" => L = <<>>
      BY <1>0 DEF L
    <3>3. DOMAIN L = {} => \A n \in DOMAIN rules' : ~rules'[n].persist
      BY <1>6
    <3> QED
      BY <3>1, <3>2, <3>3
  <2> QED
    BY <1>1, <1>6, <2>1 DEF Unstored
<1>10. loads[x].at = "loaded" /\ L # vault => InstallsStale
  <2>1. loads'[x] = NoLoad /\ loads'[x].at = "idle" /\ x \in DOMAIN loads
    BY <1>0, <1>1 DEF NoLoad
  <2> QED
    BY <1>1, <2>1 DEF InstallsStale, InstallsLoad, L
<1>11. InstallsFresh => L = vault
  <2> SUFFICES ASSUME NEW y \in DOMAIN loads, InstallsLoad(y), loads[y].stored = vault
               PROVE  L = vault
    BY DEF InstallsFresh
  <2>1. y = x
    BY <1>0, <1>1 DEF InstallsLoad
  <2> QED
    BY <2>1 DEF L
<1> QED
  BY <1>5, <1>7, <1>8, <1>10, <1>11 DEF StoredStep

\* remove_rule on the file as it is read.
LEMMA WithoutFacts ==
    ASSUME IInv, NEW k
    PROVE  /\ Without(k) \in Seq(StoredType) /\ OneOfAKey(Without(k))
           /\ \A n \in DOMAIN Without(k) : Without(k)[n].key # k
           /\ vaultState = "missing" \/
              \A j \in DOMAIN vault : vault[j].key # k =>
                 \E n \in DOMAIN Without(k) : Without(k)[n] = vault[j]
<1> DEFINE R == Readable
           keep == {i \in DOMAIN R : R[i].key # k}
           W == Retain(R, keep)
<1>1. R \in Seq(StoredType) /\ OneOfAKey(R) /\ (vaultState # "missing" => R = vault)
  BY DEF IInv, TypeOK, RulesOK, Readable, OneOfAKey
<1>2. Without(k) = W
  BY DEF Without
<1> HIDE DEF R
<1>5. keep \in SUBSET (DOMAIN R) /\ \A i \in keep : R[i].key # k
  OBVIOUS
<1>3. /\ W \in Seq(StoredType)
      /\ \E pick \in [DOMAIN W -> keep] :
            /\ \A n \in DOMAIN W : W[n] = R[pick[n]]
            /\ \A m, n \in DOMAIN W : pick[m] = pick[n] => m = n
            /\ \A i \in keep : \E n \in DOMAIN W : pick[n] = i
  <2> HIDE DEF keep
  <2> QED
    BY <1>1, <1>5, RetainFacts
<1> HIDE DEF W
<1>4. PICK pick \in [DOMAIN W -> keep] :
            /\ \A n \in DOMAIN W : W[n] = R[pick[n]]
            /\ \A m, n \in DOMAIN W : pick[m] = pick[n] => m = n
            /\ \A i \in keep : \E n \in DOMAIN W : pick[n] = i
  BY <1>3
<1>6. \A j \in keep : \E n \in DOMAIN W : W[n] = R[j]
  <2> HIDE DEF keep
  <2> QED
    BY <1>4
<1>7. (\A n \in DOMAIN W : W[n].key # k) /\ OneOfAKey(W)
  <2>1. \A n \in DOMAIN W : pick[n] \in DOMAIN R /\ R[pick[n]].key # k
    BY <1>4, <1>5
  <2> HIDE DEF keep
  <2> QED
    BY <1>1, <1>4, <2>1 DEF OneOfAKey
<1> QED
  BY <1>1, <1>2, <1>3, <1>6, <1>7

\* A missing file that is written is written anew, or was empty.
LEMMA RemovedFacts ==
    ASSUME IInv, NEW k, WriteVault(Without(k))
    PROVE  /\ vault' \in Seq(StoredType) /\ OneOfAKey(vault)' /\ vaultState' = "ok"
           /\ \A j \in DOMAIN vault : vault[j].key # k =>
                 RecreatesVault \/ \E n \in DOMAIN vault' : vault'[n] = vault[j]
<1>1. vault' = Without(k) /\ vaultState' = "ok"
  BY DEF WriteVault
<1>2. vault' \in Seq(StoredType) /\ OneOfAKey(vault)'
  BY <1>1, WithoutFacts DEF OneOfAKey
<1>3. ASSUME NEW j \in DOMAIN vault, vault[j].key # k, ~RecreatesVault
      PROVE  \E n \in DOMAIN vault' : vault'[n] = vault[j]
  <2>1. CASE vaultState = "missing"
    BY <1>1, <1>3, <2>1 DEF RecreatesVault
  <2>2. CASE vaultState # "missing"
    BY <1>1, <1>3, <2>2, WithoutFacts
  <2> QED
    BY <2>1, <2>2
<1> QED
  BY <1>1, <1>2, <1>3

\* append_rule: the rule is in the file, and so is every rule of another key,
\* unless the file was missing.
LEMMA PersistFacts ==
    ASSUME IInv, NEW rule \in RuleType, Persist(rule)
    PROVE  /\ vault' \in Seq(StoredType) /\ OneOfAKey(vault)' /\ vaultState' = "ok"
           /\ \E n \in DOMAIN vault' : Stored(rule) = vault'[n]
           /\ \A j \in DOMAIN vault : vault[j].key # rule.key =>
                 RecreatesVault \/ \E n \in DOMAIN vault' : vault'[n] = vault[j]
<1> DEFINE W == Without(rule.key)
<1>1. Stored(rule) \in StoredType /\ Stored(rule).key = rule.key
  BY DEF Stored, RuleType, StoredType
<1>2. vault' = Append(W, Stored(rule)) /\ vaultState' = "ok"
  BY DEF Persist, WriteVault
<1>3. /\ W \in Seq(StoredType) /\ OneOfAKey(W) /\ \A n \in DOMAIN W : W[n].key # rule.key
      /\ vaultState = "missing" \/
         \A j \in DOMAIN vault : vault[j].key # rule.key => \E n \in DOMAIN W : W[n] = vault[j]
  BY WithoutFacts
<1> HIDE DEF W
<1>4. /\ vault' \in Seq(StoredType) /\ Len(W) + 1 \in DOMAIN vault'
      /\ vault'[Len(W) + 1] = Stored(rule)
      /\ DOMAIN vault' = DOMAIN W \cup {Len(W) + 1}
      /\ \A n \in DOMAIN W : n \in DOMAIN vault' /\ vault'[n] = W[n]
  BY <1>1, <1>2, <1>3
<1>5. OneOfAKey(vault)'
  <2> SUFFICES ASSUME NEW i \in DOMAIN vault', NEW j \in DOMAIN vault',
                      vault'[i].key = vault'[j].key
               PROVE  i = j
    BY DEF OneOfAKey
  <2> QED
    BY <1>1, <1>3, <1>4 DEF OneOfAKey
<1>6. ASSUME NEW j \in DOMAIN vault, vault[j].key # rule.key, ~RecreatesVault
      PROVE  \E n \in DOMAIN vault' : vault'[n] = vault[j]
  <2>1. CASE vaultState = "missing"
    BY <1>2, <1>6, <2>1 DEF RecreatesVault
  <2>2. CASE vaultState # "missing"
    BY <1>3, <1>4, <1>6, <2>2
  <2> QED
    BY <2>1, <2>2
<1> QED
  BY <1>2, <1>4, <1>5, <1>6

\* install_rule, together with what became of the file.
LEMMA InstalledRules ==
    ASSUME IInv, NEW rule \in RuleType, rule.persist => rule.conn = None,
           rules' = Installed(rules, rule),
           IF rule.persist THEN Persist(rule) ELSE UNCHANGED vault
    PROVE  rules' \in Seq(RuleType) /\ vault' \in Seq(StoredType) /\ RulesOK' /\ KeptStep
<1> DEFINE keep == {i \in DOMAIN rules : ~SameSlot(rules[i], rule)}
           K == Retain(rules, keep)
<1>0. rules \in Seq(RuleType) /\ vault \in Seq(StoredType) /\ Durable /\ OneOfAKey(vault)
  BY DEF IInv, TypeOK, RulesOK
<1>1. keep \in SUBSET (DOMAIN rules) /\ \A i \in keep : ~SameSlot(rules[i], rule)
  OBVIOUS
<1>2. rules' = Append(K, rule)
  BY DEF Installed
<1> HIDE DEF keep
<1>3. /\ K \in Seq(RuleType)
      /\ \E pick \in [DOMAIN K -> keep] : \A n \in DOMAIN K : K[n] = rules[pick[n]]
  <2>1. rules \in Seq(RuleType) /\ keep \in SUBSET (DOMAIN rules)
    BY <1>0, <1>1
  <2> QED
    BY <2>1, RetainFacts
<1> HIDE DEF K
<1>4. PICK pick \in [DOMAIN K -> keep] : \A n \in DOMAIN K : K[n] = rules[pick[n]]
  BY <1>3
<1>5. /\ rules' \in Seq(RuleType) /\ DOMAIN rules' = DOMAIN K \cup {Len(K) + 1}
      /\ Len(K) + 1 \notin DOMAIN K /\ rules'[Len(K) + 1] = rule
      /\ \A n \in DOMAIN K : rules'[n] = K[n]
  BY <1>2, <1>3
<1>6. \A n \in DOMAIN K : /\ pick[n] \in DOMAIN rules /\ rules'[n] = rules[pick[n]]
                          /\ ~SameSlot(rules'[n], rule)
  BY <1>1, <1>4, <1>5
<1>8. Durable'
  BY <1>0, <1>5, <1>6 DEF Durable
<1>9. vault' \in Seq(StoredType) /\ OneOfAKey(vault)'
  BY <1>0, PersistFacts DEF OneOfAKey
<1>10. ASSUME AllStored, NEW i \in DOMAIN rules', rules'[i].persist, ~RecreatesVault
       PROVE  \E j \in DOMAIN vault' : Stored(rules'[i]) = vault'[j]
  <2>1. CASE i = Len(K) + 1
    BY <1>5, <1>10, <2>1, PersistFacts
  <2>2. CASE i \in DOMAIN K
    <3>1. PICK j \in DOMAIN vault : Stored(rules'[i]) = vault[j]
      BY <1>6, <1>10, <2>2 DEF AllStored
    <3>2. CASE ~rule.persist
      BY <3>1, <3>2
    <3>3. CASE rule.persist
      <4>1. rules'[i].conn = None /\ rules'[i].key # rule.key
        BY <1>6, <1>8, <1>10, <2>2, <3>3 DEF Durable, SameSlot
      <4>2. vault[j].key = rules'[i].key
        BY <3>1 DEF Stored
      <4> QED
        BY <1>10, <3>1, <3>3, <4>1, <4>2, PersistFacts
    <3> QED
      BY <3>2, <3>3
  <2> QED
    BY <1>5, <2>1, <2>2
<1>11. KeptStep
  BY <1>10 DEF KeptStep, Excuse
<1> QED
  BY <1>5, <1>8, <1>9, <1>11 DEF RulesOK

\* An edit that finds another durable rule in memory, under a slot of its own,
\* finds it under another key.
LEMMA OtherKey ==
    ASSUME IInv, NEW i \in DOMAIN rules, rules[i].conn = None,
           NEW n \in DOMAIN rules \ {i}, rules[n].persist, ~Doubled(rules[n].key)
    PROVE  rules[n].key # rules[i].key
BY DEF IInv, RulesOK, Doubled, Durable, SameSlot

LEMMA RevokeRules ==
    ASSUME IInv, NEW i \in DOMAIN rules, Revoke(i)
    PROVE  rules' \in Seq(RuleType) /\ vault' \in Seq(StoredType) /\ RulesOK' /\ KeptStep
<1>0. rules \in Seq(RuleType) /\ vault \in Seq(StoredType) /\ Durable /\ OneOfAKey(vault)
  BY DEF IInv, TypeOK, RulesOK
<1> DEFINE k == rules[i].key
<1>1. /\ IF rules[i].persist THEN WriteVault(Without(k)) ELSE UNCHANGED vault
      /\ rules' = IF rules[i].persist /\ ~VaultHas(k) THEN rules ELSE RemoveAt(rules, i)
  BY DEF Revoke, disk
<1>6. vault' \in Seq(StoredType) /\ OneOfAKey(vault)'
  BY <1>0, <1>1, RemovedFacts DEF OneOfAKey
<1>7. ASSUME NEW m \in DOMAIN rules, m # i \/ ~VaultHas(k), rules[m].persist, AllStored,
             ~Excuse(rules[m].key)
      PROVE  \E j \in DOMAIN vault' : Stored(rules[m]) = vault'[j]
  <2>1. PICK j \in DOMAIN vault : Stored(rules[m]) = vault[j]
    BY <1>7 DEF AllStored
  <2>2. CASE ~rules[i].persist
    BY <1>1, <2>1, <2>2
  <2>3. CASE rules[i].persist /\ m # i
    <3>1. rules[i].conn = None /\ ~Doubled(rules[m].key) /\ ~RecreatesVault
      BY <1>0, <1>7, <2>3 DEF Durable, Excuse
    <3>2. rules[m].key # k
      BY <1>7, <2>3, <3>1, OtherKey
    <3>3. vault[j].key # k
      BY <2>1, <3>2 DEF Stored
    <3> QED
      BY <1>1, <2>1, <2>3, <3>1, <3>3, RemovedFacts
  <2>4. CASE rules[i].persist /\ m = i
    <3>1. ~VaultHas(k) /\ vault[j].key = k /\ ~RecreatesVault
      BY <1>7, <2>1, <2>4 DEF Stored, Excuse
    <3>2. vaultState = "missing"
      BY <3>1 DEF VaultHas, Readable
    <3>3. vault' = vault
      BY <1>1, <2>4, <3>1, <3>2 DEF RecreatesVault, WriteVault
    <3> QED
      BY <2>1, <3>3
  <2> QED
    BY <2>2, <2>3, <2>4
<1>8. CASE rules[i].persist /\ ~VaultHas(k)
  <2>1. rules' = rules
    BY <1>1, <1>8
  <2>2. KeptStep
    BY <1>7, <1>8, <2>1 DEF KeptStep
  <2> QED
    BY <1>0, <1>6, <2>1, <2>2 DEF RulesOK, Durable
<1>9. CASE ~(rules[i].persist /\ ~VaultHas(k))
  <2> DEFINE old(n) == IF n < i THEN n ELSE n + 1
  <2>0. rules' = RemoveAt(rules, i)
    BY <1>1, <1>9
  <2>2. /\ rules' \in Seq(RuleType)
        /\ \A n \in DOMAIN rules' :
              old(n) \in DOMAIN rules \ {i} /\ rules'[n] = rules[old(n)]
    <3>1. i \in 1..Len(rules) /\ Len(rules) \in Nat
      BY <1>0
    <3>2. rules' = SubSeq(rules, 1, i - 1) \o SubSeq(rules, i + 1, Len(rules))
      BY <2>0 DEF RemoveAt
    <3> DEFINE A == SubSeq(rules, 1, i - 1)
               B == SubSeq(rules, i + 1, Len(rules))
    <3>3. A \in Seq(RuleType) /\ Len(A) = i - 1 /\ \A n \in 1..(i-1) : A[n] = rules[n]
      BY <1>0, <3>1
    <3>4. /\ B \in Seq(RuleType) /\ Len(B) = Len(rules) - i
          /\ \A n \in 1..(Len(rules) - i) : B[n] = rules[i + n]
      BY <1>0, <3>1
    <3>7. rules' = A \o B
      BY <3>2
    <3> HIDE DEF A, B
    <3>5. /\ rules' \in Seq(RuleType) /\ DOMAIN rules' = 1..(Len(rules) - 1)
          /\ \A n \in 1..(Len(rules) - 1) :
                rules'[n] = IF n <= i - 1 THEN A[n] ELSE B[n - (i - 1)]
      <4>1. /\ A \o B \in Seq(RuleType) /\ Len(A \o B) = Len(A) + Len(B)
            /\ \A n \in 1..(Len(A) + Len(B)) :
                  (A \o B)[n] = IF n <= Len(A) THEN A[n] ELSE B[n - Len(A)]
        BY <3>3, <3>4, ConcatProperties
      <4>2. Len(A) + Len(B) = Len(rules) - 1
        BY <3>1, <3>3, <3>4
      <4>3. DOMAIN rules' = 1..Len(rules')
        BY <3>7, <4>1
      <4> QED
        BY <3>3, <3>7, <4>1, <4>2, <4>3
    <3>6. ASSUME NEW n \in 1..(Len(rules) - 1)
          PROVE  old(n) \in DOMAIN rules \ {i} /\ rules'[n] = rules[old(n)]
      <4>1. old(n) \in 1..Len(rules) /\ old(n) # i
        BY <3>1
      <4>2. CASE n < i
        BY <3>1, <3>3, <3>5, <4>2
      <4>3. CASE ~(n < i)
        <5>1. n - (i - 1) \in 1..(Len(rules) - i) /\ i + (n - (i - 1)) = n + 1
          BY <3>1, <4>3
        <5> QED
          BY <3>1, <3>4, <3>5, <4>3, <5>1
      <4> QED
        BY <1>0, <4>1, <4>2, <4>3
    <3> QED
      BY <3>5, <3>6
  <2> HIDE DEF old
  <2>3. Durable'
    BY <1>0, <2>2 DEF Durable
  <2>4. KeptStep
    BY <1>7, <2>2 DEF KeptStep
  <2> QED
    BY <1>6, <2>2, <2>3, <2>4 DEF RulesOK
<1> QED
  BY <1>8, <1>9

\* One rule changes in place.
LEMMA ReplacedRule ==
    ASSUME IInv, NEW i \in DOMAIN rules, NEW x \in RuleType, rules' = [rules EXCEPT ![i] = x],
           x.persist => x.conn = None,
           AllStored /\ x.persist =>
               Excuse(x.key) \/ \E j \in DOMAIN vault' : Stored(x) = vault'[j],
           \A n \in DOMAIN rules \ {i}, j \in DOMAIN vault :
               rules[n].persist /\ Stored(rules[n]) = vault[j] =>
                   Excuse(rules[n].key) \/ \E m \in DOMAIN vault' : vault'[m] = vault[j]
    PROVE  rules' \in Seq(RuleType) /\ Durable' /\ KeptStep
<1>0. rules \in Seq(RuleType) /\ Durable
  BY DEF IInv, TypeOK, RulesOK
<1>1. /\ rules' \in Seq(RuleType) /\ DOMAIN rules' = DOMAIN rules /\ rules'[i] = x
      /\ \A n \in DOMAIN rules \ {i} : rules'[n] = rules[n]
  BY <1>0
<1>3. Durable'
  BY <1>0, <1>1 DEF Durable
<1>4. ASSUME AllStored, NEW n \in DOMAIN rules', rules'[n].persist, ~Excuse(rules'[n].key)
      PROVE  \E j \in DOMAIN vault' : Stored(rules'[n]) = vault'[j]
  <2>1. CASE n = i
    BY <1>1, <1>4, <2>1
  <2>2. CASE n # i
    <3>1. rules'[n] = rules[n] /\ n \in DOMAIN rules \ {i}
      BY <1>1, <1>4, <2>2
    <3>2. PICK j \in DOMAIN vault : Stored(rules[n]) = vault[j]
      BY <1>4, <3>1 DEF AllStored
    <3>3. PICK m \in DOMAIN vault' : vault'[m] = vault[j]
      BY <1>4, <3>1, <3>2
    <3> QED
      BY <3>1, <3>2, <3>3
  <2> QED
    BY <2>1, <2>2
<1> QED
  BY <1>1, <1>3, <1>4 DEF KeptStep

\* A sequence of the same length with elements of the same set.
LEMMA SameLengthSeq ==
    ASSUME NEW S, NEW s \in Seq(S), NEW t, t = [j \in DOMAIN s |-> t[j]],
           \A j \in DOMAIN s : t[j] \in S
    PROVE  t \in Seq(S) /\ DOMAIN t = DOMAIN s
<1>1. DOMAIN s = 1..Len(s) /\ Len(s) \in Nat
  OBVIOUS
<1>2. t = [j \in 1..Len(s) |-> t[j]] /\ \A j \in 1..Len(s) : t[j] \in S
  BY <1>1
<1>3. t \in Seq(S)
  BY <1>1, <1>2, IsASeq
<1> QED
  BY <1>1, <1>2, <1>3

LEMMA UpdateDecisionRules ==
    ASSUME IInv, NEW i \in DOMAIN rules, NEW d \in Decisions, UpdateDecision(i, d)
    PROVE  rules' \in Seq(RuleType) /\ vault' \in Seq(StoredType) /\ RulesOK' /\ KeptStep
<1> DEFINE x == [rules[i] EXCEPT !.decision = d]
           k == rules[i].key
           upd(j) == [vault[j] EXCEPT !.decision = d]
<1>0. rules \in Seq(RuleType) /\ vault \in Seq(StoredType) /\ Durable /\ OneOfAKey(vault)
  BY DEF IInv, TypeOK, RulesOK
<1>1. /\ rules' = [rules EXCEPT ![i].decision = d]
      /\ IF rules[i].persist
         THEN vault' = [j \in DOMAIN vault |-> IF vault[j].key = k THEN upd(j) ELSE vault[j]]
         ELSE UNCHANGED vault
  BY DEF UpdateDecision, WriteVault, disk
<1>2. rules[i] \in RuleType
  BY <1>0
<1>3. /\ x \in RuleType /\ x.key = k /\ x.action = rules[i].action /\ x.decision = d
      /\ (x.persist <=> rules[i].persist) /\ x.conn = rules[i].conn
  BY <1>2 DEF RuleType
<1>4. rules' = [rules EXCEPT ![i] = x]
  BY <1>1
<1> HIDE DEF x
<1>5. ASSUME NEW j \in DOMAIN vault
      PROVE  /\ upd(j) \in StoredType /\ vault[j] \in StoredType /\ upd(j).key = vault[j].key
             /\ upd(j) = [key |-> vault[j].key, action |-> vault[j].action, decision |-> d]
  <2>1. vault[j] \in StoredType
    BY <1>0
  <2> QED
    BY <2>1 DEF StoredType
<1> HIDE DEF upd
<1>6. vault' \in Seq(StoredType) /\ DOMAIN vault' = DOMAIN vault
  <2>1. CASE ~rules[i].persist
    BY <1>0, <1>1, <2>1
  <2>2. CASE rules[i].persist
    <3>1. vault' = [j \in DOMAIN vault |-> vault'[j]]
      BY <1>1, <2>2
    <3>2. \A j \in DOMAIN vault : vault'[j] \in StoredType
      BY <1>1, <1>5, <2>2
    <3> QED
      BY <1>0, <3>1, <3>2, SameLengthSeq
  <2> QED
    BY <2>1, <2>2
<1>7. OneOfAKey(vault)'
  <2>1. \A j \in DOMAIN vault : vault'[j].key = vault[j].key
    BY <1>1, <1>5
  <2> QED
    BY <1>0, <1>6, <2>1 DEF OneOfAKey
<1>8. x.persist => x.conn = None
  BY <1>0, <1>3 DEF Durable
<1>9. ASSUME AllStored, x.persist PROVE \E j \in DOMAIN vault' : Stored(x) = vault'[j]
  <2>1. PICK j \in DOMAIN vault : Stored(rules[i]) = vault[j]
    BY <1>3, <1>9 DEF AllStored
  <2>2. vault[j].key = k /\ vault[j].action = rules[i].action
    BY <2>1 DEF Stored
  <2>3. vault'[j] = upd(j)
    BY <1>1, <1>3, <1>9, <2>2
  <2>4. Stored(x) = vault'[j]
    BY <1>3, <1>5, <2>2, <2>3 DEF Stored
  <2> QED
    BY <1>6, <2>4
<1>10. ASSUME NEW n \in DOMAIN rules \ {i}, NEW j \in DOMAIN vault,
              rules[n].persist, Stored(rules[n]) = vault[j], ~Excuse(rules[n].key)
       PROVE  \E m \in DOMAIN vault' : vault'[m] = vault[j]
  <2>1. CASE ~rules[i].persist
    BY <1>1, <2>1
  <2>2. CASE rules[i].persist
    <3>1. rules[i].conn = None /\ ~Doubled(rules[n].key)
      BY <1>0, <1>10, <2>2 DEF Durable, Excuse
    <3>2. vault[j].key # k
      BY <1>10, <3>1, OtherKey DEF Stored
    <3> QED
      BY <1>1, <1>6, <2>2, <3>2
  <2> QED
    BY <2>1, <2>2
<1>11. rules' \in Seq(RuleType) /\ Durable' /\ KeptStep
  BY <1>3, <1>4, <1>8, <1>9, <1>10, ReplacedRule
<1> QED
  BY <1>6, <1>7, <1>11 DEF RulesOK

LEMMA UpdateScopeRules ==
    ASSUME IInv, NEW i \in DOMAIN rules, NEW durable \in BOOLEAN, UpdateScope(i, durable)
    PROVE  rules' \in Seq(RuleType) /\ vault' \in Seq(StoredType) /\ RulesOK' /\ KeptStep
<1> DEFINE x == [rules[i] EXCEPT !.persist = durable]
           k == rules[i].key
<1>0. rules \in Seq(RuleType) /\ vault \in Seq(StoredType) /\ Durable /\ OneOfAKey(vault)
  BY DEF IInv, TypeOK, RulesOK
<1>1. /\ rules[i].conn = None /\ rules[i].persist # durable
      /\ IF durable THEN Persist(rules[i]) ELSE WriteVault(Without(k))
      /\ rules' = IF ~durable /\ ~VaultHas(k) THEN rules
                  ELSE [rules EXCEPT ![i].persist = durable]
  BY DEF UpdateScope
<1>2. rules[i] \in RuleType
  BY <1>0
<1>3. /\ x \in RuleType /\ x.key = k /\ x.action = rules[i].action
      /\ x.decision = rules[i].decision /\ (x.persist <=> durable) /\ x.conn = None
  BY <1>1, <1>2 DEF RuleType
<1>5. vault' \in Seq(StoredType) /\ OneOfAKey(vault)' /\ vaultState' = "ok"
  BY <1>1, <1>2, PersistFacts, RemovedFacts
<1>8. ASSUME NEW n \in DOMAIN rules \ {i}, NEW j \in DOMAIN vault,
             rules[n].persist, Stored(rules[n]) = vault[j], ~Excuse(rules[n].key)
      PROVE  \E m \in DOMAIN vault' : vault'[m] = vault[j]
  <2>1. vault[j].key # k
    BY <1>1, <1>8, OtherKey DEF Stored, Excuse
  <2> QED
    BY <1>1, <1>2, <1>8, <2>1, PersistFacts, RemovedFacts DEF Excuse
<1>9. CASE ~durable /\ ~VaultHas(k)
  <2>1. rules' = rules
    BY <1>1, <1>9
  <2>2. ASSUME AllStored, NEW n \in DOMAIN rules, rules[n].persist, ~Excuse(rules[n].key)
        PROVE  \E j \in DOMAIN vault' : Stored(rules[n]) = vault'[j]
    <3>1. PICK j \in DOMAIN vault : Stored(rules[n]) = vault[j]
      BY <2>2 DEF AllStored
    <3>2. CASE n # i
      BY <1>8, <2>2, <3>1, <3>2
    <3>3. CASE n = i
      <4>1. vault[j].key = k /\ ~RecreatesVault
        BY <2>2, <3>1, <3>3 DEF Stored, Excuse
      <4>2. vaultState = "missing"
        BY <1>9, <4>1 DEF VaultHas, Readable
      <4>3. vault' = vault
        BY <1>5, <4>1, <4>2 DEF RecreatesVault
      <4> QED
        BY <3>1, <4>3
    <3> QED
      BY <3>2, <3>3
  <2>3. KeptStep
    BY <2>1, <2>2 DEF KeptStep
  <2> QED
    BY <1>0, <1>5, <2>1, <2>3 DEF RulesOK, Durable
<1>10. CASE ~(~durable /\ ~VaultHas(k))
  <2>1. rules' = [rules EXCEPT ![i] = x]
    BY <1>1, <1>10
  <2> HIDE DEF x
  <2>2. ASSUME x.persist PROVE \E j \in DOMAIN vault' : Stored(x) = vault'[j]
    <3>1. Stored(x) = Stored(rules[i])
      BY <1>3 DEF Stored
    <3> QED
      BY <1>1, <1>2, <1>3, <2>2, <3>1, PersistFacts
  <2>3. rules' \in Seq(RuleType) /\ Durable' /\ KeptStep
    BY <1>3, <1>8, <2>1, <2>2, ReplacedRule
  <2> QED
    BY <1>5, <2>3 DEF RulesOK
<1> QED
  BY <1>9, <1>10

\* Of the rules of one key, dedupe keeps the last.
LEMMA DedupedFacts ==
    ASSUME NEW v \in Seq(StoredType)
    PROVE  /\ Deduped(v) \in Seq(StoredType) /\ OneOfAKey(Deduped(v))
           /\ \A i \in DOMAIN v :
                 (\A j \in DOMAIN v : i < j => v[j].key # v[i].key) =>
                     \E n \in DOMAIN Deduped(v) : Deduped(v)[n] = v[i]
<1> DEFINE keep == {i \in DOMAIN v : \A j \in DOMAIN v : i < j => v[j].key # v[i].key}
           D == Retain(v, keep)
<1>1. Deduped(v) = D
  BY DEF Deduped
<1>2. /\ keep \in SUBSET (DOMAIN v)
      /\ \A i, j \in keep : i < j => v[j].key # v[i].key
  OBVIOUS
<1>3. /\ D \in Seq(StoredType)
      /\ \E pick \in [DOMAIN D -> keep] :
            /\ \A n \in DOMAIN D : D[n] = v[pick[n]]
            /\ \A m, n \in DOMAIN D : pick[m] = pick[n] => m = n
            /\ \A i \in keep : \E n \in DOMAIN D : pick[n] = i
  <2> HIDE DEF keep
  <2> QED
    BY <1>2, RetainFacts
<1> HIDE DEF D
<1>4. PICK pick \in [DOMAIN D -> keep] :
            /\ \A n \in DOMAIN D : D[n] = v[pick[n]]
            /\ \A m, n \in DOMAIN D : pick[m] = pick[n] => m = n
            /\ \A i \in keep : \E n \in DOMAIN D : pick[n] = i
  BY <1>3
<1>5. \A i \in keep : \E n \in DOMAIN D : D[n] = v[i]
  <2> HIDE DEF keep
  <2> QED
    BY <1>4
<1>6. OneOfAKey(D)
  <2> SUFFICES ASSUME NEW m \in DOMAIN D, NEW n \in DOMAIN D, D[m].key = D[n].key
               PROVE  m = n
    BY DEF OneOfAKey
  <2>1. pick[m] \in keep /\ pick[n] \in keep /\ v[pick[m]].key = v[pick[n]].key
    <3> HIDE DEF keep
    <3> QED
      BY <1>4
  <2>2. pick[m] \in Nat /\ pick[n] \in Nat
    BY <2>1
  <2>3. pick[m] = pick[n]
    <3> HIDE DEF keep
    <3> QED
      BY <1>2, <2>1, <2>2
  <2> QED
    BY <1>4, <2>3
<1> QED
  BY <1>1, <1>3, <1>5, <1>6

LEMMA UpdatePatternRules ==
    ASSUME IInv, NEW i \in DOMAIN rules, NEW k \in Keys, UpdatePattern(i, k)
    PROVE  rules' \in Seq(RuleType) /\ vault' \in Seq(StoredType) /\ RulesOK' /\ KeptStep
<1> DEFINE x == [rules[i] EXCEPT !.key = k]
           was == rules[i].key
           upd(j) == [vault[j] EXCEPT !.key = k]
           U == [j \in DOMAIN vault |-> IF vault[j].key = was THEN upd(j) ELSE vault[j]]
<1>0. rules \in Seq(RuleType) /\ vault \in Seq(StoredType) /\ Durable /\ OneOfAKey(vault)
  BY DEF IInv, TypeOK, RulesOK
<1>1. /\ rules' = [rules EXCEPT ![i].key = k]
      /\ \A n \in DOMAIN rules \ {i} : ~SameSlot(rules[n], x)
      /\ IF rules[i].persist THEN vault' = Deduped(U) /\ VaultHas(was) ELSE UNCHANGED vault
  BY DEF UpdatePattern, WriteVault, disk
<1>2. rules[i] \in RuleType
  BY <1>0
<1>3. /\ x \in RuleType /\ x.key = k /\ x.action = rules[i].action
      /\ x.decision = rules[i].decision
      /\ (x.persist <=> rules[i].persist) /\ x.conn = rules[i].conn
  BY <1>2 DEF RuleType
<1>4. rules' = [rules EXCEPT ![i] = x]
  BY <1>1
<1> HIDE DEF x
<1>5. ASSUME NEW j \in DOMAIN vault
      PROVE  /\ upd(j) \in StoredType /\ vault[j] \in StoredType
             /\ upd(j) = [key |-> k, action |-> vault[j].action, decision |-> vault[j].decision]
  <2>1. vault[j] \in StoredType
    BY <1>0
  <2> QED
    BY <2>1 DEF StoredType
<1> HIDE DEF upd
<1>6. U \in Seq(StoredType) /\ DOMAIN U = DOMAIN vault
  <2>1. U = [j \in DOMAIN vault |-> U[j]]
    OBVIOUS
  <2>2. \A j \in DOMAIN vault : U[j] \in StoredType
    BY <1>5
  <2> HIDE DEF U
  <2> QED
    BY <1>0, <2>1, <2>2, SameLengthSeq
<1>7. \A j \in DOMAIN vault :
         /\ vault[j].key = was => U[j] = upd(j) /\ U[j].key = k
         /\ vault[j].key # was => U[j] = vault[j]
  BY <1>5
<1> HIDE DEF U
<1>8. vault' \in Seq(StoredType) /\ OneOfAKey(vault)'
  <2>1. CASE ~rules[i].persist
    BY <1>0, <1>1, <2>1 DEF OneOfAKey
  <2>2. CASE rules[i].persist
    BY <1>1, <1>6, <2>2, DedupedFacts DEF OneOfAKey
  <2> QED
    BY <2>1, <2>2
<1>9. x.persist => x.conn = None
  BY <1>0, <1>3 DEF Durable
<1>10. ASSUME rules[i].persist, NEW n \in DOMAIN rules \ {i}, rules[n].persist
       PROVE  rules[n].key # k
  BY <1>0, <1>1, <1>3, <1>10 DEF Durable, SameSlot
<1>11. ASSUME AllStored, x.persist, ~Excuse(k)
       PROVE  \E j \in DOMAIN vault' : Stored(x) = vault'[j]
  <2>1. PICK j \in DOMAIN vault : Stored(rules[i]) = vault[j]
    BY <1>3, <1>11 DEF AllStored
  <2>2. /\ vault[j].key = was /\ vault[j].action = rules[i].action
        /\ vault[j].decision = rules[i].decision
    BY <2>1 DEF Stored
  <2>3. U[j] = upd(j) /\ U[j].key = k /\ Stored(x) = U[j]
    BY <1>3, <1>5, <1>7, <2>2 DEF Stored
  <2>4. ASSUME NEW m \in DOMAIN vault, j < m PROVE U[m].key # k
    <3> SUFFICES ASSUME U[m].key = k PROVE FALSE
      OBVIOUS
    <3>1. j \in Nat /\ m # j
      BY <1>0, <2>4
    <3>2. vault[m].key # was
      BY <1>0, <2>2, <3>1 DEF OneOfAKey
    <3>3. vault[m].key = k /\ k # was
      BY <1>7, <3>2
    <3>4. VaultHas(k)
      <4>1. Readable = vault
        BY <1>1, <1>3, <1>11 DEF VaultHas, Readable
      <4> QED
        BY <3>3, <4>1 DEF VaultHas
    <3>5. \A n \in DOMAIN rules : rules[n].persist => rules[n].key # k
      BY <1>3, <1>10, <1>11, <3>3
    <3> QED
      BY <1>11, <3>4, <3>5 DEF Excuse, Shadowed
  <2>5. rules[i].persist
    BY <1>3, <1>11
  <2> QED
    BY <1>1, <1>6, <2>3, <2>4, <2>5, DedupedFacts
<1>12. ASSUME NEW n \in DOMAIN rules \ {i}, NEW j \in DOMAIN vault,
              rules[n].persist, Stored(rules[n]) = vault[j], ~Excuse(rules[n].key)
       PROVE  \E m \in DOMAIN vault' : vault'[m] = vault[j]
  <2>1. CASE ~rules[i].persist
    BY <1>1, <2>1
  <2>2. CASE rules[i].persist
    <3>1. rules[i].conn = None /\ ~Doubled(rules[n].key)
      BY <1>0, <1>12, <2>2 DEF Durable, Excuse
    <3>2. vault[j].key # was /\ vault[j].key = rules[n].key
      BY <1>12, <3>1, OtherKey DEF Stored
    <3>3. U[j] = vault[j] /\ vault[j].key # k
      BY <1>7, <1>10, <1>12, <2>2, <3>2
    <3>4. ASSUME NEW m \in DOMAIN vault, j < m PROVE U[m].key # U[j].key
      <4>1. j \in Nat /\ m # j
        BY <1>0, <3>4
      <4>2. vault[m].key # vault[j].key
        BY <1>0, <4>1 DEF OneOfAKey
      <4> QED
        BY <1>7, <3>3, <4>2
    <3> QED
      BY <1>1, <1>6, <2>2, <3>3, <3>4, DedupedFacts
  <2> QED
    BY <2>1, <2>2
<1>13. rules' \in Seq(RuleType) /\ Durable' /\ KeptStep
  BY <1>3, <1>4, <1>9, <1>11, <1>12, ReplacedRule
<1> QED
  BY <1>8, <1>13 DEF RulesOK

-----------------------------------------------------------------------------
(* Asks, verdicts and deliveries.                                          *)

\* The invariant in three parts: asks, rules, and what is left.
AskState ==
    /\ queue \subseteq Requests
    /\ results \in [Requests -> Decisions \cup {None}]
    /\ verdict \in [Requests -> Decisions \cup {None}]
    /\ asks \in [Requests -> Places]
    /\ deliveries \subseteq DeliveryType
    /\ \A r \in Requests : AskOK(r)
    /\ NoLostWakeup

RuleState ==
    /\ rules \in Seq(RuleType) /\ vault \in Seq(StoredType)
    /\ RulesOK

Rest ==
    /\ reviews \subseteq Requests /\ vaultState \in {"ok", "locked", "missing"}
    /\ loads \in [Requests \cup {None} -> LoadType] /\ known \in BOOLEAN /\ LoadsOK
    /\ edits \in 0..MaxEdits /\ outages \in 0..MaxOutages

LEMMA Parts == IInv <=> AskState /\ RuleState /\ Rest
BY DEF IInv, TypeOK, AskState, RuleState, Rest

LEMMA PartsNext == AskState' /\ RuleState' /\ Rest' => IInv'
BY DEF IInv, TypeOK, AskState, RuleState, Rest

LEMMA NoneFacts == None \notin Decisions
BY PermissionAssumption

\* An ask goes to another place, and nothing else happens to it.
LEMMA MoveAsk ==
    ASSUME AskState, NEW r \in Requests, NEW place \in Places, Goto(r, place),
           UNCHANGED <<queue, results, deliveries, verdict>>,
           r \in queue => place \in Queued,
           place \in {"new", "loading", "asked"} => verdict[r] = None,
           place = "allow" => verdict[r] = "allow",
           place = "parked" => results[r] = None
    PROVE  AskState'
<1>1. /\ asks' \in [Requests -> Places] /\ asks'[r] = place
      /\ \A q \in Requests \ {r} : asks'[q] = asks[q]
  BY DEF AskState, Goto
<1>2. ASSUME NEW q \in Requests PROVE AskOK(q)'
  <2>1. AskOK(q)
    BY DEF AskState
  <2>2. CASE q = r
    BY <1>1, <2>1, <2>2 DEF AskOK
  <2>3. CASE q # r
    <3>1. asks'[q] = asks[q]
      BY <1>1, <2>3
    <3> QED
      BY <2>1, <3>1 DEF AskOK
  <2> QED
    BY <2>2, <2>3
<1>3. NoLostWakeup'
  BY <1>1 DEF AskState, NoLostWakeup
<1> QED
  BY <1>1, <1>2, <1>3 DEF AskState

\* An ask ends and takes its decision along.
LEMMA EndAsk ==
    ASSUME AskState, NEW r \in Requests \ queue, NEW place \in Ended, Goto(r, place),
           results' = [results EXCEPT ![r] = None], place = "allow" => verdict[r] = "allow",
           UNCHANGED <<queue, deliveries, verdict>>
    PROVE  AskState'
<1>1. /\ asks' \in [Requests -> Places] /\ asks'[r] = place
      /\ \A q \in Requests \ {r} : asks'[q] = asks[q]
      /\ results' \in [Requests -> Decisions \cup {None}] /\ results'[r] = None
      /\ \A q \in Requests \ {r} : results'[q] = results[q]
  BY DEF AskState, Goto, Ended, Decisions, Places
<1>2. ASSUME NEW q \in Requests PROVE AskOK(q)'
  <2>1. AskOK(q)
    BY DEF AskState
  <2>2. CASE q = r
    BY <1>1, <2>1, <2>2 DEF AskOK, Ended, Decisions
  <2>3. CASE q # r
    <3>1. asks'[q] = asks[q] /\ results'[q] = results[q]
      BY <1>1, <2>3
    <3> QED
      BY <2>1, <3>1 DEF AskOK
  <2> QED
    BY <2>2, <2>3
<1>3. NoLostWakeup'
  BY <1>1 DEF AskState, NoLostWakeup
<1> QED
  BY <1>1, <1>2, <1>3 DEF AskState

\* A waiter that finds a decision collects it.
LEMMA CollectAsk ==
    ASSUME AskState, NEW r \in Requests, Collect(r), UNCHANGED <<queue, deliveries, verdict>>
    PROVE  AskState'
<1>1. /\ results[r] # None /\ Goto(r, results[r])
      /\ results' = [results EXCEPT ![r] = None]
  BY DEF Collect
<1>2. AskOK(r) /\ results[r] \in Decisions
  BY <1>1 DEF AskState
<1>3. r \notin queue /\ verdict[r] = results[r] /\ results[r] \in Ended
  BY <1>1, <1>2 DEF AskOK, Ended
<1> QED
  BY <1>1, <1>3, EndAsk

\* A request that has no verdict yet gets it at once, from a rule or from its
\* own timeout.
LEMMA DecideAsk ==
    ASSUME AskState, NEW r \in Requests, verdict[r] = None, NEW d \in Decisions, Goto(r, d),
           verdict' = [verdict EXCEPT ![r] = d], queue' = queue \ {r},
           UNCHANGED <<results, deliveries>>
    PROVE  AskState'
<1>1. /\ asks' \in [Requests -> Places] /\ asks'[r] = d
      /\ \A q \in Requests \ {r} : asks'[q] = asks[q]
      /\ verdict' \in [Requests -> Decisions \cup {None}] /\ verdict'[r] = d
      /\ \A q \in Requests \ {r} : verdict'[q] = verdict[q]
  BY DEF AskState, Goto, Decisions, Places
<1>2. ASSUME NEW q \in Requests PROVE AskOK(q)'
  <2>1. AskOK(q)
    BY DEF AskState
  <2>2. CASE q = r
    <3>1. d \notin {"new", "loading", "asked"} /\ results[r] = None
      BY <2>1, <2>2 DEF AskOK, Decisions
    <3>2. \A b \in deliveries : b.todo[r] = None
      BY <2>1, <2>2 DEF AskOK
    <3> QED
      BY <1>1, <2>2, <3>1, <3>2 DEF AskOK
  <2>3. CASE q # r
    <3>1. asks'[q] = asks[q] /\ verdict'[q] = verdict[q] /\ (q \in queue' <=> q \in queue)
      BY <1>1, <2>3
    <3> QED
      BY <2>1, <3>1 DEF AskOK
  <2> QED
    BY <2>2, <2>3
<1>3. NoLostWakeup'
  BY <1>1 DEF AskState, NoLostWakeup, Decisions
<1> QED
  BY <1>1, <1>2, <1>3 DEF AskState

\* A request is queued.
LEMMA QueueAsk ==
    ASSUME AskState, NEW r \in Requests, asks[r] = "asked", Goto(r, "waiting"),
           queue' = queue \cup {r}, UNCHANGED <<results, deliveries, verdict>>
    PROVE  AskState'
<1>1. /\ asks' \in [Requests -> Places] /\ asks'[r] = "waiting"
      /\ \A q \in Requests \ {r} : asks'[q] = asks[q]
  BY DEF AskState, Goto, Places
<1>2. ASSUME NEW q \in Requests PROVE AskOK(q)'
  <2>1. AskOK(q)
    BY DEF AskState
  <2>2. CASE q = r
    BY <1>1, <2>1, <2>2 DEF AskOK, Queued
  <2>3. CASE q # r
    <3>1. asks'[q] = asks[q] /\ (q \in queue' <=> q \in queue)
      BY <1>1, <2>3
    <3> QED
      BY <2>1, <3>1 DEF AskOK
  <2> QED
    BY <2>2, <2>3
<1>3. NoLostWakeup'
  BY <1>1 DEF AskState, NoLostWakeup
<1>4. queue' \subseteq Requests
  BY DEF AskState
<1> QED
  BY <1>1, <1>2, <1>3, <1>4 DEF AskState

\* The rule that answers an ask has a decision.
LEMMA EffectiveFacts ==
    ASSUME NEW rs \in Seq(RuleType), NEW r \in Requests, Answered(rs, r)
    PROVE  EffectiveRule(rs, r).decision \in Decisions
<1> DEFINE of(chat, exact) == Candidates(rs, r, chat, exact)
           S == IF of(TRUE, TRUE) # {} THEN of(TRUE, TRUE)
                ELSE IF of(TRUE, FALSE) # {} THEN of(TRUE, FALSE)
                ELSE IF of(FALSE, TRUE) # {} THEN of(FALSE, TRUE)
                ELSE of(FALSE, FALSE)
<1>1. \A chat, exact \in BOOLEAN : of(chat, exact) \in SUBSET (DOMAIN rs)
  BY DEF Candidates
<1>2. \E chat, exact \in BOOLEAN : of(chat, exact) # {}
  BY DEF Answered
<1>3. EffectiveRule(rs, r) = rs[Newest(S)]
  BY DEF EffectiveRule
<1> HIDE DEF of
<1>4. S \in SUBSET (DOMAIN rs) /\ S # {}
  BY <1>1, <1>2
<1> HIDE DEF S
<1>5. Len(rs) \in Nat /\ DOMAIN rs = 1..Len(rs)
  OBVIOUS
<1>6. Newest(S) \in DOMAIN rs
  BY <1>4, <1>5, NewestFacts
<1> QED
  BY <1>3, <1>6, RuleFields

\* Requests leave the queue together; the one that was answered may leave its
\* ask at the same time.
LEMMA TakeAsks ==
    ASSUME AskState, NEW r \in queue, NEW d \in Decisions, NEW rs \in Seq(RuleType),
           Take(r, d, rs), UNCHANGED results, asks' = asks \/ Goto(r, "withdrawn")
    PROVE  /\ AskState'
           /\ \A q \in Requests : verdict[q] # None => verdict'[q] = verdict[q]
<1> DEFINE also == Cascaded(rs, queue \ {r})
           answer == [q \in Requests |-> IF q = r THEN d
                                         ELSE IF q \in also THEN EffectiveRule(rs, q).decision
                                         ELSE None]
           b0 == [todo |-> answer, inserted |-> FALSE]
<1>1. /\ queue' = queue \ ({r} \cup also)
      /\ verdict' = [q \in Requests |-> IF answer[q] = None THEN verdict[q] ELSE answer[q]]
      /\ deliveries' = deliveries \cup {b0}
  BY DEF Take
<1>2. r \in Requests /\ queue \subseteq Requests
  BY DEF AskState
<1>3. also \subseteq queue /\ \A q \in also : Answered(rs, q)
  BY DEF Cascaded
<1> HIDE DEF also
<1>4. \A q \in also : EffectiveRule(rs, q).decision \in Decisions
  BY <1>2, <1>3, EffectiveFacts
<1>5. \A q \in Requests : /\ answer[q] \in Decisions \cup {None}
                          /\ answer[q] # None <=> q \in {r} \cup also
  BY <1>2, <1>3, <1>4, NoneFacts
<1>6. answer \in [Requests -> Decisions \cup {None}]
  BY <1>5
<1> HIDE DEF answer
<1>7. b0 \in DeliveryType /\ b0.todo = answer /\ ~b0.inserted
  BY <1>6 DEF DeliveryType
<1> HIDE DEF b0
<1>8. /\ asks' \in [Requests -> Places]
      /\ \A q \in Requests : asks'[q] = asks[q] \/ (q = r /\ asks'[q] = "withdrawn")
  BY <1>2 DEF AskState, Goto, Places
<1>9. verdict' \in [Requests -> Decisions \cup {None}]
  BY <1>1, <1>5 DEF AskState
<1>10. ASSUME NEW q \in Requests
       PROVE  AskOK(q)' /\ (verdict[q] # None => verdict'[q] = verdict[q])
  <2>1. AskOK(q)
    BY DEF AskState
  <2>2. CASE answer[q] = None
    <3>1. q \notin {r} \cup also /\ verdict'[q] = verdict[q] /\ asks'[q] = asks[q]
      BY <1>1, <1>5, <1>8, <2>2
    <3>2. q \in queue' <=> q \in queue
      BY <1>1, <3>1
    <3>3. \A b \in deliveries' : b \in deliveries \/ b.todo[q] = None
      BY <1>1, <1>7, <2>2
    <3> QED
      BY <2>1, <3>1, <3>2, <3>3 DEF AskOK
  <2>3. CASE answer[q] # None
    <3>1. q \in {r} \cup also /\ q \in queue /\ q \notin queue'
      BY <1>1, <1>3, <1>5, <2>3
    <3>2. verdict'[q] = answer[q] /\ verdict[q] = None /\ asks[q] \in Queued
      BY <1>1, <2>1, <2>3, <3>1 DEF AskOK
    <3>3. results[q] = None /\ \A b \in deliveries : b.todo[q] = None
      BY <2>1, <3>2 DEF AskOK
    <3>4. asks'[q] \in Queued \cup {"withdrawn"}
      BY <1>8, <3>2
    <3>5. \A b \in deliveries' : b.todo[q] # None => b.todo[q] = answer[q]
      BY <1>1, <1>7, <3>3
    <3> QED
      BY <3>1, <3>2, <3>3, <3>4, <3>5 DEF AskOK, Queued
  <2> QED
    BY <2>2, <2>3
<1>11. NoLostWakeup'
  <2> SUFFICES ASSUME NEW q \in Requests, results[q] # None, asks'[q] = "parked"
               PROVE  \E b \in deliveries' : b.inserted /\ b.todo[q] # None
    BY DEF NoLostWakeup
  <2>1. asks[q] = "parked"
    BY <1>8
  <2> QED
    BY <1>1, <2>1 DEF AskState, NoLostWakeup
<1>12. queue' \subseteq Requests /\ deliveries' \subseteq DeliveryType
  BY <1>1, <1>2, <1>7 DEF AskState
<1> QED
  BY <1>8, <1>9, <1>10, <1>11, <1>12 DEF AskState

\* The decisions of an answer are inserted.
LEMMA InsertAsks ==
    ASSUME AskState, NEW b \in deliveries, Insert(b)
    PROVE  AskState'
<1> DEFINE c == [b EXCEPT !.inserted = TRUE]
<1>1. /\ ~b.inserted
      /\ results' = [r \in Requests |-> IF b.todo[r] = None THEN results[r] ELSE b.todo[r]]
      /\ deliveries' = (deliveries \ {b}) \cup {c}
      /\ UNCHANGED <<queue, asks, verdict>>
  BY DEF Insert
<1>2. b \in DeliveryType
  BY DEF AskState
<1>3. c \in DeliveryType /\ c.inserted /\ c.todo = b.todo
  BY <1>2 DEF DeliveryType
<1> HIDE DEF c
<1>4. b.todo \in [Requests -> Decisions \cup {None}]
  BY <1>2 DEF DeliveryType
<1>5. results' \in [Requests -> Decisions \cup {None}]
  BY <1>1, <1>4 DEF AskState
<1>6. ASSUME NEW r \in Requests PROVE AskOK(r)'
  <2>1. AskOK(r)
    BY DEF AskState
  <2>2. results'[r] # None => verdict[r] = results'[r]
    BY <1>1, <2>1 DEF AskOK
  <2>3. \A e \in deliveries' : e.todo[r] # None => verdict[r] = e.todo[r]
    BY <1>1, <1>3, <2>1 DEF AskOK
  <2> QED
    BY <1>1, <2>1, <2>2, <2>3 DEF AskOK
<1>7. NoLostWakeup'
  <2> SUFFICES ASSUME NEW r \in Requests, results'[r] # None, asks[r] = "parked"
               PROVE  \E e \in deliveries' : e.inserted /\ e.todo[r] # None
    BY <1>1 DEF NoLostWakeup
  <2>1. CASE b.todo[r] # None
    BY <1>1, <1>3, <2>1
  <2>2. CASE b.todo[r] = None
    <3>1. results[r] # None
      BY <1>1, <2>2
    <3>2. PICK e \in deliveries : e.inserted /\ e.todo[r] # None
      BY <3>1 DEF AskState, NoLostWakeup
    <3> QED
      BY <1>1, <3>2
  <2> QED
    BY <2>1, <2>2
<1>8. deliveries' \subseteq DeliveryType
  BY <1>1, <1>3 DEF AskState
<1> QED
  BY <1>1, <1>5, <1>6, <1>7, <1>8 DEF AskState

\* Everyone is woken, so nobody is parked when the delivery is gone.
LEMMA WakeAsks ==
    ASSUME AskState, NEW b \in deliveries, Wake(b)
    PROVE  AskState'
<1>1. /\ asks' = [r \in Requests |-> Woken(r)] /\ deliveries' = deliveries \ {b}
      /\ UNCHANGED <<queue, results, verdict>>
  BY DEF Wake
<1>2. ASSUME NEW r \in Requests
      PROVE  /\ asks'[r] \in Places /\ asks'[r] # "parked"
             /\ \/ asks'[r] = asks[r]
                \/ asks[r] \in Queued /\ asks'[r] \in {"waiting", "notified"}
  <2>1. asks[r] \in Places /\ asks'[r] = Woken(r)
    BY <1>1 DEF AskState
  <2> QED
    BY <2>1 DEF Woken, Places, Queued
<1>3. asks' \in [Requests -> Places]
  BY <1>1, <1>2
<1>4. ASSUME NEW r \in Requests PROVE AskOK(r)'
  <2>1. AskOK(r)
    BY DEF AskState
  <2> QED
    BY <1>1, <1>2, <2>1 DEF AskOK, Queued
<1>5. NoLostWakeup'
  BY <1>2 DEF NoLostWakeup
<1> QED
  BY <1>1, <1>3, <1>4, <1>5 DEF AskState

LEMMA SameAsks ==
    ASSUME AskState, UNCHANGED <<queue, results, asks, deliveries, verdict>>
    PROVE  AskState'
<1>1. \A r \in Requests : AskOK(r)'
  BY DEF AskState, AskOK
<1>2. NoLostWakeup'
  BY DEF AskState, NoLostWakeup
<1> QED
  BY <1>1, <1>2 DEF AskState

-----------------------------------------------------------------------------
(* The steps.                                                              *)

\* What AnsweredOnce says of one step.
Once == \A r \in Requests : verdict[r] # None => verdict'[r] = verdict[r]

LEMMA SameRules ==
    ASSUME RuleState, UNCHANGED <<rules, vault>>
    PROVE  RuleState' /\ KeptStep /\ (UNCHANGED loads => StoredStep)
<1>1. RuleState' /\ KeptStep
  BY DEF RuleState, RulesOK, Durable, OneOfAKey, KeptStep, AllStored
<1> QED
  BY <1>1, KeptIsStored

\* Reading the file changes no rule.
LEMMA LoadFacts ==
    ASSUME RuleState, Rest, NEW x \in Requests \cup {None}, Load(x)
    PROVE  RuleState' /\ Rest' /\ StoredStep
<1>1. /\ loads[x].at = "idle" /\ UNCHANGED <<rules, reviews, known, vault, vaultState, edits, outages>>
      /\ loads' = [loads EXCEPT ![x] =
             IF vaultState = "ok" THEN [at |-> "loaded", stored |-> vault]
             ELSE [at |-> "refused", stored |-> <<>>]]
  BY DEF Load, disk, bounds
<1> DEFINE new == IF vaultState = "ok" THEN [at |-> "loaded", stored |-> vault]
                  ELSE [at |-> "refused", stored |-> <<>>]
<1>2. new \in LoadType /\ new.at # "idle" /\ (new.at # "loaded" => new.stored = <<>>)
  BY DEF RuleState, LoadType
<1>3. loads' = [loads EXCEPT ![x] = new] /\ loads \in [Requests \cup {None} -> LoadType]
  BY <1>1 DEF Rest
<1> HIDE DEF new
<1>4. loads' \in [Requests \cup {None} -> LoadType] /\ LoadsOK'
  BY <1>2, <1>3 DEF LoadsOK, Rest
<1>5. Rest'
  BY <1>1, <1>4 DEF Rest
<1>6. \A y \in DOMAIN loads : ~InstallsLoad(y)
  BY <1>2, <1>3 DEF InstallsLoad
<1>7. Unstored' = Unstored
  BY <1>1 DEF Unstored
<1> QED
  BY <1>1, <1>5, <1>6, <1>7, SameRules DEF StoredStep, InstallsFresh

\* What an installation leaves of the registrations.
LEMMA InstallRest ==
    ASSUME Rest, NEW x \in Requests \cup {None}, Install(x)
    PROVE  Rest'
<1>1. /\ known' \in BOOLEAN /\ UNCHANGED <<reviews, vaultState, edits, outages>>
      /\ loads' = [loads EXCEPT ![x] = NoLoad]
  BY DEF Install, disk, bounds, Rest
<1>2. NoLoad \in LoadType /\ NoLoad.stored = <<>>
  BY DEF NoLoad, LoadType
<1>3. loads' \in [Requests \cup {None} -> LoadType] /\ LoadsOK'
  BY <1>1, <1>2 DEF Rest, LoadsOK
<1> QED
  BY <1>1, <1>3 DEF Rest

LEMMA SameRest ==
    ASSUME Rest, UNCHANGED <<reviews, vaultState, loads, known, edits, outages>>
    PROVE  Rest'
BY DEF Rest, LoadsOK

LEMMA InitInv == Init => IInv
<1> SUFFICES ASSUME Init PROVE IInv
  OBVIOUS
<1>1. AskState
  BY DEF Init, AskState, AskOK, NoLostWakeup, Places, DeliveryType, Queued
<1>2. RuleState
  <2>1. rules = <<>> /\ rules \in Seq(RuleType) /\ DOMAIN rules = {}
    BY DEF Init
  <2>2. vault \in Seq(StoredType) /\ OneOfAKey(vault)
    BY PermissionAssumption DEF Init
  <2> QED
    BY <2>1, <2>2 DEF RuleState, RulesOK, Durable
<1>3. Rest
  <2>1. NoLoad \in LoadType /\ NoLoad.stored = <<>>
    BY DEF NoLoad, LoadType
  <2>2. loads \in [Requests \cup {None} -> LoadType] /\ LoadsOK
    BY <2>1 DEF Init, LoadsOK
  <2>3. known \in BOOLEAN /\ reviews \subseteq Requests /\ vaultState \in {"ok", "locked", "missing"}
    BY DEF Init
  <2>4. edits \in 0..MaxEdits /\ outages \in 0..MaxOutages
    BY PermissionAssumption DEF Init
  <2> QED
    BY <2>2, <2>3, <2>4 DEF Rest
<1> QED
  BY <1>1, <1>2, <1>3, Parts

\* The steps of an asking thread or task.
LEMMA WaiterInv ==
    ASSUME IInv, NEW r \in Requests, Waiter(r) \/ AskLoad(r) \/ AskInstall(r) \/ Timeout(r)
    PROVE  IInv' /\ Once /\ StoredStep
<1>0. AskState /\ RuleState /\ Rest /\ AskOK(r) /\ verdict \in [Requests -> Decisions \cup {None}]
  BY Parts DEF AskState
<1>1. CASE AskLoad(r)
  <2>1. Load(r) /\ asks[r] = "new" /\ Goto(r, "loading")
    BY <1>1 DEF AskLoad
  <2>2. UNCHANGED <<queue, results, deliveries, verdict>> /\ RuleState' /\ Rest' /\ StoredStep
    BY <1>0, <2>1, LoadFacts DEF Load
  <2>3. r \notin queue /\ verdict[r] = None
    BY <1>0, <2>1 DEF AskOK, Queued
  <2>4. AskState'
    BY <1>0, <2>1, <2>2, <2>3, MoveAsk DEF Places
  <2> QED
    BY <2>2, <2>4, PartsNext DEF Once
<1>11. CASE AskInstall(r)
  <2>1. Install(r) /\ asks[r] = "loading" /\ Goto(r, "asked")
    BY <1>11 DEF AskInstall
  <2>2. UNCHANGED <<queue, results, deliveries, vault, verdict>>
    BY <2>1 DEF Install, disk
  <2>3. RuleState' /\ Rest' /\ StoredStep
    BY <1>0, <2>1, <2>2, InstallRules, InstallRest DEF RuleState
  <2>4. r \notin queue /\ verdict[r] = None
    BY <1>0, <2>1 DEF AskOK, Queued
  <2>5. AskState'
    BY <1>0, <2>1, <2>2, <2>4, MoveAsk DEF Places
  <2> QED
    BY <2>2, <2>3, <2>5, PartsNext DEF Once
<1>2. CASE Enqueue(r)
  <2>1. /\ asks[r] = "asked" /\ rules' = Healthy(rules)
        /\ UNCHANGED <<results, deliveries, reviews, loads, known, vault, vaultState, edits, outages>>
    BY <1>2 DEF Enqueue, registry, disk, bounds
  <2>2. rules' \in Seq(RuleType) /\ RuleState' /\ Rest' /\ StoredStep
    BY <1>0, <2>1, HealthyRules, KeptIsStored, SameRest DEF RuleState
  <2>3. r \notin queue /\ verdict[r] = None
    BY <1>0, <2>1 DEF AskOK, Queued
  <2>4. CASE Answered(rules', r)
    <3> DEFINE d == EffectiveRule(rules', r).decision
    <3>1. d \in Decisions
      BY <2>2, <2>4, EffectiveFacts
    <3>2. Goto(r, d) /\ verdict' = [verdict EXCEPT ![r] = d] /\ queue' = queue \ {r}
      BY <1>2, <2>3, <2>4 DEF Enqueue
    <3> HIDE DEF d
    <3>3. AskState'
      BY <1>0, <2>1, <2>3, <3>1, <3>2, DecideAsk
    <3>4. Once
      BY <1>0, <2>3, <3>2 DEF Once
    <3> QED
      BY <2>2, <3>3, <3>4, PartsNext
  <2>5. CASE ~Answered(rules', r)
    <3>1. queue' = queue \cup {r} /\ Goto(r, "waiting") /\ UNCHANGED verdict
      BY <1>2, <2>5 DEF Enqueue
    <3>2. AskState'
      BY <1>0, <2>1, <3>1, QueueAsk
    <3> QED
      BY <2>2, <3>1, <3>2, PartsNext DEF Once
  <2> QED
    BY <2>4, <2>5
<1>3. ASSUME UNCHANGED <<rules, reviews, loads, known, vault, vaultState, edits, outages, verdict>>, AskState'
      PROVE  IInv' /\ Once /\ StoredStep
  BY <1>0, <1>3, SameRules, SameRest, PartsNext DEF Once
<1>4. CASE Enable(r)
  <2>1. AskState'
    BY <1>0, <1>4, MoveAsk DEF Enable, WaitUnchanged, Places, Queued
  <2> QED
    BY <1>3, <1>4, <2>1 DEF Enable, WaitUnchanged, registry, disk, bounds
<1>5. CASE Check(r)
  <2>1. CASE Collect(r)
    BY <1>0, <1>3, <1>5, <2>1, CollectAsk DEF Check, WaitUnchanged, registry, disk, bounds
  <2>2. CASE ~Collect(r)
    <3>1. /\ results[r] = None /\ UNCHANGED results /\ WaitUnchanged
          /\ Goto(r, IF asks[r] = "enabled" THEN "parked" ELSE "waiting")
      BY <1>5, <2>2 DEF Check
    <3>2. AskState'
      BY <1>0, <3>1, MoveAsk DEF WaitUnchanged, Places, Queued
    <3> QED
      BY <1>3, <3>1, <3>2 DEF WaitUnchanged, registry, disk, bounds
  <2> QED
    BY <2>1, <2>2
<1>6. CASE CheckOrPark(r)
  <2>1. CASE Collect(r)
    BY <1>0, <1>3, <1>6, <2>1, CollectAsk DEF CheckOrPark, WaitUnchanged, registry, disk, bounds
  <2>2. CASE ~Collect(r)
    <3>1. results[r] = None /\ UNCHANGED results /\ WaitUnchanged /\ Goto(r, "parked")
      BY <1>6, <2>2 DEF CheckOrPark
    <3>2. AskState'
      BY <1>0, <3>1, MoveAsk DEF WaitUnchanged, Places, Queued
    <3> QED
      BY <1>3, <3>1, <3>2 DEF WaitUnchanged, registry, disk, bounds
  <2> QED
    BY <2>1, <2>2
<1>7. CASE Timeout(r)
  <2>1. CASE Collect(r)
    BY <1>0, <1>3, <1>7, <2>1, CollectAsk DEF Timeout, WaitUnchanged, registry, disk, bounds
  <2>2. CASE ~Collect(r)
    <3>1. UNCHANGED results /\ WaitUnchanged /\ Goto(r, "expiring")
      BY <1>7, <2>2 DEF Timeout
    <3>2. AskState'
      BY <1>0, <3>1, MoveAsk DEF WaitUnchanged, Places, Queued
    <3> QED
      BY <1>3, <3>1, <3>2 DEF WaitUnchanged, registry, disk, bounds
  <2> QED
    BY <2>1, <2>2
<1>8. CASE Expire(r)
  <2>1. UNCHANGED <<rules, results, deliveries, reviews, loads, known, vault, vaultState, edits, outages>>
    BY <1>8 DEF Expire, registry, disk, bounds
  <2>2. CASE r \in queue
    <3>1. queue' = queue \ {r} /\ Goto(r, "deny") /\ verdict' = [verdict EXCEPT ![r] = "deny"]
      BY <1>8, <2>2 DEF Expire, Took
    <3>2. verdict[r] = None
      BY <1>0, <2>2 DEF AskOK
    <3>3. AskState'
      BY <1>0, <2>1, <3>1, <3>2, DecideAsk DEF Decisions
    <3>4. Once
      BY <1>0, <3>1, <3>2 DEF Once
    <3> QED
      BY <1>0, <2>1, <3>3, <3>4, SameRules, SameRest, PartsNext
  <2>3. CASE r \notin queue
    <3>1. Goto(r, "late") /\ UNCHANGED <<queue, verdict>>
      BY <1>8, <2>3 DEF Expire
    <3>2. AskState'
      BY <1>0, <2>1, <2>3, <3>1, MoveAsk DEF Places
    <3> QED
      BY <1>3, <2>1, <3>1, <3>2
  <2> QED
    BY <2>2, <2>3
<1>9. CASE ExpireLate(r)
  <2>1. CASE Collect(r)
    BY <1>0, <1>3, <1>9, <2>1, CollectAsk DEF ExpireLate, WaitUnchanged, registry, disk, bounds
  <2>2. CASE ~Collect(r)
    <3>1. asks[r] = "late" /\ UNCHANGED results /\ WaitUnchanged /\ Goto(r, "deny")
      BY <1>9, <2>2 DEF ExpireLate
    <3>2. r \notin queue
      BY <1>0, <3>1 DEF AskOK, Queued
    <3>3. AskState'
      BY <1>0, <3>1, <3>2, MoveAsk DEF WaitUnchanged, Places
    <3> QED
      BY <1>3, <3>1, <3>3 DEF WaitUnchanged, registry, disk, bounds
  <2> QED
    BY <2>1, <2>2
<1>10. CASE HangUpClear(r)
  <2>1. /\ asks[r] \in {"hungup", "withdrawn"} /\ Goto(r, "gone") /\ WaitUnchanged
        /\ results' = [results EXCEPT ![r] = None]
    BY <1>10 DEF HangUpClear
  <2>2. r \notin queue
    BY <1>0, <2>1 DEF AskOK, Queued
  <2>3. AskState'
    BY <1>0, <2>1, <2>2, EndAsk DEF WaitUnchanged, Ended
  <2> QED
    BY <1>3, <2>1, <2>3 DEF WaitUnchanged, registry, disk, bounds
<1> QED
  BY <1>1, <1>2, <1>4, <1>5, <1>6, <1>7, <1>8, <1>9, <1>10, <1>11 DEF Waiter

\* A hook goes away, or the connection of a drive closes.
LEMMA LeaveInv ==
    ASSUME IInv, NEW r \in Requests, HangUp(r) \/ Cancel(r)
    PROVE  IInv' /\ Once /\ StoredStep
<1>0. AskState /\ RuleState /\ Rest /\ AskOK(r)
  BY Parts DEF AskState
<1>1. UNCHANGED <<rules, results, reviews, loads, known, vault, vaultState, edits, outages>>
  BY DEF HangUp, Cancel, registry, disk, bounds
<1>2. RuleState' /\ Rest' /\ StoredStep
  BY <1>0, <1>1, SameRules, SameRest
<1>3. CASE r \in queue
  <2>1. Take(r, "deny", <<>>) /\ (asks' = asks \/ Goto(r, "withdrawn"))
    BY <1>3 DEF HangUp, Cancel
  <2>2. <<>> \in Seq(RuleType) /\ "deny" \in Decisions
    BY DEF Decisions
  <2> QED
    BY <1>0, <1>1, <1>2, <1>3, <2>1, <2>2, TakeAsks, PartsNext DEF Once
<1>4. CASE r \notin queue
  <2>1. Goto(r, "hungup") /\ UNCHANGED <<queue, verdict, deliveries>>
    BY <1>4 DEF HangUp, Cancel
  <2>2. AskState'
    BY <1>0, <1>1, <1>4, <2>1, MoveAsk DEF Places
  <2> QED
    BY <1>2, <2>1, <2>2, PartsNext DEF Once
<1> QED
  BY <1>3, <1>4

LEMMA GrantedFacts ==
    ASSUME NEW r \in Requests, NEW k \in Keys, NEW d \in Decisions, NEW durable \in BOOLEAN,
           NEW c \in Conns \cup {None}
    PROVE  /\ Granted(r, k, d, durable, c) \in RuleType
           /\ (Granted(r, k, d, durable, c).persist <=> durable)
           /\ Granted(r, k, d, durable, c).conn = c
<1>1. ActionOf[r] \in Actions
  BY PermissionAssumption
<1> QED
  BY <1>1 DEF Granted, RuleType

\* A person answers, or remembers what was allowed.
LEMMA ResolveInv ==
    ASSUME IInv, NEW r \in queue, NEW d \in Decisions,
           \/ \E review \in BOOLEAN : ResolveOnce(r, d, review)
           \/ \E k \in Keys : \/ ResolvePersisted(r, d, k)
                              \/ \E chat \in BOOLEAN : ResolveForSession(r, d, k, chat)
    PROVE  IInv' /\ Once /\ StoredStep
<1>0. AskState /\ RuleState /\ Rest /\ r \in Requests
  BY Parts DEF AskState
<1>1. ASSUME NEW review \in BOOLEAN, ResolveOnce(r, d, review) PROVE IInv' /\ Once /\ StoredStep
  <2>1. /\ Take(r, d, <<>>) /\ UNCHANGED <<rules, results, asks, loads, known, vault, vaultState, edits, outages>>
        /\ reviews' = IF review THEN reviews \cup {r} ELSE reviews
    BY <1>1 DEF ResolveOnce, registry, disk, bounds
  <2>2. RuleState' /\ Rest' /\ StoredStep
    BY <1>0, <2>1, SameRules DEF Rest, LoadsOK
  <2>3. <<>> \in Seq(RuleType)
    OBVIOUS
  <2> QED
    BY <1>0, <2>1, <2>2, <2>3, TakeAsks, PartsNext DEF Once
<1>2. ASSUME NEW k \in Keys, ResolvePersisted(r, d, k) PROVE IInv' /\ Once /\ StoredStep
  <2> DEFINE rule == Granted(r, k, d, TRUE, None)
  <2>1. /\ Persist(rule) /\ rules' = Installed(rules, rule) /\ Take(r, d, rules')
        /\ vaultState' = "ok" /\ UNCHANGED <<results, asks, reviews, loads, known, edits, outages>>
    BY <1>2 DEF ResolvePersisted, Persist, WriteVault, registry, bounds
  <2>2. rule \in RuleType /\ rule.persist /\ rule.conn = None
    <3>1. TRUE \in BOOLEAN /\ None \in Conns \cup {None}
      OBVIOUS
    <3>2. rule \in RuleType /\ (rule.persist <=> TRUE) /\ rule.conn = None
      BY <1>0, <3>1, GrantedFacts
    <3> QED
      BY <3>2
  <2> HIDE DEF rule
  <2>3. rules' \in Seq(RuleType) /\ vault' \in Seq(StoredType) /\ RulesOK' /\ KeptStep
    BY <2>1, <2>2, InstalledRules
  <2>4. RuleState' /\ Rest' /\ StoredStep
    BY <1>0, <2>1, <2>3, KeptIsStored DEF RuleState, Rest, LoadsOK
  <2> QED
    BY <1>0, <2>1, <2>3, <2>4, TakeAsks, PartsNext DEF Once
<1>3. ASSUME NEW k \in Keys, NEW chat \in BOOLEAN, ResolveForSession(r, d, k, chat)
      PROVE  IInv' /\ Once /\ StoredStep
  <2> DEFINE c == IF chat THEN ConnOf[r] ELSE None
             rule == Granted(r, k, d, FALSE, c)
  <2>1. /\ rules' = Installed(rules, rule) /\ Take(r, d, rules')
        /\ UNCHANGED <<results, asks, reviews, loads, known, vault, vaultState, edits, outages>>
    BY <1>3 DEF ResolveForSession, registry, disk, bounds
  <2>2. c \in Conns \cup {None}
    BY <1>0, PermissionAssumption
  <2>3. rule \in RuleType /\ ~rule.persist
    BY <1>0, <2>2, GrantedFacts
  <2> HIDE DEF rule
  <2>4. rules' \in Seq(RuleType) /\ vault' \in Seq(StoredType) /\ RulesOK' /\ KeptStep
    BY <2>1, <2>3, InstalledRules
  <2>5. RuleState' /\ Rest' /\ StoredStep
    BY <1>0, <2>1, <2>4, KeptIsStored, SameRest DEF RuleState
  <2> QED
    BY <1>0, <2>1, <2>4, <2>5, TakeAsks, PartsNext DEF Once
<1> QED
  BY <1>1, <1>2, <1>3

LEMMA RememberInv ==
    ASSUME IInv, NEW r \in reviews, NEW k \in Keys, Remember(r, k)
    PROVE  IInv' /\ Once /\ StoredStep
<1> DEFINE rule == Granted(r, k, "allow", TRUE, None)
           also == Cascaded(rules', queue)
<1>0. AskState /\ RuleState /\ Rest /\ r \in Requests /\ "allow" \in Decisions
  BY Parts DEF Rest, Decisions
<1>1. /\ Persist(rule) /\ rules' = Installed(rules, rule)
      /\ IF also = {} THEN UNCHANGED <<queue, verdict, deliveries>>
         ELSE \E q \in also : Take(q, EffectiveRule(rules', q).decision, rules')
      /\ reviews' = reviews \ {r}
      /\ vaultState' = "ok" /\ UNCHANGED <<results, asks, loads, known, edits, outages>>
  BY DEF Remember, Persist, WriteVault, registry, bounds
<1>2. rule \in RuleType /\ rule.persist /\ rule.conn = None
  <2>1. TRUE \in BOOLEAN /\ None \in Conns \cup {None}
    OBVIOUS
  <2>2. rule \in RuleType /\ (rule.persist <=> TRUE) /\ rule.conn = None
    BY <1>0, <2>1, GrantedFacts
  <2> QED
    BY <2>2
<1> HIDE DEF rule
<1>3. rules' \in Seq(RuleType) /\ vault' \in Seq(StoredType) /\ RulesOK' /\ KeptStep
  BY <1>1, <1>2, InstalledRules
<1>4. RuleState' /\ Rest' /\ StoredStep
  BY <1>0, <1>1, <1>3, KeptIsStored DEF RuleState, Rest, LoadsOK
<1>5. CASE also = {}
  BY <1>0, <1>1, <1>4, <1>5, SameAsks, PartsNext DEF Once
<1>6. CASE also # {}
  <2>1. PICK q \in also : Take(q, EffectiveRule(rules', q).decision, rules')
    BY <1>1, <1>6
  <2>2. q \in queue /\ Answered(rules', q) /\ q \in Requests
    BY <1>0, <2>1 DEF Cascaded, AskState
  <2>3. EffectiveRule(rules', q).decision \in Decisions
    BY <1>3, <2>2, EffectiveFacts
  <2> QED
    BY <1>0, <1>1, <1>3, <1>4, <2>1, <2>2, <2>3, TakeAsks, PartsNext DEF Once
<1> QED
  BY <1>5, <1>6

\* Changes of the rules by hand.
LEMMA EditInv ==
    ASSUME IInv,
           \/ \E c \in Conns : CloseChat(c)
           \/ \E i \in DOMAIN rules :
                 \/ Revoke(i)
                 \/ \E d \in Decisions : UpdateDecision(i, d)
                 \/ \E durable \in BOOLEAN : UpdateScope(i, durable)
                 \/ \E k \in Keys : UpdatePattern(i, k)
    PROVE  IInv' /\ Once /\ StoredStep
<1>0. AskState /\ RuleState /\ Rest
  BY Parts
<1>1. ASSUME NEW c \in Conns, CloseChat(c) PROVE IInv' /\ Once /\ StoredStep
  <2> DEFINE keep == {i \in DOMAIN rules : rules[i].conn # c}
  <2>1. keep \in SUBSET (DOMAIN rules) /\ rules' = Retain(rules, keep)
    BY <1>1 DEF CloseChat
  <2>2. UNCHANGED <<queue, results, asks, deliveries, reviews, loads, known, vault, vaultState,
                    edits, outages, verdict>>
    BY <1>1 DEF CloseChat, registry, disk, bounds
  <2> HIDE DEF keep
  <2>3. rules' \in Seq(RuleType) /\ RulesOK' /\ StoredStep
    BY <2>1, <2>2, KeptRules, KeptIsStored
  <2>4. RuleState' /\ Rest' /\ AskState'
    BY <1>0, <2>2, <2>3, SameAsks, SameRest DEF RuleState
  <2> QED
    BY <2>2, <2>3, <2>4, PartsNext DEF Once
<1>2. ASSUME NEW i \in DOMAIN rules,
             \/ Revoke(i)
             \/ \E d \in Decisions : UpdateDecision(i, d)
             \/ \E durable \in BOOLEAN : UpdateScope(i, durable)
             \/ \E k \in Keys : UpdatePattern(i, k)
      PROVE  IInv' /\ Once /\ StoredStep
  <2>1. Edit
    BY <1>2 DEF Revoke, UpdateDecision, UpdateScope, UpdatePattern
  <2>2. rules' \in Seq(RuleType) /\ vault' \in Seq(StoredType) /\ RulesOK' /\ KeptStep
    BY <1>2, RevokeRules, UpdateDecisionRules, UpdateScopeRules, UpdatePatternRules
  <2>3. edits' \in 0..MaxEdits /\ UNCHANGED <<reviews, loads, known, outages>>
    BY <1>0, <2>1, PermissionAssumption DEF Edit, Rest, registry
  <2>6. vaultState' = vaultState \/ vaultState' = "ok"
    BY <1>2 DEF Revoke, UpdateDecision, UpdateScope, UpdatePattern, Persist, WriteVault, disk
  <2>4. UNCHANGED <<queue, results, asks, deliveries, verdict>>
    BY <2>1 DEF Edit
  <2>5. RuleState' /\ Rest' /\ AskState' /\ StoredStep
    BY <1>0, <2>2, <2>3, <2>4, <2>6, SameAsks, KeptIsStored DEF RuleState, Rest, LoadsOK
  <2> QED
    BY <2>4, <2>5, PartsNext DEF Once
<1> QED
  BY <1>1, <1>2

\* Registrations, outages and restarts.
LEMMA SystemInv ==
    ASSUME IInv, ListLoad \/ ListInstall \/ VaultFails \/ VaultRestored \/ Restart
    PROVE  IInv' /\ Once /\ StoredStep
<1>0. AskState /\ RuleState /\ Rest
  BY Parts
<1>1. CASE ListLoad
  <2>1. Load(None) /\ UNCHANGED <<asks, queue, results, deliveries, verdict>>
    BY <1>1 DEF ListLoad, Load
  <2> QED
    BY <1>0, <2>1, LoadFacts, SameAsks, PartsNext DEF Once
<1>4. CASE ListInstall
  <2>1. Install(None) /\ UNCHANGED <<asks, queue, results, deliveries, vault, verdict>>
    BY <1>4 DEF ListInstall, Install, disk
  <2>2. RuleState' /\ Rest' /\ StoredStep
    BY <1>0, <2>1, InstallRules, InstallRest DEF RuleState
  <2> QED
    BY <1>0, <2>1, <2>2, SameAsks, PartsNext DEF Once
<1>2. CASE VaultFails \/ VaultRestored
  <2>1. UNCHANGED <<rules, queue, results, asks, deliveries, reviews, loads, known, vault,
                    edits, verdict>>
    BY <1>2 DEF VaultFails, VaultRestored, bridge, registry, disk, bounds
  <2>2. vaultState' \in {"ok", "locked", "missing"} /\ outages' \in 0..MaxOutages
    <3>2. vaultState' \in {"ok", "locked", "missing"}
      BY <1>2 DEF VaultFails, VaultRestored
    <3>3. outages' = outages \/ (outages < MaxOutages /\ outages' = outages + 1)
      BY <1>2 DEF VaultFails, VaultRestored, registry, disk, bounds
    <3>4. outages' \in 0..MaxOutages
      BY <1>0, <3>3, PermissionAssumption DEF Rest
    <3> QED
      BY <3>2, <3>4
  <2>3. Rest'
    BY <1>0, <2>1, <2>2 DEF Rest, LoadsOK
  <2> QED
    BY <1>0, <2>1, <2>3, SameAsks, SameRules, PartsNext DEF Once
<1>3. CASE Restart
  <2>1. /\ rules' = <<>> /\ queue' = {} /\ deliveries' = {} /\ reviews' = {}
        /\ loads' = [x \in Requests \cup {None} |-> NoLoad] /\ known' = FALSE
        /\ results' = [r \in Requests |-> None]
        /\ asks' = [r \in Requests |-> IF asks[r] \in Ended \cup {"new"} THEN asks[r] ELSE "gone"]
        /\ UNCHANGED <<vault, vaultState, edits, verdict>>
    BY <1>3 DEF Restart, disk
  <2>2. outages' \in 0..MaxOutages
    BY <1>0, <1>3, PermissionAssumption DEF Restart, Rest
  <2>3. Rest'
    <3>1. NoLoad \in LoadType /\ NoLoad.stored = <<>>
      BY DEF NoLoad, LoadType
    <3>2. known' \in BOOLEAN
      BY <2>1
    <3> QED
      BY <1>0, <2>1, <2>2, <3>1, <3>2 DEF Rest, LoadsOK
  <2>4. RuleState' /\ StoredStep
    <3>1. rules' \in Seq(RuleType) /\ DOMAIN rules' = {}
      BY <2>1
    <3>2. vault' \in Seq(StoredType) /\ OneOfAKey(vault)'
      BY <1>0, <2>1 DEF RuleState, RulesOK, OneOfAKey
    <3>3. Unstored' = {}
      BY <3>1 DEF Unstored
    <3> QED
      BY <3>1, <3>2, <3>3 DEF RuleState, RulesOK, Durable, StoredStep
  <2>5. asks' \in [Requests -> Places]
    BY <1>0, <2>1 DEF AskState, Places
  <2>6. ASSUME NEW r \in Requests PROVE AskOK(r)'
    <3>1. AskOK(r) /\ asks'[r] = IF asks[r] \in Ended \cup {"new"} THEN asks[r] ELSE "gone"
      BY <1>0, <2>1 DEF AskState
    <3> QED
      BY <2>1, <3>1 DEF AskOK, Ended, Decisions
  <2>7. NoLostWakeup'
    BY <2>1 DEF NoLostWakeup
  <2>8. AskState'
    BY <1>0, <2>1, <2>5, <2>6, <2>7 DEF AskState
  <2> QED
    BY <2>1, <2>3, <2>4, <2>8, PartsNext DEF Once
<1> QED
  BY <1>1, <1>2, <1>3, <1>4

LEMMA StepInv == IInv /\ [Next]_vars => IInv' /\ Once /\ StoredStep
<1> SUFFICES ASSUME IInv, [Next]_vars PROVE IInv' /\ Once /\ StoredStep
  OBVIOUS
<1>0. AskState /\ RuleState /\ Rest
  BY Parts
<1>1. CASE UNCHANGED vars
  <2>1. UNCHANGED <<rules, queue, results, asks, deliveries, reviews, loads, known, vault,
                    vaultState, edits, outages, verdict>>
    BY <1>1 DEF vars, bridge, registry, disk, bounds
  <2> QED
    BY <1>0, <2>1, SameAsks, SameRules, SameRest, PartsNext DEF Once
<1>2. ASSUME NEW r \in Requests,
             Waiter(r) \/ AskLoad(r) \/ AskInstall(r) \/ Timeout(r) \/ HangUp(r) \/ Cancel(r)
      PROVE  IInv' /\ Once /\ StoredStep
  BY <1>2, WaiterInv, LeaveInv
<1>3. CASE Deliver
  <2>1. PICK b \in deliveries : Insert(b) \/ Wake(b)
    BY <1>3 DEF Deliver
  <2>2. AskState'
    BY <1>0, <2>1, InsertAsks, WakeAsks
  <2>3. UNCHANGED <<rules, reviews, loads, known, vault, vaultState, edits, outages, verdict>>
    BY <2>1 DEF Insert, Wake, registry, disk, bounds
  <2> QED
    BY <1>0, <2>2, <2>3, SameRules, SameRest, PartsNext DEF Once
<1>4. CASE Human
  BY <1>4, ResolveInv, RememberInv, EditInv, SystemInv DEF Human
<1>5. CASE VaultFails \/ VaultRestored \/ Restart
  BY <1>5, SystemInv
<1> QED
  BY <1>1, <1>2, <1>3, <1>4, <1>5 DEF Next

-----------------------------------------------------------------------------
(* The theorems.                                                           *)

\* Asks, answers, timeouts, edits, outages and restarts, in any order, keep the
\* inductive invariant.
THEOREM PermissionInvariance == Spec => []IInv
<1> QED
  BY InitInv, StepInv, PTL DEF Spec

\* Every variable of the bridge keeps its type.
THEOREM PermissionTypeCorrect == Spec => []TypeOK
<1>1. IInv => TypeOK
  BY DEF IInv
<1> QED
  BY <1>1, PermissionInvariance, PTL

\* An ask is allowed only if the answer or the rule that took its request
\* allowed it.
THEOREM FailClosedTheorem == Spec => []FailClosed
<1>1. IInv => FailClosed
  BY DEF IInv, AskOK, FailClosed
<1> QED
  BY <1>1, PermissionInvariance, PTL

\* No verdict is ever changed by a later answer, timeout, cancellation or
\* cascade.
THEOREM AnsweredOnceTheorem == Spec => AnsweredOnce
<1>1. IInv /\ [Next]_vars => [\A r \in Requests : verdict[r] # None => verdict'[r] = verdict[r]]_vars
  BY StepInv DEF Once
<1> QED
  BY <1>1, PermissionInvariance, PTL DEF Spec, AnsweredOnce

\* A parked ask whose decision is delivered has a wakeup under way.
THEOREM NoLostWakeupTheorem == Spec => []NoLostWakeup
<1>1. IInv => NoLostWakeup
  BY DEF IInv
<1> QED
  BY <1>1, PermissionInvariance, PTL

\* Once the durable rules in force are those of the file, only a stale list, a
\* file written anew and an edit of a doubled or shadowed rule part them.
THEOREM DurableRulesTheorem == Spec => DurableRulesStored
<1>1. IInv /\ [Next]_vars =>
        [/\ Unstored = {} =>
               \A k \in Unstored' : InstallsStale \/ RecreatesVault \/ Doubled(k) \/ Shadowed(k)
         /\ InstallsFresh => Unstored' = {}]_vars
  BY StepInv DEF StoredStep
<1> QED
  BY <1>1, PermissionInvariance, PTL DEF Spec, DurableRulesStored

-----------------------------------------------------------------------------
(* Notifications: the journal.                                             *)

\* What holds of every journal: a held record is of one notification,
\* reservations and the summaries of this version report something and are
\* made once, and the reservation of such a summary is still there.
Consistent(j) ==
    /\ j \in Seq(Entry)
    /\ \A i \in DOMAIN j : Is(j[i], "held") => \E m \in Messages : j[i].ids = {m}
    /\ \A i \in DOMAIN j : Is(j[i], "reservation") => j[i].ids # {}
    /\ \A i, k \in DOMAIN j :
          Is(j[i], "reservation") /\ Is(j[k], "reservation") /\ j[i].ids = j[k].ids => i = k
    /\ \A i \in DOMAIN j : Is(j[i], "summary") /\ j[i].ids # {} => j[i].ids \in Modern(j)
    /\ \A i, k \in DOMAIN j :
          (Is(j[i], "summary") /\ Is(j[k], "summary") /\ j[i].ids # {} /\ j[i].ids = j[k].ids)
          => i = k

\* The record at i is a summary of an older version.
Older(j, i) == Is(j[i], "summary") /\ j[i].ids = {}

\* The held record at k follows every such summary.
HeldSince(j, k) == Is(j[k], "held") /\ \A i \in DOMAIN j : Older(j, i) => i < k

\* In a consistent journal the summaries that consume by position are those of
\* an older version.
LEMMA HeldIff ==
    ASSUME NEW j, Consistent(j), NEW m
    PROVE  m \in Held(j) <=> /\ \E k \in DOMAIN j : HeldSince(j, k) /\ m \in j[k].ids
                             /\ \A i \in DOMAIN j : Is(j[i], "reservation") => m \notin j[i].ids
<1> DEFINE legacy == {i \in DOMAIN j : Is(j[i], "summary") /\ j[i].ids \notin Modern(j)}
<1>1. Len(j) \in Nat /\ DOMAIN j = 1..Len(j)
  BY DEF Consistent
<1>2. \A i \in DOMAIN j : Is(j[i], "summary") => (j[i].ids \notin Modern(j) <=> j[i].ids = {})
  BY DEF Consistent, Modern, Reservations
<1>3. legacy = {i \in DOMAIN j : Older(j, i)}
  BY <1>2 DEF Older
<1>4. Since(j) = IF legacy = {} THEN 0 ELSE CHOOSE i \in legacy : \A k \in legacy : k <= i
  BY DEF Since
<1>5. \A k \in DOMAIN j : Is(j[k], "held") =>
         (k > Since(j) <=> \A i \in DOMAIN j : Older(j, i) => i < k)
  <2> SUFFICES ASSUME NEW k \in DOMAIN j, Is(j[k], "held")
               PROVE  k > Since(j) <=> \A i \in DOMAIN j : Older(j, i) => i < k
    OBVIOUS
  <2>1. k \notin legacy
    BY <1>3 DEF Older, Is
  <2>2. CASE legacy = {}
    <3>1. Since(j) = 0 /\ k > 0
      BY <1>1, <1>4, <2>2
    <3> QED
      BY <1>3, <2>2, <3>1
  <2>3. CASE legacy # {}
    <3> HIDE DEF legacy
    <3>1. legacy \in SUBSET (1..Len(j))
      BY <1>1, <1>3
    <3>2. \E i \in legacy : \A q \in legacy : q <= i
      BY <1>1, <2>3, <3>1, GreatestPosition
    <3>3. Since(j) \in legacy /\ \A q \in legacy : q <= Since(j)
      BY <1>4, <2>3, <3>2
    <3>4. \A q \in legacy : q \in Nat
      BY <3>1
    <3>5. k \in Nat
      BY <1>1
    <3>6. ASSUME k > Since(j), NEW i \in DOMAIN j, Older(j, i) PROVE i < k
      BY <1>3, <3>3, <3>4, <3>5, <3>6
    <3>7. ASSUME \A i \in DOMAIN j : Older(j, i) => i < k PROVE k > Since(j)
      BY <1>3, <3>3, <3>4, <3>5, <3>7
    <3> QED
      BY <3>6, <3>7
  <2> QED
    BY <2>2, <2>3
<1>6. m \in Held(j) <=>
         /\ \E k \in DOMAIN j : k > Since(j) /\ Is(j[k], "held") /\ m \in j[k].ids
         /\ m \notin UNION Modern(j)
  <2> DEFINE at == {k \in DOMAIN j : k > Since(j) /\ Is(j[k], "held")}
             sets == {j[i].ids : i \in at}
  <2>1. Held(j) = (UNION sets) \ UNION Modern(j)
    BY DEF Held
  <2>2. m \in UNION sets <=> \E k \in at : m \in j[k].ids
    OBVIOUS
  <2>3. m \in UNION sets
        <=> \E k \in DOMAIN j : k > Since(j) /\ Is(j[k], "held") /\ m \in j[k].ids
    BY <2>2
  <2> HIDE DEF sets
  <2> QED
    BY <2>1, <2>3
<1>7. m \notin UNION Modern(j)
      <=> \A i \in DOMAIN j : Is(j[i], "reservation") => m \notin j[i].ids
  BY DEF Modern, Reservations
<1> QED
  BY <1>5, <1>6, <1>7 DEF HeldSince

-----------------------------------------------------------------------------
\* What becomes of a journal j when records are dropped from it: no more is
\* held than before, and the reservation of a summary under way stays.
Reduces(j, c) ==
    /\ Consistent(c)
    /\ \A n \in DOMAIN c : \E i \in DOMAIN j : c[n] = j[i]
    /\ Held(c) \subseteq Held(j)
    /\ \A X \in Modern(j) : ~Completed(j, X) => X \in Modern(c) /\ ~Completed(c, X)

\* The records that compaction keeps are the last ones.
LEMMA RetainedLast ==
    ASSUME NEW j \in Seq(Entry)
    PROVE  /\ \A k \in Retained(j) : \A i \in DOMAIN j :
                 ~Is(j[i], "reservation") /\ k <= i => i \in Retained(j)
           /\ Len(j) # 0 /\ ~Is(j[Len(j)], "reservation") => Len(j) \in Retained(j)
           /\ Retained(j) \subseteq {i \in DOMAIN j : ~Is(j[i], "reservation")}
<1> DEFINE records == DOMAIN j \ Reservations(j)
           from(i) == {k \in records : k >= i}
<1>1. Len(j) \in Nat /\ DOMAIN j = 1..Len(j) /\ records \subseteq 1..Len(j) /\ Keep \in Nat \ {0}
  BY NotifyAssumption
<1>2. Retained(j) = {i \in records : Cardinality(from(i)) <= Keep}
  BY DEF Retained
<1>3. records = {i \in DOMAIN j : ~Is(j[i], "reservation")}
  BY DEF Reservations
<1>4. ASSUME NEW k \in Retained(j), NEW i \in DOMAIN j, ~Is(j[i], "reservation"), k <= i
      PROVE  i \in Retained(j)
  <2>1. k \in records /\ i \in records
    BY <1>2, <1>3, <1>4
  <2> HIDE DEF records
  <2>2. from(i) \subseteq from(k)
    <3>1. k \in Nat /\ i \in Nat /\ \A q \in records : q \in Nat
      BY <1>1, <2>1
    <3>2. \A q \in records : q >= i => q >= k
      BY <1>4, <3>1
    <3> QED
      BY <3>2
  <2>3. IsFiniteSet(from(k))
    <3>1. IsFiniteSet(1..Len(j))
      BY <1>1, FS_Interval
    <3>2. from(k) \subseteq 1..Len(j)
      BY <1>1
    <3> QED
      BY <3>1, <3>2, FS_Subset
  <2>4. Cardinality(from(k)) <= Keep
    BY <1>2, <1>4
  <2> HIDE DEF from
  <2>5. /\ Cardinality(from(i)) <= Cardinality(from(k))
        /\ Cardinality(from(i)) \in Nat /\ Cardinality(from(k)) \in Nat
    BY <2>2, <2>3, FS_Subset, FS_CardinalityType
  <2>6. Cardinality(from(i)) <= Keep
    BY <1>1, <2>4, <2>5
  <2> QED
    BY <1>2, <2>1, <2>6
<1>5. ASSUME Len(j) # 0, ~Is(j[Len(j)], "reservation") PROVE Len(j) \in Retained(j)
  <2>1. Len(j) \in records
    BY <1>1, <1>3, <1>5
  <2>2. from(Len(j)) = {Len(j)}
    <3>1. \A q \in records : q >= Len(j) <=> q = Len(j)
      BY <1>1
    <3> QED
      BY <2>1, <3>1
  <2>3. Cardinality(from(Len(j))) = 1
    BY <2>2, FS_Singleton
  <2> HIDE DEF from, records
  <2> QED
    BY <1>1, <1>2, <2>1, <2>3
<1> QED
  BY <1>2, <1>3, <1>4, <1>5

\* What compaction keeps.
KeptPositions(j) == Retained(j) \cup {i \in Reservations(j) : Needed(j, i)}

LEMMA CompactedType ==
    ASSUME NEW j \in Seq(Entry)
    PROVE  /\ Compacted(j) = Retain(j, KeptPositions(j))
           /\ KeptPositions(j) \in SUBSET (DOMAIN j)
           /\ Compacted(j) \in Seq(Entry)
<1>1. KeptPositions(j) \in SUBSET (DOMAIN j)
  BY DEF KeptPositions, Retained, Reservations
<1>2. Compacted(j) = Retain(j, KeptPositions(j))
  <2> DEFINE logs == {Retain(j, positions) : positions \in {KeptPositions(j)}}
  <2>1. Compacted(j) = CHOOSE log \in logs : TRUE
    BY DEF Compacted, KeptPositions
  <2>2. logs = {Retain(j, KeptPositions(j))}
    OBVIOUS
  <2> HIDE DEF logs
  <2> QED
    BY <2>1, <2>2
<1> QED
  BY <1>1, <1>2, RetainFacts

\* Compaction drops records, and never a reservation that a held record or a
\* summary it keeps still needs.
LEMMA CompactedReduces ==
    ASSUME NEW j, Consistent(j)
    PROVE  /\ Reduces(j, Compacted(j))
           /\ \A m : /\ Len(j) # 0 /\ Is(j[Len(j)], "held") /\ m \in j[Len(j)].ids
                     /\ \A i \in DOMAIN j : Is(j[i], "reservation") => m \notin j[i].ids
                     => m \in Held(Compacted(j))
<1> DEFINE C == Compacted(j)
           keep == KeptPositions(j)
<1>1. j \in Seq(Entry) /\ Len(j) \in Nat /\ DOMAIN j = 1..Len(j)
  BY DEF Consistent
<1>2. C = Retain(j, keep) /\ keep \in SUBSET (DOMAIN j) /\ C \in Seq(Entry)
  BY <1>1, CompactedType
<1>3. PICK pick \in [DOMAIN C -> keep] :
         /\ \A n \in DOMAIN C : C[n] = j[pick[n]]
         /\ \A m, n \in DOMAIN C : pick[m] = pick[n] => m = n
         /\ \A m, n \in DOMAIN C : m < n => pick[m] < pick[n]
         /\ \A i \in keep : \E n \in DOMAIN C : pick[n] = i
  <2> HIDE DEF C, keep
  <2> QED
    BY <1>1, <1>2, RetainFacts
<1>4. /\ \A i \in keep : ~Is(j[i], "reservation") => i \in Retained(j)
      /\ \A i \in Retained(j) : i \in keep
      /\ \A i \in DOMAIN j : Is(j[i], "reservation") /\ Needed(j, i) => i \in keep
  BY DEF KeptPositions, Reservations
<1> HIDE DEF C, keep
<1>5. \A n \in DOMAIN C : pick[n] \in keep /\ pick[n] \in DOMAIN j /\ C[n] = j[pick[n]]
  BY <1>2, <1>3
<1>6. DOMAIN C = 1..Len(C) /\ Len(C) \in Nat
  BY <1>2
<1>7. ASSUME NEW n \in DOMAIN C, Is(C[n], "summary"), C[n].ids # {}
      PROVE  C[n].ids \in Modern(C)
  <2>1. pick[n] \in Retained(j)
    BY <1>4, <1>5, <1>7 DEF Is
  <2>2. j[pick[n]].ids \in Modern(j)
    BY <1>5, <1>7 DEF Consistent
  <2>3. PICK i \in DOMAIN j : Is(j[i], "reservation") /\ j[i].ids = C[n].ids
    BY <1>5, <2>2 DEF Modern, Reservations
  <2>4. Needed(j, i)
    BY <1>5, <1>7, <2>1, <2>3 DEF Needed
  <2>5. PICK k \in DOMAIN C : pick[k] = i
    BY <1>3, <1>4, <2>3, <2>4
  <2> QED
    BY <1>5, <2>3, <2>5 DEF Modern, Reservations
<1>8. Consistent(C)
  <2>1. \A n \in DOMAIN C : Is(C[n], "held") => \E m \in Messages : C[n].ids = {m}
    BY <1>5 DEF Consistent
  <2>2. \A n \in DOMAIN C : Is(C[n], "reservation") => C[n].ids # {}
    BY <1>5 DEF Consistent
  <2>3. \A n, k \in DOMAIN C :
           Is(C[n], "reservation") /\ Is(C[k], "reservation") /\ C[n].ids = C[k].ids => n = k
    BY <1>3, <1>5 DEF Consistent
  <2>4. \A n, k \in DOMAIN C :
           (Is(C[n], "summary") /\ Is(C[k], "summary") /\ C[n].ids # {} /\ C[n].ids = C[k].ids)
           => n = k
    BY <1>3, <1>5 DEF Consistent
  <2> QED
    BY <1>2, <1>7, <2>1, <2>2, <2>3, <2>4 DEF Consistent
<1>9. ASSUME NEW m, m \in Held(C) PROVE m \in Held(j)
  <2>1. PICK n \in DOMAIN C : HeldSince(C, n) /\ m \in C[n].ids
    BY <1>8, <1>9, HeldIff
  <2>2. \A i \in DOMAIN C : Is(C[i], "reservation") => m \notin C[i].ids
    BY <1>8, <1>9, HeldIff
  <2>3. pick[n] \in DOMAIN j /\ Is(j[pick[n]], "held") /\ j[pick[n]].ids = {m}
    BY <1>5, <2>1 DEF Consistent, HeldSince
  <2>4. pick[n] \in Retained(j)
    BY <1>4, <1>5, <2>3 DEF Is
  <2>5. ASSUME NEW i \in DOMAIN j, Older(j, i) PROVE i < pick[n]
    <3>1. i # pick[n] /\ ~Is(j[i], "reservation")
      BY <2>3, <2>5 DEF Older, Is
    <3>2. SUFFICES ASSUME pick[n] <= i PROVE FALSE
      BY <1>1, <2>3, <3>1
    <3>3. i \in keep
      BY <1>1, <1>4, <2>4, <3>1, <3>2, RetainedLast
    <3>4. PICK k \in DOMAIN C : pick[k] = i
      BY <1>3, <3>3
    <3>5. k < n
      BY <1>5, <2>1, <2>5, <3>4 DEF HeldSince, Older
    <3>6. pick[k] < pick[n]
      BY <1>3, <3>5
    <3> QED
      BY <1>1, <2>3, <3>2, <3>4, <3>6
  <2>6. ASSUME NEW i \in DOMAIN j, Is(j[i], "reservation") PROVE m \notin j[i].ids
    <3> SUFFICES ASSUME m \in j[i].ids PROVE FALSE
      OBVIOUS
    <3>1. Needed(j, i)
      BY <2>3, <2>4 DEF Needed
    <3>2. PICK k \in DOMAIN C : pick[k] = i
      BY <1>3, <1>4, <2>6, <3>1
    <3> QED
      BY <1>5, <2>2, <2>6, <3>2
  <2>7. HeldSince(j, pick[n]) /\ m \in j[pick[n]].ids
    BY <2>3, <2>5 DEF HeldSince
  <2> QED
    BY <2>3, <2>6, <2>7, HeldIff
<1>10. ASSUME NEW X \in Modern(j), ~Completed(j, X)
       PROVE  X \in Modern(C) /\ ~Completed(C, X)
  <2>1. PICK i \in DOMAIN j : Is(j[i], "reservation") /\ j[i].ids = X
    BY DEF Modern, Reservations
  <2>2. PICK k \in DOMAIN C : pick[k] = i
    BY <1>3, <1>4, <1>10, <2>1 DEF Needed
  <2>3. X \in Modern(C)
    BY <1>5, <2>1, <2>2 DEF Modern, Reservations
  <2>4. ~Completed(C, X)
    BY <1>5, <1>10 DEF Completed
  <2> QED
    BY <2>3, <2>4
<1>11. Reduces(j, C)
  <2>1. \A n \in DOMAIN C : \E i \in DOMAIN j : C[n] = j[i]
    BY <1>5
  <2> QED
    BY <1>8, <1>9, <1>10, <2>1 DEF Reduces
<1>12. ASSUME NEW m, Len(j) # 0, Is(j[Len(j)], "held"), m \in j[Len(j)].ids,
              \A i \in DOMAIN j : Is(j[i], "reservation") => m \notin j[i].ids
       PROVE  m \in Held(C)
  <2>1. Len(j) \in keep
    BY <1>1, <1>4, <1>12, RetainedLast DEF Is
  <2>2. PICK n \in DOMAIN C : pick[n] = Len(j)
    BY <1>3, <2>1
  <2>3. ASSUME NEW i \in DOMAIN C, Older(C, i) PROVE i < n
    <3>1. i # n
      BY <1>5, <1>12, <2>2, <2>3 DEF Older, Is
    <3> SUFFICES ASSUME n < i PROVE FALSE
      BY <1>6, <3>1
    <3>2. pick[n] < pick[i]
      BY <1>3
    <3> QED
      BY <1>1, <1>5, <2>2, <3>2
  <2>4. HeldSince(C, n) /\ m \in C[n].ids
    BY <1>5, <1>12, <2>2, <2>3 DEF HeldSince
  <2>5. \A i \in DOMAIN C : Is(C[i], "reservation") => m \notin C[i].ids
    BY <1>5, <1>12
  <2> QED
    BY <1>8, <2>4, <2>5, HeldIff
<1> QED
  BY <1>11, <1>12 DEF C

-----------------------------------------------------------------------------
\* The records after an append.
LEMMA AppendFacts ==
    ASSUME NEW j \in Seq(Entry), NEW e \in Entry
    PROVE  /\ Append(j, e) \in Seq(Entry)
           /\ DOMAIN j \subseteq DOMAIN Append(j, e)
           /\ Len(j) + 1 \in DOMAIN Append(j, e) /\ Len(j) + 1 \notin DOMAIN j
           /\ Len(Append(j, e)) = Len(j) + 1 /\ Append(j, e)[Len(j) + 1] = e
           /\ \A i \in DOMAIN j : Append(j, e)[i] = j[i] /\ i < Len(j) + 1
           /\ \A i \in DOMAIN Append(j, e) : i \in DOMAIN j \/ i = Len(j) + 1
  OBVIOUS

\* What a journal holds after an append, whatever is appended.
LEMMA AppendHeld ==
    ASSUME NEW j \in Seq(Entry), NEW e \in Entry
    PROVE  LET a == Append(j, e) IN
           /\ Modern(a) = IF Is(e, "reservation") THEN Modern(j) \cup {e.ids} ELSE Modern(j)
           /\ \A X : Completed(a, X) <=> Completed(j, X) \/ (Is(e, "summary") /\ e.ids = X)
           /\ \A m : (\E k \in DOMAIN a : HeldSince(a, k) /\ m \in a[k].ids)
                     => \/ \E k \in DOMAIN j : HeldSince(j, k) /\ m \in j[k].ids
                        \/ Is(e, "held") /\ m \in e.ids
           /\ \A m : (\A i \in DOMAIN a : Is(a[i], "reservation") => m \notin a[i].ids)
                     <=> /\ \A i \in DOMAIN j : Is(j[i], "reservation") => m \notin j[i].ids
                         /\ Is(e, "reservation") => m \notin e.ids
<1> DEFINE a == Append(j, e)
           N == Len(j) + 1
<1>1. /\ a \in Seq(Entry)
      /\ DOMAIN j \subseteq DOMAIN a
      /\ N \in DOMAIN a /\ N \notin DOMAIN j
      /\ a[N] = e
      /\ \A i \in DOMAIN j : a[i] = j[i] /\ i < N
      /\ \A i \in DOMAIN a : i \in DOMAIN j \/ i = N
  BY AppendFacts
<1> HIDE DEF a, N
<1>2. Modern(a) = IF Is(e, "reservation") THEN Modern(j) \cup {e.ids} ELSE Modern(j)
  <2>1. Reservations(a) = IF Is(e, "reservation") THEN Reservations(j) \cup {N} ELSE Reservations(j)
    BY <1>1 DEF Reservations
  <2>2. \A i \in Reservations(j) : a[i] = j[i]
    BY <1>1 DEF Reservations
  <2> QED
    BY <1>1, <2>1, <2>2 DEF Modern
<1>3. \A X : Completed(a, X) <=> Completed(j, X) \/ (Is(e, "summary") /\ e.ids = X)
  BY <1>1 DEF Completed
<1>4. ASSUME NEW m, NEW k \in DOMAIN a, HeldSince(a, k), m \in a[k].ids
      PROVE  \/ \E q \in DOMAIN j : HeldSince(j, q) /\ m \in j[q].ids
             \/ Is(e, "held") /\ m \in e.ids
  <2>1. CASE k = N
    BY <1>1, <1>4, <2>1 DEF HeldSince
  <2>2. CASE k \in DOMAIN j
    <3>1. \A i \in DOMAIN j : Older(j, i) => i < k
      BY <1>1, <1>4 DEF HeldSince, Older
    <3> QED
      BY <1>1, <1>4, <2>2, <3>1 DEF HeldSince
  <2> QED
    BY <1>1, <2>1, <2>2
<1>5. \A m : (\A i \in DOMAIN a : Is(a[i], "reservation") => m \notin a[i].ids)
             <=> /\ \A i \in DOMAIN j : Is(j[i], "reservation") => m \notin j[i].ids
                 /\ Is(e, "reservation") => m \notin e.ids
  BY <1>1
<1> QED
  BY <1>2, <1>3, <1>4, <1>5 DEF a

\* What may be appended.
MayAppend(j, e) ==
    /\ e \in Entry
    /\ Is(e, "held") => \E m \in Messages : e.ids = {m}
    /\ Is(e, "reservation") => e.ids # {} /\ e.ids \notin Modern(j)
    /\ Is(e, "summary") => e.ids # {} /\ e.ids \in Modern(j) /\ ~Completed(j, e.ids)

LEMMA AppendConsistent ==
    ASSUME NEW j, Consistent(j), NEW e, MayAppend(j, e)
    PROVE  Consistent(Append(j, e))
<1> DEFINE a == Append(j, e)
           N == Len(j) + 1
<1>0. j \in Seq(Entry) /\ e \in Entry
  BY DEF Consistent, MayAppend
<1>1. /\ a \in Seq(Entry)
      /\ DOMAIN j \subseteq DOMAIN a
      /\ N \in DOMAIN a /\ N \notin DOMAIN j
      /\ a[N] = e
      /\ \A i \in DOMAIN j : a[i] = j[i] /\ i < N
      /\ \A i \in DOMAIN a : i \in DOMAIN j \/ i = N
  BY <1>0, AppendFacts
<1>2. Modern(j) \subseteq Modern(a)
  BY <1>0, AppendHeld
<1> HIDE DEF a, N
<1>3. \A i \in DOMAIN a : Is(a[i], "held") => \E m \in Messages : a[i].ids = {m}
  BY <1>1 DEF Consistent, MayAppend
<1>4. \A i \in DOMAIN a : Is(a[i], "reservation") => a[i].ids # {}
  BY <1>1 DEF Consistent, MayAppend
<1>5. ASSUME NEW i \in DOMAIN a, NEW k \in DOMAIN a, Is(a[i], "reservation"),
             Is(a[k], "reservation"), a[i].ids = a[k].ids
      PROVE  i = k
  <2>1. \A q \in DOMAIN j : Is(j[q], "reservation") => j[q].ids \in Modern(j)
    BY DEF Modern, Reservations
  <2> QED
    BY <1>1, <1>5, <2>1 DEF Consistent, MayAppend
<1>6. \A i \in DOMAIN a : Is(a[i], "summary") /\ a[i].ids # {} => a[i].ids \in Modern(a)
  BY <1>1, <1>2 DEF Consistent, MayAppend
<1>7. ASSUME NEW i \in DOMAIN a, NEW k \in DOMAIN a, Is(a[i], "summary"), Is(a[k], "summary"),
             a[i].ids # {}, a[i].ids = a[k].ids
      PROVE  i = k
  <2>1. \A q \in DOMAIN j : Is(j[q], "summary") => Completed(j, j[q].ids)
    BY DEF Completed
  <2> QED
    BY <1>1, <1>7, <2>1 DEF Consistent, MayAppend
<1>8. Consistent(a)
  BY <1>1, <1>3, <1>4, <1>5, <1>6, <1>7 DEF Consistent
<1> QED
  BY <1>8 DEF a

\* Journal::append, with the compaction it may trigger.
LEMMA AppendedFacts ==
    ASSUME NEW j, Consistent(j), NEW e, MayAppend(j, e)
    PROVE  LET b == Appended(j, e) IN
           /\ Consistent(b)
           /\ \A n \in DOMAIN b : (\E i \in DOMAIN j : b[n] = j[i]) \/ b[n] = e
           /\ \A m \in Held(b) : m \in Held(j) \/ (Is(e, "held") /\ m \in e.ids)
           /\ Is(e, "reservation") => Held(b) \cap e.ids = {}
           /\ \A X \in Modern(j) :
                 ~Completed(j, X) /\ ~(Is(e, "summary") /\ e.ids = X)
                 => X \in Modern(b) /\ ~Completed(b, X)
           /\ Is(e, "reservation") => e.ids \in Modern(b) /\ ~Completed(b, e.ids)
           /\ \A m : /\ Is(e, "held") /\ m \in e.ids
                     /\ \A i \in DOMAIN j : Is(j[i], "reservation") => m \notin j[i].ids
                     => m \in Held(b)
<1> DEFINE a == Append(j, e)
           b == Appended(j, e)
<1>0. j \in Seq(Entry) /\ e \in Entry
  BY DEF Consistent, MayAppend
<1>1. /\ a \in Seq(Entry)
      /\ DOMAIN j \subseteq DOMAIN a
      /\ Len(a) = Len(j) + 1 /\ Len(a) # 0
      /\ Len(a) \in DOMAIN a /\ a[Len(a)] = e
      /\ \A i \in DOMAIN j : a[i] = j[i] /\ i < Len(a)
      /\ \A i \in DOMAIN a : i \in DOMAIN j \/ i = Len(a)
  BY <1>0, AppendFacts
<1>2. /\ Modern(a) = IF Is(e, "reservation") THEN Modern(j) \cup {e.ids} ELSE Modern(j)
      /\ \A X : Completed(a, X) <=> Completed(j, X) \/ (Is(e, "summary") /\ e.ids = X)
      /\ \A m : (\E k \in DOMAIN a : HeldSince(a, k) /\ m \in a[k].ids)
                => \/ \E k \in DOMAIN j : HeldSince(j, k) /\ m \in j[k].ids
                   \/ Is(e, "held") /\ m \in e.ids
      /\ \A m : (\A i \in DOMAIN a : Is(a[i], "reservation") => m \notin a[i].ids)
                <=> /\ \A i \in DOMAIN j : Is(j[i], "reservation") => m \notin j[i].ids
                    /\ Is(e, "reservation") => m \notin e.ids
  BY <1>0, AppendHeld
<1>3. Consistent(a)
  BY AppendConsistent
<1> HIDE DEF a
<1>4. b = IF Len(j) + 1 > CompactAt THEN Compacted(a) ELSE a
  BY DEF Appended, a
<1>5. Reduces(a, a)
  BY <1>3 DEF Reduces
<1>6. Reduces(a, b)
  BY <1>3, <1>4, <1>5, CompactedReduces
<1>7. ASSUME NEW m, Is(e, "held"), m \in e.ids,
             \A i \in DOMAIN j : Is(j[i], "reservation") => m \notin j[i].ids
      PROVE  m \in Held(b)
  <2>1. \A i \in DOMAIN a : Is(a[i], "reservation") => m \notin a[i].ids
    BY <1>2, <1>7 DEF Is
  <2>2. m \in Held(Compacted(a))
    BY <1>1, <1>3, <1>7, <2>1, CompactedReduces
  <2>3. HeldSince(a, Len(a))
    BY <1>1, <1>7 DEF HeldSince, Older, Is
  <2>4. m \in Held(a)
    BY <1>1, <1>3, <1>7, <2>1, <2>3, HeldIff
  <2> QED
    BY <1>4, <2>2, <2>4
<1> HIDE DEF b
<1>8. ASSUME NEW m \in Held(a)
      PROVE  /\ m \in Held(j) \/ (Is(e, "held") /\ m \in e.ids)
             /\ Is(e, "reservation") => m \notin e.ids
  <2>1. /\ \E k \in DOMAIN a : HeldSince(a, k) /\ m \in a[k].ids
        /\ \A i \in DOMAIN a : Is(a[i], "reservation") => m \notin a[i].ids
    BY <1>3, <1>8, HeldIff
  <2>2. m \in Held(j) <=> /\ \E k \in DOMAIN j : HeldSince(j, k) /\ m \in j[k].ids
                          /\ \A i \in DOMAIN j : Is(j[i], "reservation") => m \notin j[i].ids
    BY HeldIff
  <2> QED
    BY <1>2, <2>1, <2>2
<1>9. Consistent(b) /\ \A n \in DOMAIN b : (\E i \in DOMAIN j : b[n] = j[i]) \/ b[n] = e
  BY <1>1, <1>6 DEF Reduces
<1>10. /\ \A m \in Held(b) : m \in Held(j) \/ (Is(e, "held") /\ m \in e.ids)
       /\ Is(e, "reservation") => Held(b) \cap e.ids = {}
  BY <1>6, <1>8 DEF Reduces
<1>11. \A X \in Modern(j) :
          ~Completed(j, X) /\ ~(Is(e, "summary") /\ e.ids = X)
          => X \in Modern(b) /\ ~Completed(b, X)
  BY <1>2, <1>6 DEF Reduces
<1>12. Is(e, "reservation") => e.ids \in Modern(b) /\ ~Completed(b, e.ids)
  <2> SUFFICES ASSUME Is(e, "reservation") PROVE e.ids \in Modern(b) /\ ~Completed(b, e.ids)
    OBVIOUS
  <2>1. e.ids \notin Modern(j) /\ e.ids # {}
    BY DEF MayAppend
  <2>2. ~Completed(j, e.ids)
    BY <2>1 DEF Completed, Consistent
  <2> QED
    BY <1>2, <1>6, <2>2 DEF Reduces, Is
<1> QED
  BY <1>7, <1>9, <1>10, <1>11, <1>12 DEF b

-----------------------------------------------------------------------------
\* A recovered journal: the interrupted reservations have their summaries.
Recovers(j, c) ==
    /\ Consistent(c)
    /\ \A n \in DOMAIN c : \/ \E i \in DOMAIN j : c[n] = j[i]
                           \/ Is(c[n], "summary") /\ c[n].ids # {}
    /\ Held(c) \subseteq Held(j)

\* The records of this version that recovery appends.
LEMMA SummaryEntry ==
    ASSUME NEW ids \in SUBSET Messages, NEW kind \in Kinds
    PROVE  /\ NewEntry(kind, ids) \in Entry
           /\ NewEntry(kind, ids).ids = ids
           /\ \A k : Is(NewEntry(kind, ids), k) <=> kind = k
  BY DEF NewEntry, Entry, Kinds, Is

LEMMA AppendedType ==
    ASSUME NEW j \in Seq(Entry), NEW e \in Entry
    PROVE  Appended(j, e) \in Seq(Entry)
<1>1. Append(j, e) \in Seq(Entry)
  OBVIOUS
<1>2. Compacted(Append(j, e)) \in Seq(Entry)
  BY <1>1, CompactedType
<1> QED
  BY <1>1, <1>2 DEF Appended

\* The interrupted reservations: made once, and without a summary.
LEMMA InterruptedFacts ==
    ASSUME NEW j, Consistent(j)
    PROVE  LET open == Interrupted(j) IN
           /\ open \in Seq(Entry)
           /\ \A n \in DOMAIN open : /\ open[n].ids \in Modern(j) /\ open[n].ids # {}
                                     /\ ~Completed(j, open[n].ids)
           /\ \A n, k \in DOMAIN open : open[n].ids = open[k].ids => n = k
<1> DEFINE open == Interrupted(j)
           keep == {i \in Reservations(j) : ~Completed(j, j[i].ids)}
<1>1. j \in Seq(Entry) /\ keep \in SUBSET (DOMAIN j) /\ open = Retain(j, keep)
  BY DEF Consistent, Interrupted, Reservations
<1>2. /\ open \in Seq(Entry)
      /\ \E pick \in [DOMAIN open -> keep] :
            /\ \A n \in DOMAIN open : open[n] = j[pick[n]]
            /\ \A m, n \in DOMAIN open : pick[m] = pick[n] => m = n
  <2> HIDE DEF open, keep
  <2> QED
    BY <1>1, RetainFacts
<1>3. PICK pick \in [DOMAIN open -> keep] :
         /\ \A n \in DOMAIN open : open[n] = j[pick[n]]
         /\ \A m, n \in DOMAIN open : pick[m] = pick[n] => m = n
  BY <1>2
<1> HIDE DEF open
<1>4. \A n \in DOMAIN open : /\ open[n] = j[pick[n]] /\ pick[n] \in Reservations(j)
                             /\ ~Completed(j, j[pick[n]].ids)
  BY <1>3
<1>5. \A n \in DOMAIN open : /\ open[n].ids \in Modern(j) /\ open[n].ids # {}
                             /\ ~Completed(j, open[n].ids)
  BY <1>4 DEF Modern, Consistent, Reservations
<1>6. \A n, k \in DOMAIN open : open[n].ids = open[k].ids => n = k
  BY <1>3, <1>4 DEF Consistent, Reservations
<1> QED
  BY <1>2, <1>5, <1>6 DEF open

\* recover_interrupted, by induction over the interrupted reservations.
LEMMA RecoveredFacts ==
    ASSUME NEW j, Consistent(j)
    PROVE  Recovers(j, Recovered(j))
<1> DEFINE open == Interrupted(j)
           N == Len(open)
           sum(n) == NewEntry("summary", open[n].ids)
<1>1. /\ open \in Seq(Entry)
      /\ \A n \in DOMAIN open : /\ open[n].ids \in Modern(j) /\ open[n].ids # {}
                                /\ ~Completed(j, open[n].ids)
      /\ \A n, k \in DOMAIN open : open[n].ids = open[k].ids => n = k
  BY InterruptedFacts
<1>2. j \in Seq(Entry) /\ N \in Nat /\ DOMAIN open = 1..N
  BY <1>1 DEF Consistent
<1>3. \A n \in 1..N : /\ sum(n) \in Entry /\ sum(n).ids = open[n].ids
                      /\ \A k : Is(sum(n), k) <=> k = "summary"
  <2>0. \A n \in 1..N : open[n] \in Entry
    BY <1>1, <1>2
  <2>1. \A n \in 1..N : open[n].ids \in SUBSET Messages
    BY <2>0 DEF Entry
  <2>2. "summary" \in Kinds
    BY DEF Kinds
  <2> HIDE DEF open
  <2> QED
    BY <2>1, <2>2, SummaryEntry
<1> DEFINE IsLog(f) == f = [n \in 0..N |-> IF n = 0 THEN j ELSE Appended(f[n-1], sum(n))]
           log == CHOOSE f : IsLog(f)
<1>4. Recovered(j) = log[N]
  BY DEF Recovered
<1> HIDE DEF open, N, sum
<1>5. PICK g \in [0..N -> Seq(Entry)] :
         g[0] = j /\ \A i \in 1..N : g[i] = Appended(g[i-1], sum(i))
  <2> DEFINE F == [i \in 1..N |-> [c \in Seq(Entry) |-> Appended(c, sum(i))]]
  <2>1. F \in [1..N -> [Seq(Entry) -> Seq(Entry)]]
    <3>1. \A i \in 1..N, c \in Seq(Entry) : Appended(c, sum(i)) \in Seq(Entry)
      BY <1>3, AppendedType
    <3> QED
      BY <3>1
  <2>2. \A i \in 1..N, c \in Seq(Entry) : F[i][c] = Appended(c, sum(i))
    OBVIOUS
  <2> HIDE DEF F
  <2>3. PICK g \in [0..N -> Seq(Entry)] : g[0] = j /\ \A i \in 1..N : g[i] = F[i][g[i-1]]
    <3> DEFINE S == Seq(Entry)
    <3>1. j \in S /\ N \in Nat /\ F \in [1..N -> [S -> S]]
      BY <1>2, <2>1
    <3> HIDE DEF S
    <3>2. \E g \in [0..N -> S] : g[0] = j /\ \A i \in 1..N : g[i] = F[i][g[i-1]]
      BY <3>1, RecursionExists
    <3> QED
      BY <3>2 DEF S
  <2>4. \A i \in 1..N : i - 1 \in 0..N
    BY <1>2
  <2> QED
    BY <2>2, <2>3, <2>4
<1>6. IsLog(g)
  <2> DEFINE h == [n \in 0..N |-> IF n = 0 THEN j ELSE Appended(g[n-1], sum(n))]
  <2>1. \A n \in 0..N : g[n] = h[n]
    <3>1. \A n \in 0..N : n # 0 => n \in 1..N
      BY <1>2
    <3> QED
      BY <1>5, <3>1
  <2>2. DOMAIN g = 0..N /\ g = [n \in 0..N |-> g[n]] /\ h = [n \in 0..N |-> h[n]]
    BY <1>5
  <2>3. g = h
    BY <2>1, <2>2
  <2> QED
    BY <2>3
<1>7. IsLog(log)
  <2> HIDE DEF IsLog
  <2> QED
    BY <1>6
<1>8. log[0] = j /\ \A i \in 1..N : log[i] = Appended(log[i-1], sum(i))
  <2> HIDE DEF log
  <2>1. \A n \in 0..N : log[n] = IF n = 0 THEN j ELSE Appended(log[n-1], sum(n))
    BY <1>7
  <2> QED
    BY <1>2, <2>1
<1> HIDE DEF log, IsLog
<1> DEFINE Good(n) == /\ Recovers(j, log[n])
                      /\ \A r \in 1..N : r > n => /\ open[r].ids \in Modern(log[n])
                                                  /\ ~Completed(log[n], open[r].ids)
           T == {n \in 0..N : Good(n)}
<1>9. 0 \in T
  <2>1. Recovers(j, j)
    BY DEF Recovers
  <2>2. \A r \in 1..N : open[r].ids \in Modern(log[0]) /\ ~Completed(log[0], open[r].ids)
    BY <1>1, <1>2, <1>8
  <2>3. Good(0)
    BY <1>8, <2>1, <2>2
  <2> HIDE DEF Good
  <2> QED
    BY <1>2, <2>3
<1>10. ASSUME NEW i \in 1..N, i - 1 \in T PROVE i \in T
  <2> DEFINE a == log[i-1]
             b == log[i]
  <2>1. b = Appended(a, sum(i)) /\ i \in 0..N
    BY <1>2, <1>8
  <2>2. Recovers(j, a) /\ \A r \in 1..N : r > i - 1 => /\ open[r].ids \in Modern(a)
                                                      /\ ~Completed(a, open[r].ids)
    BY <1>10
  <2> HIDE DEF a, b, T
  <2>3. i > i - 1 /\ \A r \in 1..N : r > i => r > i - 1 /\ r # i
    BY <1>2
  <2>4. MayAppend(a, sum(i))
    BY <1>1, <1>2, <1>3, <2>2, <2>3 DEF MayAppend
  <2>5. Consistent(a)
    BY <2>2 DEF Recovers
  <2>6. /\ Consistent(b)
        /\ \A n \in DOMAIN b : (\E k \in DOMAIN a : b[n] = a[k]) \/ b[n] = sum(i)
        /\ \A m \in Held(b) : m \in Held(a) \/ (Is(sum(i), "held") /\ m \in sum(i).ids)
        /\ \A X \in Modern(a) :
              ~Completed(a, X) /\ ~(Is(sum(i), "summary") /\ sum(i).ids = X)
              => X \in Modern(b) /\ ~Completed(b, X)
    BY <2>1, <2>4, <2>5, AppendedFacts
  <2>7. Held(b) \subseteq Held(j)
    BY <1>3, <2>2, <2>6 DEF Recovers
  <2>8. \A n \in DOMAIN b : \/ \E k \in DOMAIN j : b[n] = j[k]
                            \/ Is(b[n], "summary") /\ b[n].ids # {}
    BY <1>1, <1>2, <1>3, <2>2, <2>6 DEF Recovers
  <2>9. \A r \in 1..N : r > i => open[r].ids \in Modern(b) /\ ~Completed(b, open[r].ids)
    <3> SUFFICES ASSUME NEW r \in 1..N, r > i
                 PROVE  open[r].ids \in Modern(b) /\ ~Completed(b, open[r].ids)
      OBVIOUS
    <3>1. open[r].ids # open[i].ids
      BY <1>1, <1>2, <2>3
    <3>2. open[r].ids \in Modern(a) /\ ~Completed(a, open[r].ids)
      BY <2>2, <2>3
    <3> QED
      BY <1>3, <2>6, <3>1, <3>2
  <2>10. Recovers(j, b)
    BY <2>6, <2>7, <2>8 DEF Recovers
  <2> QED
    BY <2>1, <2>9, <2>10 DEF T, b
<1>11. N \in T
  <2> HIDE DEF T
  <2>1. \A i \in 0..N : i \in T
    BY <1>2, <1>9, <1>10, IntervalInduction
  <2> QED
    BY <1>2, <2>1
<1> QED
  BY <1>4, <1>11

-----------------------------------------------------------------------------
(* Notifications: the inductive invariant.                                 *)

\* The journal agrees with the history: what is held was seen, what is
\* reserved was reported, and nothing reported is pending.
JournalOK(j, s, r) ==
    /\ Consistent(j)
    /\ \A i \in DOMAIN j : Is(j[i], "held") => j[i].ids \subseteq s
    /\ \A i \in DOMAIN j : Is(j[i], "reservation") => j[i].ids \subseteq r
    /\ Held(j) \cap r = {}

\* Whoever sends a summary holds the flush lock, and its reservation is in the
\* log without a summary; a message under way was never logged.
ProcOK(p) ==
    /\ proc[p].job # NoMessage => proc[p].job \notin fresh /\ proc[p].job \notin seen
    /\ proc[p].at \in {"decide", "held", "suppressed", "deliver"} => proc[p].job # NoMessage
    /\ proc[p].at \in {"check", "reserve", "summary"} => p \in flushing
    /\ proc[p].at = "summary" => /\ proc[p].ids # {} /\ proc[p].ids \in Modern(journal)
                                 /\ ~Completed(journal, proc[p].ids)

ProcsOK ==
    /\ proc \in [Procs -> ProcType]
    /\ \A p \in Procs : ProcOK(p)
    /\ \A p, q \in Procs : proc[p].job # NoMessage /\ proc[p].job = proc[q].job => p = q

NotifyInv ==
    /\ NotifyTypeOK
    /\ JournalOK(journal, seen, reported)
    /\ reported \subseteq seen /\ seen \cap fresh = {}
    /\ ProcsOK
    /\ \A p, q \in flushing : p = q

\* Recovery keeps the journal in agreement with the history.
LEMMA RecoveredOK ==
    ASSUME NEW j, NEW s, NEW r, JournalOK(j, s, r)
    PROVE  JournalOK(Recovered(j), s, r) /\ Held(Recovered(j)) \subseteq Held(j)
<1> DEFINE c == Recovered(j)
<1>1. Recovers(j, c)
  BY RecoveredFacts DEF JournalOK
<1> HIDE DEF c
<1>2. /\ \A n \in DOMAIN c : Is(c[n], "held") => \E i \in DOMAIN j : c[n] = j[i]
      /\ \A n \in DOMAIN c : Is(c[n], "reservation") => \E i \in DOMAIN j : c[n] = j[i]
  BY <1>1 DEF Recovers, Is
<1>3. JournalOK(c, s, r) /\ Held(c) \subseteq Held(j)
  BY <1>1, <1>2 DEF Recovers, JournalOK
<1> QED
  BY <1>3 DEF c

\* So does an append, when the history follows.
LEMMA AppendedOK ==
    ASSUME NEW j, NEW s, NEW r, JournalOK(j, s, r), NEW e, MayAppend(j, e),
           Is(e, "held") => e.ids \cap r = {}
    PROVE  LET b == Appended(j, e)
               s2 == IF Is(e, "held") THEN s \cup e.ids ELSE s
               r2 == IF Is(e, "reservation") THEN r \cup e.ids ELSE r
           IN  JournalOK(b, s2, r2)
<1> DEFINE b == Appended(j, e)
           s2 == IF Is(e, "held") THEN s \cup e.ids ELSE s
           r2 == IF Is(e, "reservation") THEN r \cup e.ids ELSE r
<1>1. /\ Consistent(b)
      /\ \A n \in DOMAIN b : (\E i \in DOMAIN j : b[n] = j[i]) \/ b[n] = e
      /\ \A m \in Held(b) : m \in Held(j) \/ (Is(e, "held") /\ m \in e.ids)
      /\ Is(e, "reservation") => Held(b) \cap e.ids = {}
  BY AppendedFacts DEF JournalOK
<1> HIDE DEF b
<1>2. \A i \in DOMAIN b : Is(b[i], "held") => b[i].ids \subseteq s2
  BY <1>1 DEF JournalOK
<1>3. \A i \in DOMAIN b : Is(b[i], "reservation") => b[i].ids \subseteq r2
  BY <1>1 DEF JournalOK
<1>4. Held(b) \cap r2 = {}
  BY <1>1 DEF JournalOK, Is
<1>5. JournalOK(b, s2, r2)
  BY <1>1, <1>2, <1>3, <1>4 DEF JournalOK
<1> QED
  BY <1>5 DEF b

\* What is pending was seen and is a notification.
LEMMA PendingSeen ==
    ASSUME NEW j, NEW s, NEW r, JournalOK(j, s, r)
    PROVE  /\ Held(j) \subseteq s /\ Held(j) \subseteq Messages
           /\ UNION Modern(j) \subseteq Messages
<1>1. Consistent(j) /\ \A i \in DOMAIN j : Is(j[i], "held") => j[i].ids \subseteq s
  BY DEF JournalOK
<1>2. \A i \in DOMAIN j : j[i].ids \subseteq Messages
  <2>1. \A i \in DOMAIN j : j[i] \in Entry
    BY <1>1 DEF Consistent
  <2> QED
    BY <2>1 DEF Entry
<1>3. ASSUME NEW m \in Held(j) PROVE m \in s /\ m \in Messages
  <2>1. PICK k \in DOMAIN j : HeldSince(j, k) /\ m \in j[k].ids
    BY <1>1, <1>3, HeldIff
  <2> QED
    BY <1>1, <1>2, <2>1 DEF HeldSince
<1>4. UNION Modern(j) \subseteq Messages
  BY <1>2 DEF Modern, Reservations
<1> QED
  BY <1>3, <1>4

\* The passing of an hour leaves the kinds and the ids of the records.
LEMMA SameRecords ==
    ASSUME NEW j \in Seq(Entry), NEW c \in Seq(Entry), DOMAIN c = DOMAIN j,
           \A i \in DOMAIN j : c[i].kind = j[i].kind /\ c[i].ids = j[i].ids
    PROVE  /\ Modern(c) = Modern(j) /\ Held(c) = Held(j)
           /\ \A X : Completed(c, X) <=> Completed(j, X)
           /\ \A s, r : JournalOK(j, s, r) => JournalOK(c, s, r)
<1>1. Reservations(c) = Reservations(j)
  BY DEF Reservations, Is
<1>2. Modern(c) = Modern(j)
  <2>1. \A i \in Reservations(j) : c[i].ids = j[i].ids
    BY DEF Reservations
  <2> QED
    BY <1>1, <2>1 DEF Modern
<1>3. \A X : Completed(c, X) <=> Completed(j, X)
  BY DEF Completed, Is
<1>4. Since(c) = Since(j)
  <2> DEFINE legacy(x) == {i \in DOMAIN x : Is(x[i], "summary") /\ x[i].ids \notin Modern(x)}
             last(L) == IF L = {} THEN 0 ELSE CHOOSE i \in L : \A k \in L : k <= i
  <2>1. legacy(c) = legacy(j)
    BY <1>2 DEF Is
  <2>2. Since(c) = last(legacy(c)) /\ Since(j) = last(legacy(j))
    BY DEF Since
  <2> HIDE DEF legacy, last
  <2> QED
    BY <2>1, <2>2
<1>5. Held(c) = Held(j)
  <2> DEFINE at(x) == {k \in DOMAIN x : k > Since(x) /\ Is(x[k], "held")}
             sets(x) == {x[i].ids : i \in at(x)}
  <2>1. at(c) = at(j)
    BY <1>4 DEF Is
  <2>2. \A i \in at(j) : c[i].ids = j[i].ids
    OBVIOUS
  <2>3. sets(c) = sets(j)
    <3> HIDE DEF at
    <3> QED
      BY <2>1, <2>2
  <2>4. Held(c) = (UNION sets(c)) \ (UNION Modern(c)) /\ Held(j) = (UNION sets(j)) \ (UNION Modern(j))
    BY DEF Held
  <2> HIDE DEF sets
  <2> QED
    BY <1>2, <2>3, <2>4
<1>6. Consistent(j) => Consistent(c)
  BY <1>2 DEF Consistent, Is
<1>7. \A s, r : JournalOK(j, s, r) => JournalOK(c, s, r)
  BY <1>5, <1>6 DEF JournalOK, Is
<1> QED
  BY <1>2, <1>3, <1>5, <1>7

\* A step of process p after which it is as R says.
MovesTo(p, R) ==
    /\ R \in ProcType /\ proc' = [proc EXCEPT ![p] = R] /\ fresh' \subseteq fresh
    /\ \A q \in Procs \ {p} :
          /\ q \in flushing => q \in flushing'
          /\ proc[q].job # NoMessage => proc[q].job \notin seen' /\ proc[q].job # R.job
          /\ proc[q].at = "summary" => /\ proc[q].ids \in Modern(journal')
                                       /\ ~Completed(journal', proc[q].ids)
    /\ R.job # NoMessage => R.job \notin fresh' /\ R.job \notin seen'
    /\ R.at \in {"decide", "held", "suppressed", "deliver"} => R.job # NoMessage
    /\ R.at \in {"check", "reserve", "summary"} => p \in flushing'
    /\ R.at = "summary" => /\ R.ids # {} /\ R.ids \in Modern(journal')
                           /\ ~Completed(journal', R.ids)

\* The invariant of the processes after such a step.
LEMMA ProcsKept ==
    ASSUME ProcsOK, NEW p \in Procs, NEW R, MovesTo(p, R)
    PROVE  ProcsOK'
<1>1. /\ proc' \in [Procs -> ProcType] /\ proc'[p] = R
      /\ \A q \in Procs \ {p} : proc'[q] = proc[q]
  BY DEF ProcsOK, MovesTo
<1>2. ProcOK(p)'
  BY <1>1 DEF ProcOK, MovesTo
<1>3. ASSUME NEW q \in Procs \ {p} PROVE ProcOK(q)'
  <2>1. ProcOK(q)
    BY DEF ProcsOK
  <2> QED
    BY <1>1, <2>1 DEF ProcOK, MovesTo
<1>4. \A q, u \in Procs : proc'[q].job # NoMessage /\ proc'[q].job = proc'[u].job => q = u
  BY <1>1 DEF ProcsOK, MovesTo
<1> QED
  BY <1>1, <1>2, <1>3, <1>4 DEF ProcsOK

-----------------------------------------------------------------------------
(* Notifications: the steps.                                               *)

\* What a step does to what is pending: it drops some, holds one more, or
\* takes all for a summary.
PendingStep ==
    \/ /\ Held(journal') \subseteq Held(journal)
       /\ seen' = seen /\ reported' = reported
    \/ \E m \in Messages \ seen :
          /\ seen' = seen \cup {m} /\ reported' = reported
          /\ m \in Held(journal') /\ Held(journal') \subseteq Held(journal) \cup {m}
    \/ /\ Held(journal) # {} /\ Held(journal') = {}
       /\ seen' = seen /\ reported' = reported \cup Held(journal)

\* The parts of the invariant that a step has to bring back.
LEMMA Regained ==
    ASSUME NotifyInv,
           JournalOK(journal', seen', reported'), flushing' \subseteq Procs,
           ProcsOK',
           \A q, u \in flushing' : q = u,
           cooldown' \in [Procs -> SUBSET DedupeKeys], quiet' \in BOOLEAN,
           faults' \in 0..MaxFaults, windows' \in 0..MaxQuiet, fresh' \subseteq fresh,
           seen' \subseteq Messages, reported' \subseteq seen', seen' \cap fresh' = {}
    PROVE  NotifyInv'
<1>1. journal' \in Seq(Entry)
  BY DEF JournalOK, Consistent
<1>2. NotifyTypeOK'
  BY <1>1 DEF NotifyInv, NotifyTypeOK, ProcsOK
<1>3. JournalOK(journal, seen, reported)'
  BY DEF JournalOK, Consistent, Held, Modern, Reservations, Since, Is
<1> QED
  BY <1>2, <1>3 DEF NotifyInv

\* Facts of the invariant that every step uses.
LEMMA Known ==
    ASSUME NotifyInv
    PROVE  /\ JournalOK(journal, seen, reported) /\ journal \in Seq(Entry)
           /\ flushing \subseteq Procs /\ \A q, u \in flushing : q = u
           /\ ProcsOK /\ proc \in [Procs -> ProcType] /\ \A q \in Procs : ProcOK(q)
           /\ cooldown \in [Procs -> SUBSET DedupeKeys] /\ quiet \in BOOLEAN
           /\ faults \in 0..MaxFaults /\ windows \in 0..MaxQuiet
           /\ fresh \subseteq Messages /\ seen \subseteq Messages
           /\ reported \subseteq seen /\ seen \cap fresh = {}
           /\ Idle \in ProcType /\ Idle.job = NoMessage /\ Idle.at = "idle"
  BY DEF NotifyInv, NotifyTypeOK, ProcsOK, Idle, ProcType

\* Taking the flush lock, for a message that is not under way elsewhere.
LEMMA FlushLockStep ==
    ASSUME NotifyInv, NEW p \in Procs, NEW job \in Messages \cup {NoMessage},
           proc[p].at = "idle", FlushLock(p, job), fresh' \subseteq fresh,
           job # NoMessage => /\ job \notin fresh' /\ job \notin seen
                              /\ \A q \in Procs \ {p} : job # proc[q].job,
           UNCHANGED <<cooldown, quiet, faults, windows, seen, reported>>
    PROVE  NotifyInv' /\ PendingStep
<1>0. /\ JournalOK(journal, seen, reported) /\ flushing \subseteq Procs
      /\ \A q, u \in flushing : q = u
      /\ ProcsOK /\ \A q \in Procs : ProcOK(q)
      /\ cooldown \in [Procs -> SUBSET DedupeKeys] /\ quiet \in BOOLEAN
      /\ faults \in 0..MaxFaults /\ windows \in 0..MaxQuiet
      /\ fresh \subseteq Messages /\ seen \subseteq Messages
      /\ reported \subseteq seen /\ seen \cap fresh = {}
  BY Known
<1>1. CASE flushing = {}
  <2> DEFINE R == [Idle EXCEPT !.at = "check", !.job = job]
  <2>1. flushing' = {p} /\ journal' = Recovered(journal) /\ proc' = [proc EXCEPT ![p] = R]
    BY <1>1 DEF FlushLock
  <2>2. R \in ProcType /\ R.job = job /\ R.at = "check"
    BY DEF Idle, ProcType
  <2>3. JournalOK(journal', seen, reported) /\ Held(journal') \subseteq Held(journal)
    BY <1>0, <2>1, RecoveredOK
  <2> HIDE DEF R
  <2>4. MovesTo(p, R)
    BY <1>0, <1>1, <2>1, <2>2 DEF ProcOK, MovesTo
  <2>5. ProcsOK'
    BY <1>0, <2>4, ProcsKept
  <2>6. NotifyInv'
    BY <1>0, <2>1, <2>3, <2>5, Regained
  <2> QED
    BY <2>3, <2>6 DEF PendingStep
<1>2. CASE flushing # {}
  <2> DEFINE R == AfterFlush(job)
  <2>1. proc' = [proc EXCEPT ![p] = R] /\ flushing' = flushing /\ journal' = journal
    BY <1>2 DEF FlushLock
  <2>2. R \in ProcType /\ R.job = job /\ R.at \in {"idle", "decide"} /\ (R.at = "decide" => job # NoMessage)
    BY DEF Idle, ProcType, AfterFlush
  <2> HIDE DEF R
  <2>4. MovesTo(p, R)
    BY <1>0, <2>1, <2>2 DEF ProcOK, MovesTo
  <2>5. ProcsOK'
    BY <1>0, <2>4, ProcsKept
  <2>6. NotifyInv'
    BY <1>0, <2>1, <2>5, Regained
  <2> QED
    BY <2>1, <2>6 DEF PendingStep
<1> QED
  BY <1>1, <1>2

LEMMA DispatchStep ==
    ASSUME NotifyInv, NEW p \in Procs, NEW m \in fresh, Dispatch(p, m)
    PROVE  NotifyInv' /\ PendingStep
<1>1. m \in Messages /\ m \notin seen /\ \A q \in Procs \ {p} : m # proc[q].job
  <2>1. NoMessage \notin Messages
    BY NotifyAssumption
  <2> QED
    BY <2>1, Known DEF ProcOK
<1>2. fresh' \subseteq fresh /\ m \notin fresh'
  BY DEF Dispatch
<1> QED
  BY <1>1, <1>2, FlushLockStep DEF Dispatch

LEMMA FlushTimerStep ==
    ASSUME NotifyInv, NEW p \in Procs, FlushTimer(p)
    PROVE  NotifyInv' /\ PendingStep
  BY FlushLockStep DEF FlushTimer

\* A step of p that leaves the journal alone and starts no summary.
LEMMA QuietMove ==
    ASSUME NotifyInv, NEW p \in Procs, NEW R \in ProcType, proc' = [proc EXCEPT ![p] = R],
           R.job = NoMessage \/ R.job = proc[p].job,
           R.at \in {"decide", "held", "suppressed", "deliver"} => R.job # NoMessage,
           R.at \in {"check", "reserve", "summary"} => p \in flushing' /\ R.at # "summary",
           flushing' = flushing \/ flushing' = flushing \ {p},
           journal' = journal, fresh' = fresh, seen' = seen, reported' = reported,
           cooldown' \in [Procs -> SUBSET DedupeKeys], quiet' = quiet,
           faults' \in 0..MaxFaults, windows' = windows
    PROVE  NotifyInv' /\ PendingStep
<1>0. /\ JournalOK(journal, seen, reported) /\ flushing \subseteq Procs
      /\ \A q, u \in flushing : q = u
      /\ ProcsOK /\ \A q \in Procs : ProcOK(q)
      /\ quiet \in BOOLEAN /\ windows \in 0..MaxQuiet
      /\ fresh \subseteq Messages /\ seen \subseteq Messages
      /\ reported \subseteq seen /\ seen \cap fresh = {}
  BY Known
<1>1. MovesTo(p, R)
  <2>1. /\ R \in ProcType /\ proc' = [proc EXCEPT ![p] = R] /\ fresh' \subseteq fresh
        /\ R.job # NoMessage => R.job \notin fresh' /\ R.job \notin seen'
    BY <1>0 DEF ProcOK
  <2>2. ASSUME NEW q \in Procs \ {p}
        PROVE  /\ q \in flushing => q \in flushing'
               /\ proc[q].job # NoMessage => proc[q].job \notin seen' /\ proc[q].job # R.job
               /\ proc[q].at = "summary" => /\ proc[q].ids \in Modern(journal')
                                            /\ ~Completed(journal', proc[q].ids)
    <3>1. proc[q].job # NoMessage => proc[q].job # proc[p].job
      BY <1>0 DEF ProcsOK
    <3> QED
      BY <1>0, <3>1 DEF ProcOK
  <2> QED
    BY <2>1, <2>2 DEF MovesTo
<1>2. ProcsOK'
  BY <1>0, <1>1, ProcsKept
<1>3. NotifyInv'
  BY <1>0, <1>2, Regained
<1> QED
  BY <1>3 DEF PendingStep

\* Where a process goes, and what remains when a flush ends.
LEMMA PlaceType ==
    ASSUME NotifyInv, NEW p \in Procs,
           NEW place \in {"idle", "check", "reserve", "summary", "decide", "held", "suppressed",
                          "deliver"}
    PROVE  LET R == [proc[p] EXCEPT !.at = place] IN
           /\ R \in ProcType /\ R.at = place /\ R.job = proc[p].job /\ R.ids = proc[p].ids
           /\ [proc EXCEPT ![p].at = place] = [proc EXCEPT ![p] = R]
  BY Known DEF ProcType

LEMMA AfterFlushType ==
    ASSUME NEW job \in Messages \cup {NoMessage}
    PROVE  /\ AfterFlush(job) \in ProcType /\ AfterFlush(job).job = job
           /\ AfterFlush(job).at = IF job = NoMessage THEN "idle" ELSE "decide"
  BY DEF AfterFlush, Idle, ProcType

LEMMA FlushCheckStep ==
    ASSUME NotifyInv, NEW p \in Procs, FlushCheck(p)
    PROVE  NotifyInv' /\ PendingStep
<1>0. /\ proc \in [Procs -> ProcType] /\ ProcOK(p) /\ cooldown \in [Procs -> SUBSET DedupeKeys]
      /\ faults \in 0..MaxFaults
      /\ proc[p].at = "check"
      /\ UNCHANGED <<journal, cooldown, quiet, faults, windows, fresh, seen, reported>>
  BY Known DEF FlushCheck
<1>1. CASE Holding(FALSE)
  <2>1. proc[p].job \in Messages \cup {NoMessage}
    BY <1>0 DEF ProcType
  <2>2. proc' = [proc EXCEPT ![p] = AfterFlush(proc[p].job)] /\ flushing' = flushing \ {p}
    BY <1>1 DEF FlushCheck, FlushEnds
  <2>3. /\ AfterFlush(proc[p].job) \in ProcType /\ AfterFlush(proc[p].job).job = proc[p].job
        /\ AfterFlush(proc[p].job).at = IF proc[p].job = NoMessage THEN "idle" ELSE "decide"
    BY <2>1, AfterFlushType
  <2> QED
    BY <1>0, <2>2, <2>3, QuietMove
<1>2. CASE ~Holding(FALSE)
  <2> DEFINE R == [proc[p] EXCEPT !.at = "reserve"]
  <2>1. proc' = [proc EXCEPT ![p] = R] /\ flushing' = flushing
    BY <1>2, PlaceType DEF FlushCheck, Enter
  <2>2. R \in ProcType /\ R.at = "reserve" /\ R.job = proc[p].job
    BY PlaceType
  <2>3. p \in flushing
    BY <1>0 DEF ProcOK
  <2> HIDE DEF R
  <2> QED
    BY <1>0, <2>1, <2>2, <2>3, QuietMove
<1> QED
  BY <1>1, <1>2

\* The end of a flush that leaves the journal alone.
LEMMA FlushEndsStep ==
    ASSUME NotifyInv, NEW p \in Procs, FlushEnds(p), faults' \in 0..MaxFaults,
           UNCHANGED <<journal, cooldown, quiet, windows, fresh, seen, reported>>
    PROVE  NotifyInv' /\ PendingStep
<1>1. /\ proc[p].job \in Messages \cup {NoMessage}
      /\ cooldown \in [Procs -> SUBSET DedupeKeys]
  BY Known DEF ProcType
<1>2. proc' = [proc EXCEPT ![p] = AfterFlush(proc[p].job)] /\ flushing' = flushing \ {p}
  BY DEF FlushEnds
<1>3. /\ AfterFlush(proc[p].job) \in ProcType /\ AfterFlush(proc[p].job).job = proc[p].job
      /\ AfterFlush(proc[p].job).at = IF proc[p].job = NoMessage THEN "idle" ELSE "decide"
  BY <1>1, AfterFlushType
<1> QED
  BY <1>1, <1>2, <1>3, QuietMove

LEMMA FlushFailsStep ==
    ASSUME NotifyInv, NEW p \in Procs, FlushFails(p)
    PROVE  NotifyInv' /\ PendingStep
<1>1. faults' \in 0..MaxFaults
  BY Known, NotifyAssumption DEF FlushFails
<1> QED
  BY <1>1, FlushEndsStep DEF FlushFails

LEMMA DecideStep ==
    ASSUME NotifyInv, NEW p \in Procs, Decide(p)
    PROVE  NotifyInv' /\ PendingStep
<1>0. /\ proc[p].at = "decide" /\ proc[p].job # NoMessage
      /\ cooldown \in [Procs -> SUBSET DedupeKeys] /\ faults \in 0..MaxFaults
      /\ proc[p].job \in Messages
      /\ UNCHANGED <<journal, flushing, quiet, faults, windows, fresh, seen, reported>>
  BY Known DEF Decide, ProcOK, ProcType
<1>1. PICK place \in {"held", "suppressed", "deliver"} :
         /\ proc' = [proc EXCEPT ![p].at = place]
         /\ \/ cooldown' = cooldown
            \/ cooldown' = [cooldown EXCEPT ![p] = @ \cup {KeyOf[proc[p].job]}]
  BY DEF Decide, Enter
<1>2. KeyOf[proc[p].job] \in DedupeKeys
  BY <1>0, NotifyAssumption
<1>3. cooldown' \in [Procs -> SUBSET DedupeKeys]
  BY <1>0, <1>1, <1>2
<1> DEFINE R == [proc[p] EXCEPT !.at = place]
<1>4. R \in ProcType /\ R.at = place /\ R.job = proc[p].job /\ proc' = [proc EXCEPT ![p] = R]
  <2>1. place \in {"idle", "check", "reserve", "summary", "decide", "held", "suppressed", "deliver"}
    OBVIOUS
  <2> QED
    BY <1>1, <2>1, PlaceType
<1> HIDE DEF R
<1> QED
  BY <1>0, <1>3, <1>4, QuietMove

LEMMA LogFailsStep ==
    ASSUME NotifyInv, NEW p \in Procs, LogFails(p)
    PROVE  NotifyInv' /\ PendingStep
<1>1. faults' \in 0..MaxFaults
  BY Known, NotifyAssumption DEF LogFails
<1>2. /\ Idle \in ProcType /\ Idle.job = NoMessage /\ Idle.at = "idle"
      /\ cooldown \in [Procs -> SUBSET DedupeKeys]
  BY Known
<1> QED
  BY <1>1, <1>2, QuietMove DEF LogFails

LEMMA CrashStep ==
    ASSUME NotifyInv, NEW p \in Procs, Crash(p)
    PROVE  NotifyInv' /\ PendingStep
<1>1. faults' \in 0..MaxFaults
  BY Known, NotifyAssumption DEF Crash
<1>2. /\ Idle \in ProcType /\ Idle.job = NoMessage /\ Idle.at = "idle"
      /\ cooldown' \in [Procs -> SUBSET DedupeKeys]
  BY Known DEF Crash
<1> QED
  BY <1>1, <1>2, QuietMove DEF Crash

\* Reserving what is held: what is pending is reported, and nothing remains.
LEMMA FlushReserveStep ==
    ASSUME NotifyInv, NEW p \in Procs, FlushReserve(p)
    PROVE  NotifyInv' /\ PendingStep
<1>0. /\ JournalOK(journal, seen, reported) /\ flushing \subseteq Procs
      /\ \A q, u \in flushing : q = u
      /\ ProcsOK /\ \A q \in Procs : ProcOK(q)
      /\ cooldown \in [Procs -> SUBSET DedupeKeys] /\ quiet \in BOOLEAN
      /\ faults \in 0..MaxFaults /\ windows \in 0..MaxQuiet
      /\ fresh \subseteq Messages /\ seen \subseteq Messages
      /\ reported \subseteq seen /\ seen \cap fresh = {} /\ proc[p] \in ProcType
      /\ proc[p].at = "reserve"
  BY Known DEF FlushReserve
<1>1. CASE Held(journal) = {}
  BY <1>0, <1>1, FlushEndsStep DEF FlushReserve
<1>2. CASE Held(journal) # {}
  <2> DEFINE X == Held(journal)
             e == NewEntry("reservation", X)
             R == [proc[p] EXCEPT !.at = "summary", !.ids = X]
  <2>1. /\ journal' = Appended(journal, e) /\ reported' = reported \cup X
        /\ proc' = [proc EXCEPT ![p].at = "summary", ![p].ids = X] /\ flushing' = flushing
        /\ UNCHANGED <<cooldown, quiet, faults, windows, fresh, seen>>
    BY <1>2 DEF FlushReserve
  <2>2. X \subseteq seen /\ X \subseteq Messages
    BY <1>0, PendingSeen
  <2>3. e \in Entry /\ e.ids = X /\ \A k : Is(e, k) <=> k = "reservation"
    <3>1. "reservation" \in Kinds
      BY DEF Kinds
    <3> HIDE DEF X
    <3> QED
      BY <2>2, <3>1, SummaryEntry
  <2>4. X # {} /\ X \notin Modern(journal)
    BY <1>2 DEF Held
  <2>5. R \in ProcType /\ R.at = "summary" /\ R.ids = X /\ R.job = proc[p].job
    BY <1>0, <2>2 DEF ProcType
  <2>6. proc' = [proc EXCEPT ![p] = R]
    BY <1>0, <2>1 DEF ProcsOK
  <2> HIDE DEF X, e, R
  <2>7. MayAppend(journal, e)
    BY <2>3, <2>4 DEF MayAppend
  <2>8. JournalOK(journal', seen', reported')
    <3>1. ~Is(e, "held") /\ Is(e, "reservation")
      BY <2>3
    <3> QED
      BY <1>0, <2>1, <2>3, <2>7, <3>1, AppendedOK
  <2>9. /\ \A m \in Held(journal') : m \in Held(journal) \/ (Is(e, "held") /\ m \in e.ids)
        /\ Is(e, "reservation") => Held(journal') \cap e.ids = {}
        /\ \A Y \in Modern(journal) :
              ~Completed(journal, Y) /\ ~(Is(e, "summary") /\ e.ids = Y)
              => Y \in Modern(journal') /\ ~Completed(journal', Y)
        /\ Is(e, "reservation") => e.ids \in Modern(journal') /\ ~Completed(journal', e.ids)
    BY <1>0, <2>1, <2>7, AppendedFacts DEF JournalOK
  <2>10. Held(journal') = {}
    BY <2>3, <2>9 DEF X
  <2>11. MovesTo(p, R)
    <3>1. /\ R \in ProcType /\ proc' = [proc EXCEPT ![p] = R] /\ fresh' \subseteq fresh
          /\ R.job # NoMessage => R.job \notin fresh' /\ R.job \notin seen'
          /\ p \in flushing'
          /\ R.ids # {} /\ R.ids \in Modern(journal') /\ ~Completed(journal', R.ids)
      BY <1>0, <2>1, <2>3, <2>4, <2>5, <2>6, <2>9 DEF ProcOK
    <3>2. ASSUME NEW q \in Procs \ {p}
          PROVE  /\ q \in flushing => q \in flushing'
                 /\ proc[q].job # NoMessage => proc[q].job \notin seen' /\ proc[q].job # R.job
                 /\ proc[q].at = "summary" => /\ proc[q].ids \in Modern(journal')
                                              /\ ~Completed(journal', proc[q].ids)
      <4>1. proc[q].job # NoMessage => proc[q].job # proc[p].job
        BY <1>0 DEF ProcsOK
      <4> QED
        BY <1>0, <2>1, <2>3, <2>5, <2>9, <4>1 DEF ProcOK
    <3> QED
      BY <2>5, <3>1, <3>2 DEF MovesTo
  <2>12. ProcsOK'
    BY <1>0, <2>11, ProcsKept
  <2>13. NotifyInv'
    BY <1>0, <2>1, <2>2, <2>8, <2>12, Regained
  <2> QED
    BY <1>2, <2>1, <2>10, <2>13 DEF PendingStep, X
<1> QED
  BY <1>1, <1>2

\* The summary is recorded by the one process that sends it.
LEMMA FlushFinishStep ==
    ASSUME NotifyInv, NEW p \in Procs, FlushFinish(p)
    PROVE  NotifyInv' /\ PendingStep
<1>0. /\ JournalOK(journal, seen, reported) /\ flushing \subseteq Procs
      /\ \A q, u \in flushing : q = u
      /\ ProcsOK /\ \A q \in Procs : ProcOK(q)
      /\ cooldown \in [Procs -> SUBSET DedupeKeys] /\ quiet \in BOOLEAN
      /\ faults \in 0..MaxFaults /\ windows \in 0..MaxQuiet
      /\ fresh \subseteq Messages /\ seen \subseteq Messages
      /\ reported \subseteq seen /\ seen \cap fresh = {} /\ proc[p] \in ProcType
      /\ proc[p].at = "summary"
  BY Known DEF FlushFinish
<1> DEFINE X == proc[p].ids
           e == NewEntry("summary", X)
           R == AfterFlush(proc[p].job)
<1>1. /\ journal' = Appended(journal, e) /\ flushing' = flushing \ {p}
      /\ proc' = [proc EXCEPT ![p] = R]
      /\ UNCHANGED <<cooldown, quiet, faults, windows, fresh, seen, reported>>
  BY DEF FlushFinish, FlushEnds
<1>2. X \subseteq Messages /\ X # {} /\ X \in Modern(journal) /\ ~Completed(journal, X)
  BY <1>0 DEF ProcOK, ProcType
<1>3. e \in Entry /\ e.ids = X /\ \A k : Is(e, k) <=> k = "summary"
  <2>1. "summary" \in Kinds
    BY DEF Kinds
  <2> HIDE DEF X
  <2> QED
    BY <1>2, <2>1, SummaryEntry
<1>4. R \in ProcType /\ R.job = proc[p].job /\ R.at = IF proc[p].job = NoMessage THEN "idle" ELSE "decide"
  <2>1. proc[p].job \in Messages \cup {NoMessage}
    BY <1>0 DEF ProcType
  <2> QED
    BY <2>1, AfterFlushType
<1> HIDE DEF X, e, R
<1>5. MayAppend(journal, e)
  BY <1>2, <1>3 DEF MayAppend
<1>6. JournalOK(journal', seen', reported')
  <2>1. ~Is(e, "held") /\ ~Is(e, "reservation")
    BY <1>3
  <2> QED
    BY <1>0, <1>1, <1>3, <1>5, <2>1, AppendedOK
<1>7. Held(journal') \subseteq Held(journal)
  <2>1. \A m \in Held(journal') : m \in Held(journal) \/ (Is(e, "held") /\ m \in e.ids)
    BY <1>0, <1>1, <1>5, AppendedFacts DEF JournalOK
  <2> QED
    BY <1>3, <2>1
<1>8. MovesTo(p, R)
  <2>1. /\ proc' = [proc EXCEPT ![p] = R] /\ fresh' \subseteq fresh
        /\ R.job # NoMessage => R.job \notin fresh' /\ R.job \notin seen'
    BY <1>0, <1>1, <1>4 DEF ProcOK
  <2>2. ASSUME NEW q \in Procs \ {p}
        PROVE  /\ q \in flushing => q \in flushing'
               /\ proc[q].job # NoMessage => proc[q].job \notin seen' /\ proc[q].job # R.job
               /\ proc[q].at # "summary"
    <3>1. proc[q].job # NoMessage => proc[q].job # proc[p].job
      BY <1>0 DEF ProcsOK
    <3>2. p \in flushing /\ q \notin flushing
      BY <1>0 DEF ProcOK
    <3> QED
      BY <1>0, <1>1, <1>4, <3>1, <3>2 DEF ProcOK
  <2> QED
    BY <1>4, <2>1, <2>2 DEF MovesTo
<1>9. ProcsOK'
  BY <1>0, <1>8, ProcsKept
<1>10. NotifyInv'
  BY <1>0, <1>1, <1>6, <1>9, Regained
<1> QED
  BY <1>1, <1>7, <1>10 DEF PendingStep

\* A decision or a delivery is logged: only a held one becomes pending.
LEMMA LogStep ==
    ASSUME NotifyInv, NEW p \in Procs, NEW kind \in Kinds, Log(p, kind)
    PROVE  NotifyInv' /\ PendingStep
<1>0. /\ JournalOK(journal, seen, reported) /\ flushing \subseteq Procs
      /\ \A q, u \in flushing : q = u
      /\ ProcsOK /\ \A q \in Procs : ProcOK(q)
      /\ cooldown \in [Procs -> SUBSET DedupeKeys] /\ quiet \in BOOLEAN
      /\ faults \in 0..MaxFaults /\ windows \in 0..MaxQuiet
      /\ fresh \subseteq Messages /\ seen \subseteq Messages
      /\ reported \subseteq seen /\ seen \cap fresh = {} /\ proc[p] \in ProcType
      /\ Idle \in ProcType /\ Idle.job = NoMessage /\ Idle.at = "idle"
      /\ proc[p].at \in {"held", "suppressed", "deliver"}
      /\ kind \in {"held", "suppressed", "delivered", "failed"}
  BY Known DEF Log
<1> DEFINE m == proc[p].job
           e == NewEntry(kind, {m})
<1>1. /\ journal' = Appended(journal, e) /\ proc' = [proc EXCEPT ![p] = Idle]
      /\ seen' = IF kind = "held" THEN seen \cup {m} ELSE seen
      /\ UNCHANGED <<flushing, cooldown, quiet, faults, windows, fresh, reported>>
  BY DEF Log
<1>2. m \in Messages /\ m \notin fresh /\ m \notin seen /\ m # NoMessage
  BY <1>0 DEF ProcOK, ProcType
<1> HIDE DEF m
<1>3. e \in Entry /\ e.ids = {m} /\ \A k : Is(e, k) <=> k = kind
  BY <1>2, SummaryEntry
<1> HIDE DEF e
<1>4. MayAppend(journal, e)
  BY <1>0, <1>2, <1>3 DEF MayAppend
<1>5. JournalOK(journal', seen', reported')
  <2>1. ~Is(e, "reservation") /\ (Is(e, "held") <=> kind = "held") /\ e.ids \cap reported = {}
    BY <1>0, <1>2, <1>3
  <2> QED
    BY <1>0, <1>1, <1>3, <1>4, <2>1, AppendedOK
<1>6. /\ \A x \in Held(journal') : x \in Held(journal) \/ (Is(e, "held") /\ x \in e.ids)
      /\ \A Y \in Modern(journal) :
            ~Completed(journal, Y) /\ ~(Is(e, "summary") /\ e.ids = Y)
            => Y \in Modern(journal') /\ ~Completed(journal', Y)
      /\ \A x : /\ Is(e, "held") /\ x \in e.ids
                /\ \A i \in DOMAIN journal : Is(journal[i], "reservation") => x \notin journal[i].ids
                => x \in Held(journal')
  BY <1>0, <1>1, <1>4, AppendedFacts DEF JournalOK
<1>7. MovesTo(p, Idle)
  <2>1. ASSUME NEW q \in Procs \ {p}
        PROVE  /\ q \in flushing => q \in flushing'
               /\ proc[q].job # NoMessage => proc[q].job \notin seen' /\ proc[q].job # Idle.job
               /\ proc[q].at = "summary" => /\ proc[q].ids \in Modern(journal')
                                            /\ ~Completed(journal', proc[q].ids)
    <3>1. proc[q].job # NoMessage => proc[q].job # m
      BY <1>0 DEF ProcsOK, m
    <3>2. ~Is(e, "summary")
      BY <1>0, <1>3
    <3>3. ProcOK(q)
      BY <1>0
    <3>4. proc[q].at = "summary" => /\ proc[q].ids \in Modern(journal')
                                    /\ ~Completed(journal', proc[q].ids)
      BY <1>6, <3>2, <3>3 DEF ProcOK
    <3>5. proc[q].job # NoMessage => proc[q].job \notin seen' /\ proc[q].job # Idle.job
      BY <1>0, <1>1, <3>1, <3>3 DEF ProcOK
    <3> QED
      BY <1>1, <3>4, <3>5
  <2> QED
    BY <1>0, <1>1, <2>1 DEF MovesTo
<1>8. ProcsOK'
  BY <1>0, <1>7, ProcsKept
<1>9. NotifyInv'
  <2>1. seen' \subseteq Messages /\ reported' \subseteq seen' /\ seen' \cap fresh' = {}
    BY <1>0, <1>1, <1>2
  <2> QED
    BY <1>0, <1>1, <1>5, <1>8, <2>1, Regained
<1>10. PendingStep
  <2>1. CASE kind = "held"
    <3>1. \A i \in DOMAIN journal : Is(journal[i], "reservation") => m \notin journal[i].ids
      BY <1>0, <1>2 DEF JournalOK
    <3>2. m \in Held(journal') /\ Held(journal') \subseteq Held(journal) \cup {m}
      BY <1>3, <1>6, <2>1, <3>1
    <3> QED
      BY <1>1, <1>2, <2>1, <3>2 DEF PendingStep
  <2>2. CASE kind # "held"
    BY <1>1, <1>3, <1>6, <2>2 DEF PendingStep
  <2> QED
    BY <2>1, <2>2
<1> QED
  BY <1>9, <1>10

\* Time passes.
LEMMA HourPassesStep ==
    ASSUME NotifyInv, HourPasses
    PROVE  NotifyInv' /\ PendingStep
<1>0. /\ JournalOK(journal, seen, reported) /\ journal \in Seq(Entry) /\ flushing \subseteq Procs
      /\ \A q, u \in flushing : q = u
      /\ ProcsOK /\ quiet \in BOOLEAN
      /\ faults \in 0..MaxFaults /\ windows \in 0..MaxQuiet
      /\ fresh \subseteq Messages /\ seen \subseteq Messages
      /\ reported \subseteq seen /\ seen \cap fresh = {}
      /\ UNCHANGED <<flushing, proc, quiet, faults, windows, fresh, seen, reported>>
  BY Known DEF HourPasses
<1>1. cooldown' \in [Procs -> SUBSET DedupeKeys]
  BY DEF HourPasses
<1>2. /\ DOMAIN journal' = DOMAIN journal
      /\ \A i \in DOMAIN journal : journal'[i] = [journal[i] EXCEPT !.recent = FALSE]
  BY DEF HourPasses
<1>3. \A i \in DOMAIN journal : /\ journal'[i] \in Entry /\ journal'[i].kind = journal[i].kind
                                /\ journal'[i].ids = journal[i].ids
  <2>1. \A i \in DOMAIN journal : journal[i] \in Entry
    BY <1>0
  <2> QED
    BY <1>2, <2>1 DEF Entry
<1>4. journal' \in Seq(Entry)
  <2>1. journal' = [i \in 1..Len(journal) |-> journal'[i]] /\ Len(journal) \in Nat
    BY <1>0 DEF HourPasses
  <2>2. \A i \in 1..Len(journal) : journal'[i] \in Entry
    BY <1>0, <1>3
  <2> QED
    BY <2>1, <2>2
<1>5. /\ Modern(journal') = Modern(journal) /\ Held(journal') = Held(journal)
      /\ \A X : Completed(journal', X) <=> Completed(journal, X)
      /\ JournalOK(journal', seen, reported)
  BY <1>0, <1>2, <1>3, <1>4, SameRecords
<1>6. ProcsOK'
  BY <1>0, <1>5 DEF ProcsOK, ProcOK
<1>7. NotifyInv'
  BY <1>0, <1>1, <1>5, <1>6, Regained
<1> QED
  BY <1>0, <1>5, <1>7 DEF PendingStep

LEMMA QuietStep ==
    ASSUME NotifyInv, QuietBegins \/ QuietEnds
    PROVE  NotifyInv' /\ PendingStep
<1>0. /\ JournalOK(journal, seen, reported) /\ flushing \subseteq Procs
      /\ \A q, u \in flushing : q = u
      /\ ProcsOK /\ cooldown \in [Procs -> SUBSET DedupeKeys]
      /\ faults \in 0..MaxFaults /\ windows \in 0..MaxQuiet
      /\ fresh \subseteq Messages /\ seen \subseteq Messages
      /\ reported \subseteq seen /\ seen \cap fresh = {}
  BY Known
<1>1. /\ UNCHANGED <<journal, flushing, proc, cooldown, faults, fresh, seen, reported>>
      /\ quiet' \in BOOLEAN /\ windows' \in 0..MaxQuiet
  <2>1. /\ UNCHANGED <<journal, flushing, proc, cooldown, faults, fresh, seen, reported>>
        /\ windows' = windows \/ (windows < MaxQuiet /\ windows' = windows + 1)
    BY DEF QuietBegins, QuietEnds
  <2>2. quiet' \in BOOLEAN
    BY Zenon DEF QuietBegins, QuietEnds
  <2>3. windows' \in 0..MaxQuiet
    BY <1>0, <2>1, NotifyAssumption
  <2> QED
    BY <2>1, <2>2, <2>3
<1>2. ProcsOK'
  BY <1>0, <1>1 DEF ProcsOK, ProcOK
<1>3. NotifyInv'
  BY <1>0, <1>1, <1>2, Regained
<1> QED
  BY <1>1, <1>3 DEF PendingStep

-----------------------------------------------------------------------------
(* Notifications: the theorems.                                            *)

\* A journal of an older version agrees with an empty history.
LEMMA NotifyInitInv ==
    ASSUME NotifyInit
    PROVE  NotifyInv
<1>1. /\ journal \in Seq(Entry)
      /\ \A i \in DOMAIN journal :
            /\ journal[i].kind # "reservation"
            /\ IF journal[i].kind = "summary" THEN journal[i].ids = {}
               ELSE \E m \in Messages : journal[i].ids = {m}
  BY NotifyAssumption DEF NotifyInit
<1>2. Consistent(journal)
  BY <1>1 DEF Consistent, Is
<1>3. \A i \in DOMAIN journal : Is(journal[i], "held") => journal[i].ids \subseteq seen
  BY DEF NotifyInit
<1>4. JournalOK(journal, seen, reported)
  BY <1>1, <1>2, <1>3 DEF JournalOK, Is, NotifyInit
<1>5. /\ \A p \in Procs : proc[p] = Idle
      /\ Idle \in ProcType /\ Idle.at = "idle" /\ Idle.job = NoMessage
  BY DEF NotifyInit, Idle, ProcType
<1>6. ProcsOK
  BY <1>5 DEF ProcsOK, ProcOK, NotifyInit
<1>7. seen \subseteq Messages /\ fresh \subseteq Messages /\ seen \cap fresh = {}
  <2>1. \A i \in DOMAIN journal : journal[i].ids \subseteq Messages
    BY <1>1
  <2> QED
    BY <2>1 DEF NotifyInit
<1>8. NotifyTypeOK
  <2>1. quiet \in BOOLEAN
    BY Zenon DEF NotifyInit
  <2> QED
    BY <1>1, <1>6, <1>7, <2>1, NotifyAssumption DEF NotifyTypeOK, NotifyInit, ProcsOK
<1> QED
  BY <1>4, <1>6, <1>7, <1>8 DEF NotifyInv, NotifyInit

\* Every step keeps the invariant and does to what is pending what the
\* abstract specification allows.
LEMMA NotifyStep ==
    ASSUME NotifyInv, [NotifyNext]_notifyVars
    PROVE  NotifyInv' /\ PendingStep
<1>1. ASSUME NEW p \in Procs, Step(p) PROVE NotifyInv' /\ PendingStep
  BY <1>1, FlushTimerStep, FlushCheckStep, FlushReserveStep, FlushFinishStep, DecideStep, LogStep
     DEF Step
<1>2. ASSUME NEW p \in Procs, FlushFails(p) \/ LogFails(p) \/ Crash(p)
      PROVE  NotifyInv' /\ PendingStep
  BY <1>2, FlushFailsStep, LogFailsStep, CrashStep
<1>3. ASSUME NEW p \in Procs, NEW m \in fresh, Dispatch(p, m) PROVE NotifyInv' /\ PendingStep
  BY <1>3, DispatchStep
<1>4. CASE HourPasses \/ QuietBegins \/ QuietEnds
  BY <1>4, HourPassesStep, QuietStep
<1>5. CASE UNCHANGED notifyVars
  <2>1. UNCHANGED <<journal, flushing, proc, cooldown, quiet, faults, windows, fresh, seen, reported>>
    BY <1>5 DEF notifyVars
  <2>2. ProcsOK'
    BY <2>1, Known DEF ProcsOK, ProcOK
  <2>3. NotifyInv'
    BY <2>1, <2>2, Known, Regained
  <2> QED
    BY <2>1, <2>3 DEF PendingStep
<1> QED
  BY <1>1, <1>2, <1>3, <1>4, <1>5 DEF NotifyNext

LEMMA NotifyInvariant == NotifySpec => []NotifyInv
<1>1. NotifyInit => NotifyInv
  BY NotifyInitInv
<1>2. NotifyInv /\ [NotifyNext]_notifyVars => NotifyInv'
  BY NotifyStep
<1> QED
  BY <1>1, <1>2, PTL DEF NotifySpec

\* The variables of the delivery of notifications keep their types.
THEOREM NotifyTypeCorrect == NotifySpec => []NotifyTypeOK
<1>1. NotifyInv => NotifyTypeOK
  BY DEF NotifyInv
<1> QED
  BY <1>1, NotifyInvariant, PTL

\* The journal implements HeldSummaries (Journal::held, reserve_held and
\* compact of delivery_log.rs): with any number of processes, of crashes and
\* of failed writes, of any old journal and for every size at which the log is
\* compacted, a held notification is admitted to at most one summary and is
\* never pending again.
THEOREM HeldAtMostOnce == NotifySpec => HeldOnce
<1>1. NotifyInit => Summaries!Init
  <2> SUFFICES ASSUME NotifyInit PROVE Summaries!Init
    OBVIOUS
  <2>1. NotifyInv
    BY NotifyInitInv
  <2>2. Held(journal) \subseteq seen /\ seen \subseteq Messages
    BY <2>1, Known, PendingSeen
  <2> QED
    BY <2>2 DEF Summaries!Init, NotifyInit
<1>2. NotifyInv /\ [NotifyNext]_notifyVars => [Summaries!Next]_Summaries!hvars
  <2> SUFFICES ASSUME NotifyInv, [NotifyNext]_notifyVars
               PROVE  [Summaries!Next]_Summaries!hvars
    OBVIOUS
  <2>1. PendingStep
    BY NotifyStep
  <2>2. Held(journal)' = Held(journal')
    BY DEF Held, Modern, Reservations, Since, Is
  <2> QED
    BY <2>1, <2>2 DEF PendingStep, Summaries!Next, Summaries!Hold, Summaries!Summarise, Summaries!Drop
<1> QED
  BY <1>1, <1>2, NotifyInvariant, PTL DEF NotifySpec, HeldOnce, Summaries!Spec

\* No summary of this version is read as one of an older version: a
\* notification that the log holds and no reservation took is reported by the
\* next summary, unless an older version's summary follows it (Journal::held).
THEOREM HeldAreReported == NotifySpec => []LaterHoldsStay
<1>1. NotifyInv => LaterHoldsStay
  <2> SUFFICES ASSUME NotifyInv, NEW i \in DOMAIN journal, Is(journal[i], "held"),
                      journal[i].ids \cap reported = {},
                      ~\E k \in DOMAIN journal : /\ k > i /\ Is(journal[k], "summary")
                                                 /\ journal[k].ids = {},
                      NEW m \in journal[i].ids
               PROVE  m \in Held(journal)
    BY DEF LaterHoldsStay
  <2>1. JournalOK(journal, seen, reported) /\ journal \in Seq(Entry)
    BY Known
  <2>2. Consistent(journal) /\ DOMAIN journal = 1..Len(journal) /\ Len(journal) \in Nat
    BY <2>1 DEF JournalOK
  <2>3. \A k \in DOMAIN journal : Older(journal, k) => k < i
    <3> SUFFICES ASSUME NEW k \in DOMAIN journal, Older(journal, k) PROVE k < i
      OBVIOUS
    <3>1. k # i /\ ~(k > i)
      BY DEF Older, Is
    <3> QED
      BY <2>2, <3>1
  <2>4. \A k \in DOMAIN journal : Is(journal[k], "reservation") => m \notin journal[k].ids
    BY <2>1 DEF JournalOK
  <2> QED
    BY <2>2, <2>3, <2>4, HeldIff DEF HeldSince
<1> QED
  BY <1>1, NotifyInvariant, PTL

\* A reservation gets one summary: recover_interrupted never records as
\* interrupted a summary whose sender is still at work, and no sender records
\* one that recovery has closed.
THEOREM SummariesCompletedOnce == NotifySpec => []CompletedOnce
<1>1. NotifyInv => CompletedOnce
  BY Known DEF CompletedOnce, JournalOK, Consistent
<1> QED
  BY <1>1, NotifyInvariant, PTL
=============================================================================
