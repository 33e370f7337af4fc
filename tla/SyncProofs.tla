----------------------------- MODULE SyncProofs -----------------------------
(***************************************************************************)
(* Theorems about the git-backed store.                                    *)
(*                                                                         *)
(* StoreSync, for every set of edits and writers and every bound on faults *)
(* and rewrites: the checkout loses no edit and brings no removed payload  *)
(* back.                                                                   *)
(*                                                                         *)
(* TicketMerge, for every set of clones, workers, patches, tags and        *)
(* paragraphs and every bound on stamps and commits: the merge of one      *)
(* commit of each clone does not depend on the order of their syncs, and   *)
(* no merge forgets anything or drops an uncontested change.               *)
(***************************************************************************)
EXTENDS StoreSync, TicketMerge, TLAPS, FiniteSetTheorems, SequenceTheorems, WellFoundedInduction

-----------------------------------------------------------------------------
(* Least and greatest numbers, induction and recursion over 0..n.          *)

\* A nonempty set of natural numbers has a least element.
LEMMA LeastNat ==
    ASSUME NEW S \in SUBSET Nat, S # {}
    PROVE  \E m \in S : \A n \in S : m <= n
<1> DEFINE Less == {ss \in Nat \X Nat : ss[1] < ss[2]}
<1>1. Less = OpToRel(<, Nat)
  BY DEF OpToRel
<1>2. IsWellFoundedOn(Less, Nat)
  BY <1>1, NatLessThanWellFounded
<1>3. PICK m \in S : \A n \in S : ~(<<n, m>> \in Less)
  <2> HIDE DEF Less
  <2> QED
    BY <1>2, WFMin
<1>4. ASSUME NEW n \in S PROVE m <= n
  <2>1. n \in Nat /\ m \in Nat /\ ~(<<n, m>> \in Less)
    BY <1>3
  <2>2. <<n, m>> \in Nat \X Nat /\ <<n, m>>[1] = n /\ <<n, m>>[2] = m
    BY <2>1
  <2>3. ~(n < m)
    BY <2>1, <2>2
  <2> QED
    BY <2>1, <2>3
<1> QED
  BY <1>4

\* A nonempty set of positions has a greatest one.
LEMMA GreatestPosition ==
    ASSUME NEW n \in Nat, NEW S \in SUBSET (1..n), S # {}
    PROVE  \E i \in S : \A j \in S : j <= i
<1> DEFINE U == {m \in Nat : \A j \in S : j <= m}
<1>1. n \in U
  OBVIOUS
<1>2. PICK m \in U : \A k \in U : m <= k
  <2> HIDE DEF U
  <2>1. U \in SUBSET Nat /\ U # {}
    BY <1>1 DEF U
  <2> QED
    BY <2>1, LeastNat
<1>3. m \in S
  <2> SUFFICES ASSUME m \notin S PROVE FALSE
    OBVIOUS
  <2>1. PICK j \in S : TRUE
    OBVIOUS
  <2>2. m - 1 \in Nat
    BY <1>2, <2>1
  <2>3. \A k \in S : k <= m - 1
    BY <1>2
  <2> QED
    BY <1>2, <2>2, <2>3
<1> QED
  BY <1>2, <1>3

\* Induction over 0..n, with the set of the numbers that satisfy the claim.
LEMMA IntervalInduction ==
    ASSUME NEW n \in Nat, NEW T, 0 \in T, \A i \in 1..n : i - 1 \in T => i \in T
    PROVE  \A i \in 0..n : i \in T
<1> DEFINE Bad == {i \in 0..n : i \notin T}
<1>1. SUFFICES ASSUME Bad # {} PROVE FALSE
  OBVIOUS
<1>2. PICK m \in Bad : \A k \in Bad : m <= k
  <2> HIDE DEF Bad
  <2>1. Bad \in SUBSET Nat
    BY DEF Bad
  <2> QED
    BY <1>1, <2>1, LeastNat
<1>3. m \in 1..n /\ m - 1 \in 0..n /\ ~(m <= m - 1)
  BY <1>2
<1>4. m - 1 \notin Bad
  <2> HIDE DEF Bad
  <2> QED
    BY <1>2, <1>3
<1> QED
  BY <1>2, <1>3, <1>4

\* A function on 0..n can be defined by its first value and a step.
LEMMA RecursionExists ==
    ASSUME NEW S, NEW a \in S, NEW n \in Nat, NEW F \in [1..n -> [S -> S]]
    PROVE  \E g \in [0..n -> S] : g[0] = a /\ \A i \in 1..n : g[i] = F[i][g[i-1]]
<1> DEFINE Defines(k, g) == g[0] = a /\ \A i \in 1..k : g[i] = F[i][g[i-1]]
           Bad == {k \in 0..n : ~\E g \in [0..k -> S] : Defines(k, g)}
<1>1. SUFFICES ASSUME Bad # {} PROVE FALSE
  <2>1. n \in 0..n
    OBVIOUS
  <2>2. Bad = {} => \E g \in [0..n -> S] : Defines(n, g)
    BY <2>1
  <2> QED
    BY <2>2
<1>2. PICK m \in Bad : \A k \in Bad : m <= k
  <2> HIDE DEF Bad
  <2>1. Bad \in SUBSET Nat
    BY DEF Bad
  <2> QED
    BY <1>1, <2>1, LeastNat
<1>3. m \in 0..n /\ ~\E g \in [0..m -> S] : Defines(m, g)
  BY <1>2
<1>4. CASE m = 0
  <2> DEFINE h == [i \in 0..0 |-> a]
  <2>1. h \in [0..m -> S] /\ h[0] = a /\ 1..m = {}
    BY <1>4
  <2> QED
    BY <1>3, <2>1
<1>5. CASE m # 0
  <2>1. m - 1 \in 0..n /\ m - 1 \in Nat /\ ~(m <= m - 1) /\ m \in 1..n
    BY <1>3, <1>5
  <2>2. m - 1 \notin Bad
    <3> HIDE DEF Bad
    <3> QED
      BY <1>2, <2>1
  <2>3. PICK g \in [0..(m-1) -> S] : Defines(m - 1, g)
    BY <2>1, <2>2
  <2> DEFINE h == [i \in 0..m |-> IF i = m THEN F[m][g[m-1]] ELSE g[i]]
  <2>4. g[m-1] \in S /\ F[m][g[m-1]] \in S
    <3>1. g[m-1] \in S
      BY <2>1, <2>3
    <3>2. F[m] \in [S -> S]
      BY <2>1
    <3> QED
      BY <3>1, <3>2
  <2>5. h \in [0..m -> S]
    <3>1. \A i \in 0..m : i # m => i \in 0..(m-1)
      BY <2>1
    <3> QED
      BY <2>3, <2>4, <3>1
  <2>6. h[0] = a
    BY <1>5, <2>1, <2>3
  <2>7. ASSUME NEW i \in 1..m PROVE h[i] = F[i][h[i-1]]
    <3>1. i \in 0..m /\ i - 1 \in 0..m /\ i - 1 # m /\ h[i-1] = g[i-1]
      BY <2>1
    <3>2. CASE i = m
      BY <3>1, <3>2
    <3>3. CASE i # m
      <4>1. i \in 1..(m-1)
        BY <2>1, <3>3
      <4> QED
        BY <2>3, <3>1, <3>3, <4>1
    <3> QED
      BY <3>2, <3>3
  <2> HIDE DEF h
  <2> QED
    BY <1>3, <2>5, <2>6, <2>7
<1> QED
  BY <1>4, <1>5

-----------------------------------------------------------------------------
(* StoreSync: the inductive invariant.                                     *)

NoDels(b) == \A i \in DOMAIN b : b[i].dels = {}
Clean(b) == \A i \in DOMAIN b : ~b[i].payload

\* Once a rewrite is published, an unmarked checkout holds nothing of the old
\* history, and a marked one cannot push it; no sync cycle and no rewrite are
\* under way when the other begins.
PayloadInv ==
    /\ compacted => Clean(remote)
    /\ compacted /\ ~marker => Clean(head) /\ Clean(tracking)
    /\ compacted /\ marker => ~IsPrefix(remote, head) \/ (Clean(head) /\ Clean(tracking))
    /\ sync \notin {"idle", "enter"} => ~marker /\ rewrite = "idle"
    /\ rewrite = "rewrite" => marker /\ ~Clean(head)
    /\ rewrite = "ticket" => ~marker

\* A checkout that a crash left inside a rebase is not marked, and its sync
\* cycles end at the comparison.
StrandedInv == stranded => ~marker /\ sync \notin {"rebase", "start", "pick", "push"}

\* Unless a rebase moved the file under a transaction, no commit removes an
\* edit, the file has what the branch has (but not inside a rebase), and a
\* marked checkout has nothing that origin lacks.
EditInv ==
    ~overlapped =>
        /\ NoDels(remote) /\ NoDels(head) /\ NoDels(tracking)
        /\ published \subseteq Content(remote)
        /\ sync # "pick" /\ ~stranded => acked \subseteq work /\ Content(head) \subseteq work
        /\ stranded => acked \subseteq Content(head) \cup work
        /\ sync = "pick" => work = Content(tracking) /\ acked \subseteq Content(head)
        /\ marker => acked \subseteq Content(remote)

\* The rewrite and its marker keep transactions out.
WriterInv ==
    \A w \in Writers : writer[w].at = "revise" =>
        writer[w].edit \in Edits /\ ~marker /\ rewrite \notin {"ticket", "rewrite"}

SyncInv == TypeOK /\ PayloadInv /\ StrandedInv /\ EditInv /\ WriterInv

-----------------------------------------------------------------------------
(* StoreSync: branches.                                                    *)

\* A prefix agrees at its positions.
LEMMA PrefixIff ==
    ASSUME NEW S, NEW s \in Seq(S), NEW t \in Seq(S)
    PROVE  IsPrefix(s, t) <=> Len(s) <= Len(t) /\ \A i \in 1..Len(s) : s[i] = t[i]
<1>1. Len(s) \in Nat /\ Len(t) \in Nat
  OBVIOUS
<1>2. SubSeq(s, 1, Len(s)) = s
  BY SubSeqFull
<1>3. ASSUME Len(s) <= Len(t)
      PROVE  SubSeq(s, 1, Len(s)) = SubSeq(t, 1, Len(s)) <=> \A i \in 1..Len(s) : s[i] = t[i]
  <2> DEFINE u == SubSeq(t, 1, Len(s))
  <2>1. \A i \in 1..Len(s) : t[i] \in S
    BY <1>1, <1>3
  <2>2. u \in Seq(S) /\ Len(u) = Len(s) /\ \A i \in 1..Len(s) : u[i] = t[i]
    <3>1. /\ u \in Seq(S) /\ Len(u) = IF 1 <= Len(s) THEN Len(s) - 1 + 1 ELSE 0
          /\ \A i \in 1..(Len(s) - 1 + 1) : u[i] = t[1 + i - 1]
      BY <1>1, <2>1, SubSeqProperties
    <3> HIDE DEF u
    <3> QED
      BY <1>1, <3>1
  <2> HIDE DEF u
  <2>3. s = u <=> \A i \in 1..Len(s) : s[i] = u[i]
    BY <1>1, <2>2
  <2>4. s = u <=> \A i \in 1..Len(s) : s[i] = t[i]
    BY <2>2, <2>3
  <2> QED
    BY <1>2, <2>4 DEF u
<1> QED
  BY <1>3 DEF IsPrefix

\* The content of a branch is made of edits; without removals it is what the
\* commits add.
LEMMA ContentFacts ==
    ASSUME NEW b
    PROVE  /\ Content(b) \subseteq AllEdits
           /\ NoDels(b) /\ b \in Seq(Commit) =>
                 \A e : e \in Content(b) <=> \E i \in DOMAIN b : e \in b[i].adds
<1>1. Content(b) \subseteq AllEdits
  BY DEF Content
<1>2. ASSUME NoDels(b), b \in Seq(Commit), NEW e
      PROVE  e \in Content(b) <=> \E i \in DOMAIN b : e \in b[i].adds
  <2>1. \A i \in DOMAIN b : \A k \in i..Len(b) : k \in DOMAIN b
    BY <1>2
  <2>2. \A i \in DOMAIN b : b[i] \in Commit
    BY <1>2
  <2>3. \A i \in DOMAIN b : b[i].adds \subseteq AllEdits
    BY <2>2 DEF Commit
  <2> QED
    BY <1>2, <2>1, <2>3 DEF Content, NoDels
<1> QED
  BY <1>1, <1>2

\* A commit is a prefix extended, keeps the branch free of payload, and makes
\* the branch's content that of the file.
LEMMA CommittedFacts ==
    ASSUME NEW b \in Seq(Commit), NEW c \in SUBSET AllEdits
    PROVE  /\ Committed(b, c) \in Seq(Commit)
           /\ Clean(b) => Clean(Committed(b, c))
           /\ NoDels(b) /\ Content(b) \subseteq c =>
                 NoDels(Committed(b, c)) /\ Content(Committed(b, c)) = c
<1> DEFINE k == [adds |-> c \ Content(b), dels |-> Content(b) \ c, payload |-> FALSE]
<1>0. Content(b) \subseteq AllEdits
  BY ContentFacts
<1>1. k \in Commit /\ k.adds = c \ Content(b) /\ k.dels = Content(b) \ c /\ k.payload = FALSE
  BY <1>0 DEF Commit
<1>2. Committed(b, c) = IF c = Content(b) THEN b ELSE Append(b, k)
  BY DEF Committed
<1> HIDE DEF k
<1>3. CASE c = Content(b)
  BY <1>2, <1>3
<1>4. CASE c # Content(b)
  <2> DEFINE a == Append(b, k)
  <2>1. /\ a \in Seq(Commit) /\ DOMAIN b \subseteq DOMAIN a /\ Len(b) + 1 \in DOMAIN a
        /\ \A i \in DOMAIN b : a[i] = b[i]
        /\ a[Len(b) + 1] = k /\ \A i \in DOMAIN a : i \in DOMAIN b \/ i = Len(b) + 1
    BY <1>1
  <2>2. Committed(b, c) = a
    BY <1>2, <1>4
  <2> HIDE DEF a
  <2>3. Clean(b) => Clean(a)
    BY <1>1, <2>1 DEF Clean
  <2>4. ASSUME NoDels(b), Content(b) \subseteq c PROVE NoDels(a) /\ Content(a) = c
    <3>1. NoDels(a)
      BY <1>1, <2>1, <2>4 DEF NoDels
    <3>2. \A e : e \in Content(a) <=> \E i \in DOMAIN a : e \in a[i].adds
      BY <2>1, <3>1, ContentFacts
    <3>3. \A e : e \in Content(b) <=> \E i \in DOMAIN b : e \in b[i].adds
      BY <2>4, ContentFacts
    <3>4. \A e : e \in Content(a) <=> e \in Content(b) \/ e \in k.adds
      BY <2>1, <3>2, <3>3
    <3> QED
      BY <1>1, <2>4, <3>1, <3>4
  <2> QED
    BY <2>1, <2>2, <2>3, <2>4
<1> QED
  BY <1>3, <1>4

\* Without removals a longer branch has the content of its prefix.
LEMMA PrefixContent ==
    ASSUME NEW s \in Seq(Commit), NEW t \in Seq(Commit), IsPrefix(s, t), NoDels(s), NoDels(t)
    PROVE  Content(s) \subseteq Content(t)
<1>1. \A i \in DOMAIN s : i \in DOMAIN t /\ s[i] = t[i]
  BY PrefixIff
<1> QED
  BY <1>1, ContentFacts

\* What another clone publishes.
LEMMA OthersContent ==
    ASSUME NEW b \in Seq(Commit), NEW e \in AllEdits
    PROVE  LET a == Append(b, [adds |-> {e}, dels |-> {}, payload |-> FALSE]) IN
           /\ a \in Seq(Commit) /\ (Clean(b) => Clean(a))
           /\ NoDels(b) => NoDels(a) /\ Content(b) \subseteq Content(a) /\ e \in Content(a)
           /\ \A t \in Seq(Commit) : IsPrefix(a, t) => IsPrefix(b, t)
<1> DEFINE k == [adds |-> {e}, dels |-> {}, payload |-> FALSE]
           a == Append(b, k)
<1>1. k \in Commit /\ k.adds = {e} /\ k.dels = {} /\ k.payload = FALSE
  BY DEF Commit
<1> HIDE DEF k
<1>2. /\ a \in Seq(Commit) /\ DOMAIN b \subseteq DOMAIN a /\ Len(b) + 1 \in DOMAIN a
      /\ Len(a) = Len(b) + 1 /\ Len(b) \in Nat
      /\ \A i \in DOMAIN b : a[i] = b[i]
      /\ a[Len(b) + 1] = k /\ \A i \in DOMAIN a : i \in DOMAIN b \/ i = Len(b) + 1
  BY <1>1
<1> HIDE DEF a
<1>3. Clean(b) => Clean(a)
  BY <1>1, <1>2 DEF Clean
<1>4. ASSUME NoDels(b) PROVE NoDels(a) /\ Content(b) \subseteq Content(a) /\ e \in Content(a)
  <2>1. NoDels(a)
    BY <1>1, <1>2, <1>4 DEF NoDels
  <2>2. \A x : x \in Content(a) <=> \E i \in DOMAIN a : x \in a[i].adds
    BY <1>2, <2>1, ContentFacts
  <2>3. \A x : x \in Content(b) <=> \E i \in DOMAIN b : x \in b[i].adds
    BY <1>4, ContentFacts
  <2> QED
    BY <1>1, <1>2, <2>1, <2>2, <2>3
<1>5. ASSUME NEW t \in Seq(Commit), IsPrefix(a, t) PROVE IsPrefix(b, t)
  <2>1. Len(a) <= Len(t) /\ \A i \in 1..Len(a) : a[i] = t[i]
    BY <1>2, <1>5, PrefixIff
  <2>2. Len(b) <= Len(t) /\ \A i \in 1..Len(b) : b[i] = t[i]
    BY <1>2, <2>1
  <2> QED
    BY <2>2, PrefixIff
<1> QED
  BY <1>2, <1>3, <1>4, <1>5 DEF a, k

\* A rewritten branch has the same edits and no payload, and a branch with a
\* payload does not extend its rewritten form.
LEMMA RewrittenFacts ==
    ASSUME NEW b \in Seq(Commit)
    PROVE  /\ Rewritten(b) \in Seq(Commit) /\ Clean(Rewritten(b))
           /\ Content(Rewritten(b)) = Content(b) /\ (NoDels(b) => NoDels(Rewritten(b)))
           /\ ~Clean(b) => ~IsPrefix(Rewritten(b), b)
<1> DEFINE r == Rewritten(b)
<1>1. DOMAIN r = 1..Len(b) /\ Len(b) \in Nat /\ DOMAIN b = 1..Len(b)
  BY DEF Rewritten
<1>2. \A i \in 1..Len(b) : b[i] \in Commit
  OBVIOUS
<1>3. \A i \in 1..Len(b) : r[i] = [b[i] EXCEPT !.payload = FALSE]
  BY <1>1 DEF Rewritten
<1>4. \A i \in 1..Len(b) : /\ r[i] \in Commit /\ r[i].adds = b[i].adds /\ r[i].dels = b[i].dels
                           /\ r[i].payload = FALSE
  BY <1>2, <1>3 DEF Commit
<1>5. r \in Seq(Commit) /\ Len(r) = Len(b)
  <2>1. r = [i \in 1..Len(b) |-> r[i]]
    BY <1>1 DEF Rewritten
  <2> HIDE DEF r
  <2> QED
    BY <1>1, <1>4, <2>1
<1> HIDE DEF r
<1>6. Clean(r)
  BY <1>1, <1>4 DEF Clean
<1>7. Content(r) = Content(b)
  <2>1. \A i \in 1..Len(b) : \A k \in i..Len(b) : k \in 1..Len(b)
    BY <1>1
  <2> QED
    BY <1>1, <1>4, <1>5, <2>1 DEF Content
<1>8. NoDels(b) => NoDels(r)
  BY <1>1, <1>4 DEF NoDels
<1>9. IsPrefix(r, b) => Clean(b)
  <2> SUFFICES ASSUME IsPrefix(r, b) PROVE Clean(b)
    OBVIOUS
  <2>1. \A i \in 1..Len(b) : r[i] = b[i]
    BY <1>5, PrefixIff
  <2> QED
    BY <1>1, <1>4, <2>1 DEF Clean
<1> QED
  BY <1>5, <1>6, <1>7, <1>8, <1>9 DEF r

\* The commits that the upstream lacks are those after the common ones.
LEMMA UnsharedFacts ==
    ASSUME NEW b \in Seq(Commit), NEW t \in Seq(Commit)
    PROVE  /\ Unshared(b, t) \in Seq(Commit)
           /\ \A i \in DOMAIN Unshared(b, t) : \E k \in DOMAIN b : Unshared(b, t)[i] = b[k]
           /\ \A k \in DOMAIN b : \/ k \in DOMAIN t /\ b[k] = t[k]
                                  \/ \E i \in DOMAIN Unshared(b, t) : Unshared(b, t)[i] = b[k]
<1> DEFINE common == {i \in DOMAIN b : IsPrefix(SubSeq(b, 1, i), t)}
           n == Cardinality(common)
           u == Unshared(b, t)
<1>1. Len(b) \in Nat /\ DOMAIN b = 1..Len(b) /\ Len(t) \in Nat /\ DOMAIN t = 1..Len(t)
  OBVIOUS
<1>2. ASSUME NEW i \in DOMAIN b
      PROVE  i \in common <=> i <= Len(t) /\ \A k \in 1..i : b[k] = t[k]
  <2> DEFINE v == SubSeq(b, 1, i)
  <2>1. \A k \in 1..i : b[k] \in Commit
    BY <1>1
  <2>2. v \in Seq(Commit) /\ Len(v) = i /\ \A k \in 1..i : v[k] = b[k]
    <3>1. /\ v \in Seq(Commit) /\ Len(v) = IF 1 <= i THEN i - 1 + 1 ELSE 0
          /\ \A k \in 1..(i - 1 + 1) : v[k] = b[1 + k - 1]
      BY <1>1, <2>1, SubSeqProperties
    <3> HIDE DEF v
    <3> QED
      BY <1>1, <3>1
  <2>3. i \in common <=> IsPrefix(v, t)
    OBVIOUS
  <2> HIDE DEF v, common
  <2>4. IsPrefix(v, t) <=> Len(v) <= Len(t) /\ \A k \in 1..Len(v) : v[k] = t[k]
    BY <2>2, PrefixIff
  <2> QED
    BY <2>2, <2>3, <2>4
<1>3. common \in SUBSET (1..Len(b))
  BY <1>1
<1> HIDE DEF common
<1>4. \A i \in common : \A k \in 1..i : k \in common
  <2> SUFFICES ASSUME NEW i \in common, NEW k \in 1..i PROVE k \in common
    OBVIOUS
  <2>1. i \in DOMAIN b /\ k \in DOMAIN b /\ i \in Nat /\ k <= i
    BY <1>1, <1>3
  <2>2. i <= Len(t) /\ \A q \in 1..i : b[q] = t[q]
    BY <1>2, <2>1
  <2>3. k <= Len(t) /\ \A q \in 1..k : b[q] = t[q]
    BY <1>1, <2>1, <2>2
  <2> QED
    BY <1>2, <2>1, <2>3
<1>5. n \in 0..Len(b) /\ \A k \in 1..n : k \in common
  <2>1. CASE common = {}
    <3>1. n = 0
      BY <2>1, FS_EmptySet
    <3> QED
      BY <1>1, <3>1
  <2>2. CASE common # {}
    <3>1. PICK g \in common : \A k \in common : k <= g
      BY <1>1, <1>3, <2>2, GreatestPosition
    <3>2. g \in 1..Len(b)
      BY <1>3
    <3>3. common = 1..g
      <4>1. \A k \in common : k \in 1..g
        BY <1>3, <3>1, <3>2
      <4>2. \A k \in 1..g : k \in common
        BY <1>4, <3>1
      <4> QED
        BY <4>1, <4>2
    <3>4. Cardinality(1..g) = g
      <4>1. Cardinality(1..g) = IF 1 > g THEN 0 ELSE g - 1 + 1
        BY <3>2, FS_Interval
      <4> QED
        BY <3>2, <4>1
    <3> QED
      BY <1>1, <3>2, <3>3, <3>4
  <2> QED
    BY <2>1, <2>2
<1>6. u = SubSeq(b, n + 1, Len(b))
  BY DEF Unshared, common
<1> HIDE DEF n, u
<1>7. /\ u \in Seq(Commit) /\ Len(u) = Len(b) - n
      /\ \A i \in 1..(Len(b) - n) : u[i] = b[n + i]
  <2>1. \A i \in (n+1)..Len(b) : b[i] \in Commit
    BY <1>1, <1>5
  <2>2. /\ u \in Seq(Commit) /\ Len(u) = IF n + 1 <= Len(b) THEN Len(b) - (n + 1) + 1 ELSE 0
        /\ \A i \in 1..(Len(b) - (n + 1) + 1) : u[i] = b[n + 1 + i - 1]
    BY <1>1, <1>5, <1>6, <2>1, SubSeqProperties
  <2>3. Len(b) - (n + 1) + 1 = Len(b) - n /\ (~(n + 1 <= Len(b)) => Len(b) - n = 0)
    <3> DEFINE L == Len(b)
    <3>1. n \in Nat /\ L \in Nat /\ n <= L
      BY <1>1, <1>5
    <3> HIDE DEF L
    <3>2. L - (n + 1) + 1 = L - n
      BY <3>1
    <3>3. ~(n + 1 <= L) => L - n = 0
      BY <3>1
    <3> QED
      BY <3>2, <3>3 DEF L
  <2>4. \A i \in 1..(Len(b) - n) : n + 1 + i - 1 = n + i
    BY <1>1, <1>5
  <2> QED
    BY <2>2, <2>3, <2>4
<1>8. \A i \in DOMAIN u : \E k \in DOMAIN b : u[i] = b[k]
  <2> SUFFICES ASSUME NEW i \in DOMAIN u PROVE \E k \in DOMAIN b : u[i] = b[k]
    OBVIOUS
  <2>1. i \in 1..(Len(b) - n)
    BY <1>7
  <2>2. n + i \in DOMAIN b
    BY <1>1, <1>5, <2>1
  <2> QED
    BY <1>7, <2>1, <2>2
<1>9. \A k \in DOMAIN b : \/ k \in DOMAIN t /\ b[k] = t[k]
                          \/ \E i \in DOMAIN u : u[i] = b[k]
  <2> SUFFICES ASSUME NEW k \in DOMAIN b
               PROVE  \/ k \in DOMAIN t /\ b[k] = t[k]
                      \/ \E i \in DOMAIN u : u[i] = b[k]
    OBVIOUS
  <2>1. CASE k <= n
    <3>1. k \in common
      BY <1>1, <1>5, <2>1
    <3> QED
      BY <1>1, <1>2, <3>1
  <2>2. CASE ~(k <= n)
    <3>1. k - n \in 1..(Len(b) - n) /\ n + (k - n) = k
      BY <1>1, <1>5, <2>2
    <3>2. k - n \in DOMAIN u /\ u[k - n] = b[k]
      BY <1>7, <3>1
    <3> QED
      BY <3>2
  <2> QED
    BY <2>1, <2>2
<1> QED
  BY <1>7, <1>8, <1>9 DEF u

\* A rebase has what both branches have.
LEMMA RebasedBranch ==
    ASSUME NEW b \in Seq(Commit), NEW t \in Seq(Commit)
    PROVE  LET r == t \o Unshared(b, t) IN
           /\ r \in Seq(Commit)
           /\ Clean(b) /\ Clean(t) => Clean(r)
           /\ NoDels(b) /\ NoDels(t) => NoDels(r) /\ Content(b) \subseteq Content(r)
<1> DEFINE u == Unshared(b, t)
           r == t \o u
<1>1. /\ u \in Seq(Commit)
      /\ \A i \in DOMAIN u : \E k \in DOMAIN b : u[i] = b[k]
      /\ \A k \in DOMAIN b : \/ k \in DOMAIN t /\ b[k] = t[k]
                             \/ \E i \in DOMAIN u : u[i] = b[k]
  BY UnsharedFacts
<1> HIDE DEF u
<1>2. /\ r \in Seq(Commit) /\ DOMAIN t \subseteq DOMAIN r
      /\ \A i \in DOMAIN t : r[i] = t[i]
      /\ \A i \in DOMAIN u : Len(t) + i \in DOMAIN r /\ r[Len(t) + i] = u[i]
      /\ \A i \in DOMAIN r : i \in DOMAIN t \/ (i - Len(t) \in DOMAIN u /\ r[i] = u[i - Len(t)])
  BY <1>1
<1> HIDE DEF r
<1>3. Clean(b) /\ Clean(t) => Clean(r)
  BY <1>1, <1>2 DEF Clean
<1>4. ASSUME NoDels(b), NoDels(t) PROVE NoDels(r) /\ Content(b) \subseteq Content(r)
  <2>1. NoDels(r)
    BY <1>1, <1>2, <1>4 DEF NoDels
  <2>2. \A x : x \in Content(r) <=> \E i \in DOMAIN r : x \in r[i].adds
    BY <1>2, <2>1, ContentFacts
  <2>3. \A x : x \in Content(b) <=> \E i \in DOMAIN b : x \in b[i].adds
    BY <1>4, ContentFacts
  <2>4. \A k \in DOMAIN b : \E i \in DOMAIN r : r[i] = b[k]
    <3> SUFFICES ASSUME NEW k \in DOMAIN b PROVE \E i \in DOMAIN r : r[i] = b[k]
      OBVIOUS
    <3>1. CASE k \in DOMAIN t /\ b[k] = t[k]
      BY <1>2, <3>1
    <3>2. CASE \E i \in DOMAIN u : u[i] = b[k]
      BY <1>2, <3>2
    <3> QED
      BY <1>1, <3>1, <3>2
  <2> QED
    BY <2>1, <2>2, <2>3, <2>4
<1> QED
  BY <1>2, <1>3, <1>4 DEF r, u

-----------------------------------------------------------------------------
(* StoreSync: types.                                                       *)

\* The parts of the type invariant.
LEMMA SyncTypeParts ==
    TypeOK <=>
    /\ remote \in Seq(Commit) /\ head \in Seq(Commit) /\ tracking \in Seq(Commit)
    /\ work \subseteq AllEdits /\ writer \in [Writers -> WriterType]
    /\ queued \in BOOLEAN /\ committing \in BOOLEAN /\ stranded \in BOOLEAN /\ marker \in BOOLEAN
    /\ compacted \in BOOLEAN /\ overlapped \in BOOLEAN
    /\ pushing \subseteq Writers /\ sync \in SyncPlaces /\ rewrite \in RewritePlaces
    /\ faults \in 0..MaxFaults /\ rewrites \in 0..MaxRewrites
    /\ fresh \subseteq AllEdits /\ acked \subseteq Edits /\ published \subseteq AllEdits
  BY DEF TypeOK

LEMMA SyncTypePartsNext ==
    ASSUME remote' \in Seq(Commit), head' \in Seq(Commit), tracking' \in Seq(Commit),
           work' \subseteq AllEdits, writer' \in [Writers -> WriterType],
           queued' \in BOOLEAN, committing' \in BOOLEAN, stranded' \in BOOLEAN, marker' \in BOOLEAN,
           compacted' \in BOOLEAN, overlapped' \in BOOLEAN,
           pushing' \subseteq Writers, sync' \in SyncPlaces, rewrite' \in RewritePlaces,
           faults' \in 0..MaxFaults, rewrites' \in 0..MaxRewrites,
           fresh' \subseteq AllEdits, acked' \subseteq Edits, published' \subseteq AllEdits
    PROVE  TypeOK'
  BY DEF TypeOK

\* What a push leaves.
LEMMA PublishType ==
    ASSUME TypeOK, Publish(head)
    PROVE  /\ remote' \in Seq(Commit) /\ tracking' \in Seq(Commit)
           /\ published' \subseteq AllEdits
  BY SyncTypeParts, ContentFacts DEF Publish

LEMMA FaultType ==
    ASSUME TypeOK, Fault
    PROVE  faults' \in 0..MaxFaults
  BY SyncTypeParts, SyncAssumption DEF Fault

\* What a rebase leaves of the branch and the file, with its server and
\* without.
LEMMA ReplayFacts ==
    ASSUME TypeOK, \/ Replay
                   \/ work' = Content(head) /\ UNCHANGED head
                   \/ Orphaned
    PROVE  /\ head' \in Seq(Commit) /\ work' \subseteq AllEdits
           /\ head' = head \/ head' = tracking \o Unshared(head, tracking)
<1>0. head \in Seq(Commit) /\ tracking \in Seq(Commit) /\ work \subseteq AllEdits
  BY SyncTypeParts
<1>1. head' = head \/ head' = tracking \o Unshared(head, tracking)
  BY DEF Replay, Orphaned, Local
<1>2. head' \in Seq(Commit)
  BY <1>0, <1>1, RebasedBranch
<1>3. work' = work \/ \E b : work' = Content(b)
  BY DEF Replay, Orphaned
<1> QED
  BY <1>0, <1>1, <1>2, <1>3, ContentFacts

LEMMA SyncTypes ==
    ASSUME TypeOK, WriterInv, Next
    PROVE  TypeOK'
<1>0. /\ remote \in Seq(Commit) /\ head \in Seq(Commit) /\ tracking \in Seq(Commit)
      /\ work \subseteq AllEdits /\ writer \in [Writers -> WriterType]
      /\ queued \in BOOLEAN /\ committing \in BOOLEAN /\ stranded \in BOOLEAN /\ marker \in BOOLEAN
      /\ compacted \in BOOLEAN /\ overlapped \in BOOLEAN
      /\ pushing \subseteq Writers /\ sync \in SyncPlaces /\ rewrite \in RewritePlaces
      /\ faults \in 0..MaxFaults /\ rewrites \in 0..MaxRewrites
      /\ fresh \subseteq AllEdits /\ acked \subseteq Edits /\ published \subseteq AllEdits
      /\ Resting \in WriterType /\ [Resting EXCEPT !.at = "commit"] \in WriterType
      /\ Committed(head, work) \in Seq(Commit)
      /\ Content(head) \subseteq AllEdits /\ Content(tracking) \subseteq AllEdits
  BY SyncTypeParts, CommittedFacts, ContentFacts DEF Resting, WriterType
<1>1. ASSUME NEW w \in Writers, Write(w) PROVE TypeOK'
  <2>1. writer[w].edit \in Edits /\ writer[w].copy \subseteq AllEdits
    BY <1>0, <1>1 DEF Write, WriterInv, WriterType
  <2>2. writer' \in [Writers -> WriterType] /\ queued' \in BOOLEAN
    BY <1>0, <1>1 DEF Write
  <2>3. overlapped' \in BOOLEAN
    BY <1>1 DEF Write
  <2>4. work' \subseteq AllEdits /\ acked' \subseteq Edits
    BY <1>0, <1>1, <2>1 DEF Write, AllEdits
  <2> QED
    BY <1>0, <1>1, <2>2, <2>3, <2>4, SyncTypePartsNext DEF Write, branches
<1>2. ASSUME NEW w \in Writers, CommitNow(w) PROVE TypeOK'
  BY <1>0, <1>2, SyncTypePartsNext DEF CommitNow, Autocommit, history
<1>3. ASSUME NEW w \in Writers, PushChild(w) PROVE TypeOK'
  BY <1>0, <1>3, PublishType, SyncTypePartsNext DEF PushChild
<1>4. ASSUME NEW w \in Writers, WriterCrash(w) PROVE TypeOK'
  BY <1>0, <1>4, FaultType, SyncTypePartsNext DEF WriterCrash, branches, history
<1>5. ASSUME NEW w \in Writers, NEW e \in Edits, Begin(w, e) PROVE TypeOK'
  <2>1. [at |-> "revise", edit |-> e, copy |-> work] \in WriterType
    BY <1>0 DEF WriterType, AllEdits
  <2> QED
    BY <1>0, <1>5, <2>1, SyncTypePartsNext DEF Begin, branches, history
<1>6. CASE CommitterTake
  BY <1>0, <1>6, SyncTypePartsNext DEF CommitterTake, branches, history
<1>7. CASE CommitterCommit
  BY <1>0, <1>7, SyncTypePartsNext DEF CommitterCommit, Autocommit, history
<1>8. CASE SyncBegin \/ SyncLock \/ SyncCompare
  <2>1. sync' \in SyncPlaces
    BY <1>8 DEF SyncBegin, SyncLock, SyncCompare, SyncPlaces
  <2> QED
    BY <1>0, <1>8, <2>1, SyncTypePartsNext DEF SyncBegin, SyncLock, SyncCompare, branches, SyncIdle
<1>9. CASE SyncCommit \/ SyncFetch \/ SyncRecommit
  <2>1. sync' \in SyncPlaces
    BY <1>9 DEF SyncCommit, SyncFetch, SyncRecommit, SyncPlaces
  <2> QED
    BY <1>0, <1>9, <2>1, SyncTypePartsNext
       DEF SyncCommit, SyncFetch, SyncRecommit, CommitPending, SyncIdle
<1>10. CASE RebaseStart
  <2>1. sync' \in SyncPlaces
    BY <1>10 DEF RebaseStart, SyncPlaces
  <2> QED
    BY <1>0, <1>10, <2>1, SyncTypePartsNext DEF RebaseStart, branches
<1>11. CASE RebasePick
  <2>1. sync' \in SyncPlaces
    BY <1>11 DEF RebasePick, SyncPlaces
  <2>3. head' \in Seq(Commit) /\ work' \subseteq AllEdits
    BY <1>11, ReplayFacts DEF RebasePick
  <2> QED
    BY <1>0, <1>11, <2>1, <2>3, SyncTypePartsNext DEF RebasePick
<1>12. CASE SyncPush
  <2>1. sync' \in SyncPlaces
    BY <1>12 DEF SyncPush, SyncPlaces
  <2>2. remote' \in Seq(Commit) /\ tracking' \in Seq(Commit) /\ published' \subseteq AllEdits
    BY <1>0, <1>12, PublishType DEF SyncPush
  <2> QED
    BY <1>0, <1>12, <2>1, <2>2, SyncTypePartsNext DEF SyncPush, SyncIdle
<1>13. CASE SyncOffline
  <2>1. sync' \in SyncPlaces
    BY <1>13 DEF SyncOffline, SyncPlaces
  <2> QED
    BY <1>0, <1>13, <2>1, FaultType, SyncTypePartsNext DEF SyncOffline, branches, SyncIdle
<1>14. CASE RewriteBegin
  <2>1. rewrite' \in RewritePlaces /\ rewrites' \in 0..MaxRewrites
    BY <1>0, <1>14, SyncAssumption DEF RewriteBegin, RewritePlaces
  <2> QED
    BY <1>0, <1>14, <2>1, SyncTypePartsNext DEF RewriteBegin, branches, RewriteIdle
<1>15. CASE RewriteTransaction
  <2>1. rewrite' \in RewritePlaces
    BY <1>15 DEF RewriteTransaction, RewritePlaces
  <2> QED
    BY <1>0, <1>15, <2>1, SyncTypePartsNext DEF RewriteTransaction, branches, RewriteIdle
<1>16. CASE RewriteMark
  <2>1. rewrite' \in RewritePlaces
    BY <1>16 DEF RewriteMark, RewritePlaces
  <2> QED
    BY <1>0, <1>16, <2>1, SyncTypePartsNext DEF RewriteMark, branches, RewriteIdle
<1>17. CASE RewritePush
  <2>1. rewrite' \in RewritePlaces
    BY <1>17 DEF RewritePush, RewritePlaces
  <2> QED
    BY <1>0, <1>17, <2>1, RewrittenFacts, SyncTypePartsNext DEF RewritePush, RewriteIdle
<1>18. CASE RewriteFails
  <2>1. rewrite' \in RewritePlaces
    BY <1>18 DEF RewriteFails, RewritePlaces
  <2> QED
    BY <1>0, <1>18, <2>1, FaultType, SyncTypePartsNext DEF RewriteFails, branches, RewriteIdle
<1>19. CASE Reset
  BY <1>0, <1>19, ContentFacts, SyncTypePartsNext DEF Reset
<1>20. CASE Recover
  BY <1>0, <1>20, SyncTypePartsNext DEF Recover, branches, RewriteIdle
<1>21. ASSUME NEW e \in OtherEdits, OthersPush(e) PROVE TypeOK'
  <2>1. e \in AllEdits
    BY DEF AllEdits
  <2>2. remote' \in Seq(Commit)
    BY <1>0, <1>21, <2>1, OthersContent DEF OthersPush
  <2> QED
    BY <1>0, <1>21, <2>1, <2>2, SyncTypePartsNext DEF OthersPush
<1>22. CASE ServerCrash
  <2>1. sync' \in SyncPlaces /\ writer' \in [Writers -> WriterType]
    BY <1>0, <1>22 DEF ServerCrash, SyncPlaces
  <2>2. head' \in Seq(Commit) /\ work' \subseteq AllEdits
    BY <1>0, <1>22, ReplayFacts DEF ServerCrash
  <2>3. stranded' \in BOOLEAN
    <3>1. stranded' = stranded \/ stranded' = TRUE
      BY <1>22 DEF ServerCrash, Orphaned
    <3> QED
      BY <1>0, <3>1
  <2> QED
    BY <1>0, <1>22, <2>1, <2>2, <2>3, FaultType, SyncTypePartsNext DEF ServerCrash, history
<1> QED
  BY <1>1, <1>2, <1>3, <1>4, <1>5, <1>6, <1>7, <1>8, <1>9, <1>10, <1>11, <1>12, <1>13, <1>14,
     <1>15, <1>16, <1>17, <1>18, <1>19, <1>20, <1>21, <1>22 DEF Next, SyncStep, RewriteStep

-----------------------------------------------------------------------------
(* StoreSync: no payload returns.                                          *)

\* A push of a marked checkout is rejected unless the branch is the new one.
LEMMA PublishPayload ==
    ASSUME TypeOK, PayloadInv, Publish(head), UNCHANGED <<head, marker, rewrite, compacted>>,
           sync' \notin {"idle", "enter"} => sync' = sync
    PROVE  PayloadInv'
<1>0. remote \in Seq(Commit) /\ head \in Seq(Commit) /\ tracking \in Seq(Commit)
  BY SyncTypeParts
<1>1. CASE IsPrefix(remote, head)
  <2>1. remote' = head /\ tracking' = head
    BY <1>1 DEF Publish
  <2>2. compacted => Clean(head)
    BY <1>1 DEF PayloadInv
  <2> QED
    BY <2>1, <2>2 DEF PayloadInv
<1>2. CASE ~IsPrefix(remote, head)
  BY <1>2 DEF Publish, PayloadInv
<1> QED
  BY <1>1, <1>2

LEMMA SyncPayload ==
    ASSUME TypeOK, PayloadInv, Next
    PROVE  PayloadInv'
<1>0. /\ remote \in Seq(Commit) /\ head \in Seq(Commit) /\ tracking \in Seq(Commit)
      /\ work \subseteq AllEdits /\ (Clean(head) => Clean(Committed(head, work)))
  BY SyncTypeParts, CommittedFacts
<1>1. ASSUME NEW w \in Writers,
             Write(w) \/ WriterCrash(w) \/ CommitterTake \/ \E e \in Edits : Begin(w, e)
      PROVE  PayloadInv'
  BY <1>1 DEF Write, WriterCrash, CommitterTake, Begin, branches, history, PayloadInv
<1>2. CASE CommitterTake
  BY <1>2 DEF CommitterTake, branches, history, PayloadInv
<1>3. ASSUME NEW w \in Writers, CommitNow(w) \/ CommitterCommit PROVE PayloadInv'
  BY <1>0, <1>3 DEF CommitNow, CommitterCommit, Autocommit, GitFree, history, PayloadInv
<1>4. CASE CommitterCommit
  BY <1>0, <1>4 DEF CommitterCommit, Autocommit, GitFree, history, PayloadInv
<1>5. ASSUME NEW w \in Writers, PushChild(w) PROVE PayloadInv'
  <2>1. CASE sync = "pick" \/ stranded \/ tracking = <<>>
    BY <1>5, <2>1 DEF PushChild, PayloadInv
  <2>2. CASE ~(sync = "pick" \/ stranded \/ tracking = <<>>)
    BY <1>5, <2>2, PublishPayload DEF PushChild
  <2> QED
    BY <2>1, <2>2
<1>6. CASE SyncBegin
  BY <1>6 DEF SyncBegin, branches, SyncIdle, PayloadInv
<1>7. CASE SyncLock
  BY <1>7 DEF SyncLock, HistoryFree, branches, SyncIdle, PayloadInv
<1>8. CASE SyncCompare
  BY <1>8 DEF SyncCompare, branches, SyncIdle, PayloadInv
<1>9. CASE SyncCommit \/ SyncRecommit
  BY <1>0, <1>9 DEF SyncCommit, SyncRecommit, CommitPending, SyncIdle, PayloadInv
<1>10. CASE SyncFetch
  BY <1>10 DEF SyncFetch, SyncIdle, PayloadInv
<1>11. CASE RebaseStart
  BY <1>11 DEF RebaseStart, branches, PayloadInv
<1>12. CASE RebasePick
  <2>1. ~marker /\ rewrite = "idle" /\ UNCHANGED <<remote, tracking, marker, rewrite, compacted>>
    BY <1>12 DEF RebasePick, PayloadInv
  <2>2. head' = head \/ head' = tracking \o Unshared(head, tracking)
    BY <1>12, ReplayFacts DEF RebasePick
  <2>3. Clean(head) /\ Clean(tracking) => Clean(head')
    BY <1>0, <2>2, RebasedBranch
  <2> QED
    BY <2>1, <2>3 DEF PayloadInv
<1>13. CASE SyncPush
  <2>1. UNCHANGED <<head, marker, rewrite, compacted>> /\ sync' = "idle"
    BY <1>13 DEF SyncPush, SyncIdle
  <2>2. CASE Ahead(head, tracking)
    BY <1>13, <2>1, <2>2, PublishPayload DEF SyncPush
  <2>3. CASE ~Ahead(head, tracking)
    BY <1>13, <2>1, <2>3 DEF SyncPush, PayloadInv
  <2> QED
    BY <2>2, <2>3
<1>14. CASE SyncOffline
  BY <1>14 DEF SyncOffline, branches, SyncIdle, PayloadInv
<1>15. CASE RewriteBegin
  BY <1>15 DEF RewriteBegin, HistoryFree, branches, RewriteIdle, PayloadInv
<1>16. CASE RewriteTransaction
  BY <1>16 DEF RewriteTransaction, branches, RewriteIdle, PayloadInv
<1>17. CASE RewriteMark
  <2>1. ~marker /\ UNCHANGED <<remote, head, tracking, sync, compacted>>
    BY <1>17 DEF RewriteMark, branches, RewriteIdle, PayloadInv
  <2>2. sync \in {"idle", "enter"}
    BY <1>17 DEF RewriteMark, PayloadInv
  <2> DEFINE ready == /\ work = Content(head) /\ ~stranded /\ remote = head
                      /\ \E i \in DOMAIN head : head[i].payload
  <2>3. CASE ready
    <3>1. rewrite' = "rewrite" /\ marker' = TRUE /\ ~Clean(head)
      BY <1>17, <2>3 DEF RewriteMark, Clean
    <3>2. ~compacted
      BY <2>1, <3>1 DEF PayloadInv
    <3> QED
      BY <2>1, <2>2, <3>1, <3>2 DEF PayloadInv
  <2>4. CASE ~ready
    BY <1>17, <2>1, <2>4 DEF RewriteMark, PayloadInv
  <2> QED
    BY <2>3, <2>4
<1>18. CASE RewritePush
  <2>1. marker /\ ~Clean(head) /\ UNCHANGED <<head, tracking, marker, sync>> /\ rewrite' = "idle"
    BY <1>18 DEF RewritePush, RewriteIdle, PayloadInv
  <2>2. CASE remote = head
    <3>1. remote' = Rewritten(head)
      BY <1>18, <2>2 DEF RewritePush
    <3>2. Clean(Rewritten(head)) /\ ~IsPrefix(Rewritten(head), head)
      BY <1>0, <2>1, RewrittenFacts
    <3> QED
      BY <2>1, <3>1, <3>2 DEF PayloadInv
  <2>3. CASE remote # head
    BY <1>18, <2>1, <2>3 DEF RewritePush, PayloadInv
  <2> QED
    BY <2>2, <2>3
<1>19. CASE RewriteFails
  BY <1>19 DEF RewriteFails, branches, RewriteIdle, PayloadInv
<1>20. CASE Reset
  BY <1>20 DEF Reset, HistoryFree, PayloadInv
<1>21. CASE Recover
  <2>1. /\ marker /\ head = remote /\ marker' = FALSE /\ rewrite = "idle"
        /\ UNCHANGED <<remote, head, tracking, compacted, rewrite, sync>>
    BY <1>21 DEF Recover, HistoryFree, branches, RewriteIdle
  <2>2. IsPrefix(remote, head)
    BY <1>0, <2>1, PrefixIff
  <2>3. compacted => Clean(head) /\ Clean(tracking)
    BY <2>1, <2>2 DEF PayloadInv
  <2> QED
    BY <2>1, <2>3 DEF PayloadInv
<1>22. ASSUME NEW e \in OtherEdits, OthersPush(e) PROVE PayloadInv'
  <2>1. e \in AllEdits
    BY DEF AllEdits
  <2>2. (Clean(remote) => Clean(remote')) /\ (IsPrefix(remote', head) => IsPrefix(remote, head))
    BY <1>0, <1>22, <2>1, OthersContent DEF OthersPush
  <2> QED
    BY <1>22, <2>2 DEF OthersPush, PayloadInv
<1>23. CASE ServerCrash
  <2>1. /\ UNCHANGED <<remote, tracking, marker, rewrite, compacted>> /\ sync' = "idle"
        /\ sync = "pick" => ~marker
    BY <1>23 DEF ServerCrash, history, PayloadInv
  <2>2. head' = head \/ (sync = "pick" /\ head' = tracking \o Unshared(head, tracking))
    BY <1>23, ReplayFacts DEF ServerCrash
  <2>3. (Clean(head) /\ Clean(tracking) => Clean(head')) /\ (marker => head' = head)
    BY <1>0, <2>1, <2>2, RebasedBranch
  <2> QED
    BY <2>1, <2>2, <2>3 DEF PayloadInv
<1> QED
  BY <1>1, <1>2, <1>3, <1>4, <1>5, <1>6, <1>7, <1>8, <1>9, <1>10, <1>11, <1>12, <1>13, <1>14,
     <1>15, <1>16, <1>17, <1>18, <1>19, <1>20, <1>21, <1>22, <1>23 DEF Next, SyncStep, RewriteStep

\* Only a crash strands the checkout, and nothing marks it then.
LEMMA SyncStranded ==
    ASSUME TypeOK, PayloadInv, StrandedInv, Next
    PROVE  StrandedInv'
<1>1. CASE ServerCrash
  <2>1. sync' = "idle" /\ UNCHANGED marker /\ (sync = "pick" => ~marker)
    BY <1>1 DEF ServerCrash, PayloadInv
  <2>2. sync # "pick" => UNCHANGED stranded
    BY <1>1 DEF ServerCrash
  <2> QED
    BY <2>1, <2>2 DEF StrandedInv
<1>2. CASE SyncStep \/ SyncOffline
  BY <1>2 DEF SyncStep, SyncOffline, SyncBegin, SyncLock, SyncCommit, SyncFetch, SyncCompare,
     SyncRecommit, RebaseStart, RebasePick, SyncPush, SyncIdle, StrandedInv
<1>3. CASE RewriteMark \/ Recover
  BY <1>3 DEF RewriteMark, Recover, RewriteIdle, StrandedInv
<1>4. CASE UNCHANGED <<stranded, marker, sync>>
  BY <1>4 DEF StrandedInv
<1>5. ASSUME \/ \E w \in Writers : \/ Write(w) \/ CommitNow(w) \/ PushChild(w) \/ WriterCrash(w)
                                   \/ \E e \in Edits : Begin(w, e)
             \/ CommitterTake \/ CommitterCommit \/ RewriteBegin \/ RewriteTransaction
             \/ RewritePush \/ RewriteFails \/ Reset
             \/ \E e \in OtherEdits : OthersPush(e)
      PROVE  UNCHANGED <<stranded, marker, sync>>
  BY <1>5 DEF Write, CommitNow, PushChild, WriterCrash, Begin, CommitterTake, CommitterCommit,
     RewriteBegin, RewriteTransaction, RewritePush, RewriteFails, Reset, OthersPush, RewriteIdle
<1> QED
  BY <1>1, <1>2, <1>3, <1>4, <1>5 DEF Next, RewriteStep

\* No transaction is open while the rewrite or its marker keeps them out.
LEMMA SyncWriters ==
    ASSUME TypeOK, WriterInv, Next
    PROVE  WriterInv'
<1>0. writer \in [Writers -> WriterType] /\ Resting.at = "idle"
  BY SyncTypeParts DEF Resting
<1>1. ASSUME NEW w \in Writers, NEW e \in Edits, Begin(w, e) PROVE WriterInv'
  BY <1>0, <1>1 DEF Begin, TicketFree, WriterInv
<1>2. ASSUME NEW w \in Writers, Write(w) \/ CommitNow(w) \/ WriterCrash(w) PROVE WriterInv'
  <2>1. \A u \in Writers : writer'[u] = writer[u] \/ writer'[u].at \in {"idle", "commit"}
    BY <1>0, <1>2 DEF Write, CommitNow, WriterCrash, Resting
  <2> QED
    BY <1>2, <2>1 DEF Write, CommitNow, WriterCrash, WriterInv
<1>3. CASE ServerCrash
  BY <1>0, <1>3 DEF ServerCrash, WriterInv
<1>4. CASE RewriteTransaction \/ RewriteMark
  BY <1>4 DEF RewriteTransaction, RewriteMark, TicketFree, RewriteIdle, WriterInv
<1>5. CASE RewriteBegin \/ RewritePush \/ RewriteFails
  BY <1>5 DEF RewriteBegin, RewritePush, RewriteFails, RewriteIdle, WriterInv
<1>6. CASE Recover
  BY <1>6 DEF Recover, RewriteIdle, WriterInv
<1>7. CASE UNCHANGED <<writer, marker, rewrite>>
  BY <1>7 DEF WriterInv
<1>8. ASSUME \/ \E w \in Writers : PushChild(w)
             \/ CommitterTake \/ CommitterCommit \/ SyncStep \/ SyncOffline \/ Reset
             \/ \E e \in OtherEdits : OthersPush(e)
      PROVE  UNCHANGED <<writer, marker, rewrite>>
  BY <1>8 DEF PushChild, CommitterTake, CommitterCommit, SyncStep, SyncBegin, SyncLock, SyncCommit,
     SyncFetch, SyncCompare, SyncRecommit, RebaseStart, RebasePick, SyncPush, SyncOffline, Reset,
     OthersPush, SyncIdle
<1> QED
  BY <1>1, <1>2, <1>3, <1>4, <1>5, <1>6, <1>7, <1>8 DEF Next, RewriteStep

-----------------------------------------------------------------------------
(* StoreSync: no edit is lost.                                             *)

\* A push that is accepted keeps what was at origin.
LEMMA PublishEdits ==
    ASSUME TypeOK, EditInv, Publish(head), sync # "pick", sync' # "pick",
           UNCHANGED <<head, work, stranded, marker, acked, overlapped>>
    PROVE  EditInv'
<1>0. remote \in Seq(Commit) /\ head \in Seq(Commit) /\ tracking \in Seq(Commit)
  BY SyncTypeParts
<1>1. CASE IsPrefix(remote, head)
  <2> SUFFICES ASSUME ~overlapped PROVE EditInv'
    BY DEF EditInv
  <2>1. remote' = head /\ tracking' = head /\ published' = published \cup Content(head)
    BY <1>1 DEF Publish
  <2>2. NoDels(remote) /\ NoDels(head)
    BY DEF EditInv
  <2>3. Content(remote) \subseteq Content(head)
    BY <1>0, <1>1, <2>2, PrefixContent
  <2> QED
    BY <2>1, <2>2, <2>3 DEF EditInv
<1>2. CASE ~IsPrefix(remote, head)
  BY <1>2 DEF Publish, EditInv
<1> QED
  BY <1>1, <1>2

\* A commit of the file keeps what the branch had.
LEMMA CommitEdits ==
    ASSUME TypeOK, EditInv, sync # "pick", sync' # "pick",
           head' = head \/ (~stranded /\ head' = Committed(head, work)),
           UNCHANGED <<remote, tracking, work, stranded, marker, published, acked, overlapped>>
    PROVE  EditInv'
<1> SUFFICES ASSUME ~overlapped PROVE EditInv'
  BY DEF EditInv
<1>1. head \in Seq(Commit) /\ work \in SUBSET AllEdits
  BY SyncTypeParts
<1>2. NoDels(head) /\ (~stranded => Content(head) \subseteq work)
  BY DEF EditInv
<1>3. NoDels(head') /\ (~stranded => Content(head') \subseteq work) /\ (stranded => head' = head)
  BY <1>1, <1>2, CommittedFacts
<1> QED
  BY <1>3 DEF EditInv

LEMMA SyncEdits ==
    ASSUME TypeOK, PayloadInv, StrandedInv, EditInv, WriterInv, Next
    PROVE  EditInv'
<1>0. remote \in Seq(Commit) /\ head \in Seq(Commit) /\ tracking \in Seq(Commit)
  BY SyncTypeParts
<1>1. ASSUME NEW w \in Writers, Write(w) PROVE EditInv'
  <2> SUFFICES ASSUME ~overlapped' PROVE EditInv'
    BY DEF EditInv
  <2>1. ~overlapped /\ writer[w].copy = work /\ sync # "pick"
    BY <1>1 DEF Write
  <2>2. ~marker
    BY <1>1 DEF Write, WriterInv
  <2>3. /\ work' = work \cup {writer[w].edit} /\ acked' = acked \cup {writer[w].edit}
        /\ UNCHANGED <<remote, head, tracking, published, sync, stranded, marker>>
    BY <1>1, <2>1 DEF Write, branches
  <2> QED
    BY <2>1, <2>2, <2>3 DEF EditInv
<1>2. ASSUME NEW w \in Writers, CommitNow(w) PROVE EditInv'
  <2>1. /\ sync # "pick" /\ sync' = sync /\ (head' = head \/ (~stranded /\ head' = Committed(head, work)))
        /\ UNCHANGED <<remote, tracking, work, stranded, marker, published, acked, overlapped>>
    BY <1>2 DEF CommitNow, Autocommit, GitFree, history
  <2> QED
    BY <2>1, CommitEdits
<1>3. CASE CommitterCommit
  <2>1. /\ sync # "pick" /\ sync' = sync /\ (head' = head \/ (~stranded /\ head' = Committed(head, work)))
        /\ UNCHANGED <<remote, tracking, work, stranded, marker, published, acked, overlapped>>
    BY <1>3 DEF CommitterCommit, Autocommit, GitFree, history
  <2> QED
    BY <2>1, CommitEdits
<1>4. CASE SyncCommit \/ SyncRecommit
  <2>1. /\ sync # "pick" /\ sync' # "pick"
        /\ head' = head \/ (~stranded /\ head' = Committed(head, work))
        /\ UNCHANGED <<remote, tracking, work, stranded, marker, published, acked, overlapped>>
    BY <1>4 DEF SyncCommit, SyncRecommit, CommitPending, SyncIdle
  <2> QED
    BY <2>1, CommitEdits
<1>5. ASSUME NEW w \in Writers, PushChild(w) PROVE EditInv'
  <2>1. UNCHANGED <<head, work, stranded, marker, acked, overlapped, sync>>
    BY <1>5 DEF PushChild
  <2>2. CASE sync = "pick" \/ stranded \/ tracking = <<>>
    BY <1>5, <2>1, <2>2 DEF PushChild, EditInv
  <2>3. CASE ~(sync = "pick" \/ stranded \/ tracking = <<>>)
    BY <1>5, <2>1, <2>3, PublishEdits DEF PushChild
  <2> QED
    BY <2>2, <2>3
<1>6. CASE SyncFetch
  <2>1. tracking' = remote /\ sync = "fetch" /\ sync' = "compare"
        /\ UNCHANGED <<remote, head, work, stranded, marker, published, acked, overlapped>>
    BY <1>6 DEF SyncFetch, SyncIdle
  <2> QED
    BY <2>1 DEF EditInv
<1>7. CASE SyncBegin \/ SyncLock \/ SyncCompare \/ SyncOffline
  <2>1. /\ sync # "pick" /\ sync' # "pick"
        /\ UNCHANGED <<remote, head, tracking, work, stranded, marker, published, acked, overlapped>>
    BY <1>7 DEF SyncBegin, SyncLock, SyncCompare, SyncOffline, branches, SyncIdle
  <2> QED
    BY <2>1 DEF EditInv
<1>8. CASE RebaseStart
  <2>1. /\ sync = "start" /\ ~stranded
        /\ UNCHANGED <<remote, head, tracking, stranded, marker, published, acked, overlapped>>
        /\ \/ sync' = "idle" /\ work' = work
           \/ sync' = "pick" /\ work = Content(head) /\ work' = Content(tracking)
    BY <1>8 DEF RebaseStart, branches, StrandedInv
  <2> QED
    BY <2>1 DEF EditInv
<1>9. CASE RebasePick
  <2> SUFFICES ASSUME ~overlapped' PROVE EditInv'
    BY DEF EditInv
  <2> DEFINE r == tracking \o Unshared(head, tracking)
  <2>1. /\ sync = "pick" /\ ~overlapped /\ ~stranded
        /\ UNCHANGED <<remote, tracking, stranded, marker, published, acked>>
    BY <1>9 DEF RebasePick, StrandedInv
  <2>2. /\ work = Content(tracking) /\ acked \subseteq Content(head)
        /\ NoDels(head) /\ NoDels(tracking)
    BY <2>1 DEF EditInv
  <2>3. \/ sync' = "idle" /\ work' = Content(head) /\ head' = head
        \/ sync' = "push" /\ head' = r /\ work' = Content(r)
    BY <1>9, <2>2 DEF RebasePick, Replay, Dirty, Local
  <2>4. NoDels(r) /\ Content(head) \subseteq Content(r)
    BY <1>0, <2>2, RebasedBranch
  <2> HIDE DEF r
  <2> QED
    BY <2>1, <2>2, <2>3, <2>4 DEF EditInv
<1>10. CASE SyncPush
  <2>1. /\ sync = "push" /\ sync' = "idle"
        /\ UNCHANGED <<head, work, stranded, marker, acked, overlapped>>
    BY <1>10 DEF SyncPush, SyncIdle
  <2>2. CASE Ahead(head, tracking)
    BY <1>10, <2>1, <2>2, PublishEdits DEF SyncPush
  <2>3. CASE ~Ahead(head, tracking)
    BY <1>10, <2>1, <2>3 DEF SyncPush, EditInv
  <2> QED
    BY <2>2, <2>3
<1>11. CASE RewriteMark
  <2>1. /\ sync # "pick"
        /\ UNCHANGED <<remote, head, tracking, work, published, acked, overlapped, sync, stranded>>
        /\ marker' = marker \/ (work = Content(head) /\ remote = head /\ ~stranded)
    BY <1>11 DEF RewriteMark, GitFree, branches, RewriteIdle
  <2> QED
    BY <2>1 DEF EditInv
<1>12. CASE RewritePush
  <2>1. /\ UNCHANGED <<head, tracking, work, published, acked, overlapped, sync, stranded, marker>>
        /\ remote' = remote \/ (remote = head /\ remote' = Rewritten(remote))
    BY <1>12 DEF RewritePush, RewriteIdle
  <2>2. Content(remote') = Content(remote) /\ (NoDels(remote) => NoDels(remote'))
    BY <1>0, <2>1, RewrittenFacts
  <2> QED
    BY <2>1, <2>2 DEF EditInv
<1>13. CASE Reset
  <2>1. /\ marker /\ ~stranded /\ sync # "pick" /\ head' = remote /\ tracking' = remote
        /\ work' = Content(remote)
        /\ UNCHANGED <<remote, published, stranded, marker, sync, acked, overlapped>>
    BY <1>13 DEF Reset, HistoryFree, StrandedInv
  <2> QED
    BY <2>1 DEF EditInv
<1>14. CASE Recover
  <2>1. /\ marker' = FALSE
        /\ UNCHANGED <<remote, head, tracking, work, published, acked, overlapped, sync, stranded>>
    BY <1>14 DEF Recover, branches, RewriteIdle
  <2> QED
    BY <2>1 DEF EditInv
<1>15. ASSUME NEW e \in OtherEdits, OthersPush(e) PROVE EditInv'
  <2> SUFFICES ASSUME ~overlapped' PROVE EditInv'
    BY DEF EditInv
  <2>1. /\ ~overlapped /\ published' = published \cup {e}
        /\ UNCHANGED <<head, tracking, work, stranded, marker, sync, acked>>
    BY <1>15 DEF OthersPush
  <2>2. NoDels(remote) /\ e \in AllEdits
    BY <2>1 DEF EditInv, AllEdits
  <2>3. NoDels(remote') /\ Content(remote) \subseteq Content(remote') /\ e \in Content(remote')
    BY <1>0, <1>15, <2>2, OthersContent DEF OthersPush
  <2> QED
    BY <2>1, <2>3 DEF EditInv
<1>16. CASE ServerCrash
  <2>1. /\ sync' = "idle"
        /\ UNCHANGED <<remote, tracking, marker, published, acked, overlapped>>
    BY <1>16 DEF ServerCrash, history
  <2>2. CASE sync # "pick"
    <3>1. UNCHANGED <<head, work, stranded>>
      BY <1>16, <2>2 DEF ServerCrash
    <3> QED
      BY <2>1, <2>2, <3>1 DEF EditInv
  <2>3. CASE sync = "pick"
    <3> SUFFICES ASSUME ~overlapped PROVE EditInv'
      BY <2>1 DEF EditInv
    <3> DEFINE r == tracking \o Unshared(head, tracking)
    <3>1. /\ work = Content(tracking) /\ acked \subseteq Content(head) /\ ~stranded /\ ~marker
          /\ NoDels(head) /\ NoDels(tracking)
      BY <2>3 DEF EditInv, StrandedInv, PayloadInv
    <3>2. \/ head' = r /\ work' = Content(r) /\ UNCHANGED stranded
          \/ stranded' = TRUE /\ UNCHANGED head
      BY <1>16, <2>3, <3>1 DEF ServerCrash, Orphaned, Replay, Dirty, Local
    <3>3. NoDels(r) /\ Content(head) \subseteq Content(r)
      BY <1>0, <3>1, RebasedBranch
    <3> HIDE DEF r
    <3> QED
      BY <2>1, <3>1, <3>2, <3>3 DEF EditInv
  <2> QED
    BY <2>2, <2>3
<1>17. CASE UNCHANGED <<remote, head, tracking, work, stranded, marker, published, acked, overlapped,
                          sync>>
  BY <1>17 DEF EditInv
<1>18. ASSUME \/ \E w \in Writers : WriterCrash(w) \/ \E e \in Edits : Begin(w, e)
              \/ CommitterTake \/ RewriteBegin \/ RewriteTransaction \/ RewriteFails
       PROVE  UNCHANGED <<remote, head, tracking, work, stranded, marker, published, acked, overlapped,
                          sync>>
  BY <1>18 DEF WriterCrash, Begin, CommitterTake, RewriteBegin, RewriteTransaction, RewriteFails,
     RewriteIdle, branches, history
<1> QED
  BY <1>1, <1>2, <1>3, <1>4, <1>5, <1>6, <1>7, <1>8, <1>9, <1>10, <1>11, <1>12, <1>13, <1>14,
     <1>15, <1>16, <1>17, <1>18 DEF Next, SyncStep, RewriteStep

-----------------------------------------------------------------------------
(* StoreSync: the theorems.                                                *)

LEMMA SyncInitInv ==
    ASSUME Init
    PROVE  SyncInv
<1> DEFINE k == [adds |-> {}, dels |-> {}, payload |-> TRUE]
<1>1. k \in Commit /\ k.adds = {} /\ k.dels = {}
  BY DEF Commit
<1>2. head = <<k>> /\ remote \in {<<>>, <<k>>} /\ tracking = remote
  BY DEF Init
<1> HIDE DEF k
<1>3. <<k>> \in Seq(Commit) /\ DOMAIN <<k>> = {1} /\ <<k>>[1] = k
  BY <1>1
<1>4. NoDels(<<k>>) /\ Content(<<k>>) = {}
  BY <1>1, <1>3, ContentFacts DEF NoDels
<1>10. <<>> \in Seq(Commit) /\ NoDels(<<>>)
  BY DEF NoDels
<1>5. Resting \in WriterType /\ Resting.at = "idle"
  BY DEF Resting, WriterType
<1>6. TypeOK
  <2>1. writer \in [Writers -> WriterType]
    BY <1>5 DEF Init
  <2>2. faults \in 0..MaxFaults /\ rewrites \in 0..MaxRewrites
    BY SyncAssumption DEF Init
  <2>3. /\ queued \in BOOLEAN /\ committing \in BOOLEAN /\ stranded \in BOOLEAN /\ marker \in BOOLEAN
        /\ compacted \in BOOLEAN /\ overlapped \in BOOLEAN
    BY DEF Init
  <2>4. sync \in SyncPlaces /\ rewrite \in RewritePlaces
    BY DEF Init, SyncPlaces, RewritePlaces
  <2>5. /\ work \subseteq AllEdits /\ pushing \subseteq Writers /\ fresh \subseteq AllEdits
        /\ acked \subseteq Edits /\ published \subseteq AllEdits
    BY DEF Init
  <2> QED
    BY <1>2, <1>3, <1>10, <2>1, <2>2, <2>3, <2>4, <2>5, SyncTypeParts
<1>7. PayloadInv
  BY DEF Init, PayloadInv
<1>8. EditInv
  BY <1>2, <1>4, <1>10 DEF Init, EditInv
<1>9. WriterInv
  BY <1>5 DEF Init, WriterInv
<1>11. StrandedInv
  BY DEF Init, StrandedInv
<1> QED
  BY <1>6, <1>7, <1>8, <1>9, <1>11 DEF SyncInv

LEMMA SyncStepInv ==
    ASSUME SyncInv, [Next]_vars
    PROVE  SyncInv'
<1>1. CASE Next
  BY <1>1, SyncTypes, SyncPayload, SyncStranded, SyncWriters, SyncEdits DEF SyncInv
<1>2. CASE UNCHANGED vars
  BY <1>2 DEF vars, SyncInv, TypeOK, PayloadInv, StrandedInv, EditInv, WriterInv
<1> QED
  BY <1>1, <1>2

\* The inductive invariant of the checkout holds in every state.
LEMMA SyncInvariance == Spec => []SyncInv
<1>1. Init => SyncInv
  BY SyncInitInv
<1>2. SyncInv /\ [Next]_vars => SyncInv'
  BY SyncStepInv
<1> QED
  BY <1>1, <1>2, PTL DEF Spec

\* Writers, the background committer, sync_once, the push children, the
\* history rewrite and its recovery keep the types of the model.
THEOREM SyncTypeCorrect == Spec => []TypeOK
<1>1. SyncInv => TypeOK
  BY DEF SyncInv
<1> QED
  BY <1>1, SyncInvariance, PTL

\* A payload that repository_compaction.rs removed from origin never returns
\* from this checkout, for any number of writers, rewrites and crashes: every
\* push of a checkout that still has the old history is rejected, since the
\* recovery marker stays until the checkout is at origin's head.
THEOREM PayloadNeverReturns == Spec => []PayloadGone
<1>1. SyncInv => PayloadGone
  BY DEF SyncInv, PayloadInv, Clean, PayloadGone
<1> QED
  BY <1>1, SyncInvariance, PTL

\* Whatever the interleaving of transactions, background commits, sync cycles,
\* pushes, crashes and rewrites, an edit that store.rs acknowledged is in the
\* file, on the branch that a running rebase restores, or in one of them when a
\* crash left the checkout inside a rebase, and an edit that was published
\* stays at origin, unless a rebase moved the file under a transaction.
THEOREM EditsAreKept == Spec => []NoEditLost
<1>1. SyncInv => NoEditLost
  BY DEF SyncInv, EditInv, NoEditLost
<1> QED
  BY <1>1, SyncInvariance, PTL

-----------------------------------------------------------------------------
(* TicketMerge: the inductive invariant.                                   *)

\* A ticket whose stamps are not ahead of the clocks, and whose claim history
\* was turned into events.
Sound(k, clocks) ==
    /\ k \in TicketType /\ k.fields.history = <<>>
    /\ \A s \in k.notes \cup k.events : s[2] <= clocks[s[1]]
    /\ \A p \in Paragraphs : k.body[p] # <<>> => k.body[p][2] <= clocks[k.body[p][1]]

\* What appending and removing does to a ticket.
Follows(k, l) ==
    k.notes \subseteq l.notes /\ k.events \subseteq l.events /\ l.tags \subseteq k.tags

ParentOf(c, i) == IF i = 1 THEN base[c] ELSE local[c][i-1]

CloneInv(c) ==
    /\ Sound(base[c], clock) /\ Follows(base[c], origin)
    /\ \A i \in 1..Len(local[c]) :
        /\ Sound(local[c][i], clock) /\ Follows(ParentOf(c, i), local[c][i])
        /\ local[c][i] # ParentOf(c, i)

MergeInv == MergeTypeOK /\ Sound(origin, clock) /\ \A c \in Clones : CloneInv(c)

-----------------------------------------------------------------------------
(* TicketMerge: the merge of two revisions.                                *)

\* pick3 takes one of the sides, the changed one if only one changed, and
\* does not depend on which side is called ours.
LEMMA Pick3Facts ==
    ASSUME NEW o, NEW u, NEW t, NEW w \in BOOLEAN
    PROVE  /\ Pick3(o, u, t, w) \in {u, t}
           /\ u = o => Pick3(o, u, t, w) = t
           /\ Pick3(o, u, t, w) = Pick3(o, t, u, ~w)
  BY DEF Pick3

\* The names of the fields of a ticket.
FieldNames == {"status", "phase", "upNext", "blocked", "closed", "trashedFrom", "claimedBy",
               "lease", "count", "history"}

LEMMA FieldsDomain ==
    ASSUME NEW k \in Ops!TicketType
    PROVE  DOMAIN k = FieldNames
  BY DEF Ops!TicketType, FieldNames

\* The merge of the scalar fields.
LEMMA MergeFieldsFacts ==
    ASSUME NEW o \in Ops!TicketType, NEW u \in Ops!TicketType, NEW t \in Ops!TicketType,
           NEW w \in BOOLEAN
    PROVE  /\ MergeFields(o, u, t, w) \in Ops!TicketType
           /\ \A f \in FieldNames \ {"phase"} :
                MergeFields(o, u, t, w)[f] = Pick3(o[f], u[f], t[f], w)
<1> DEFINE picked == [f \in DOMAIN o |-> Pick3(o[f], u[f], t[f], w)]
           r == [picked EXCEPT !.phase = IF picked.status = "started" THEN picked.phase ELSE "none"]
<1>1. DOMAIN o = FieldNames
  BY FieldsDomain
<1>2. \A f \in FieldNames : picked[f] = Pick3(o[f], u[f], t[f], w)
  BY <1>1
<1>3. \A f \in FieldNames : picked[f] \in {u[f], t[f]}
  BY <1>2, Pick3Facts
<1>4. DOMAIN picked = FieldNames
  BY <1>1
<1>5. MergeFields(o, u, t, w) = r
  BY DEF MergeFields
<1>6. picked = [f \in FieldNames |-> picked[f]]
  BY <1>1
<1> HIDE DEF picked
<1>7. /\ DOMAIN r = FieldNames /\ \A f \in FieldNames \ {"phase"} : r[f] = picked[f]
      /\ r = [f \in FieldNames |-> r[f]]
      /\ r["phase"] \in {picked["phase"], "none"}
  BY <1>4, <1>6 DEF FieldNames
<1> HIDE DEF r
<1>8. r \in Ops!TicketType
  <2>1. /\ r.status \in {u.status, t.status} /\ r.phase \in {u.phase, t.phase, "none"}
        /\ r.upNext \in {u.upNext, t.upNext} /\ r.blocked \in {u.blocked, t.blocked}
        /\ r.closed \in {u.closed, t.closed} /\ r.trashedFrom \in {u.trashedFrom, t.trashedFrom}
        /\ r.claimedBy \in {u.claimedBy, t.claimedBy} /\ r.lease \in {u.lease, t.lease}
        /\ r.count \in {u.count, t.count} /\ r.history \in {u.history, t.history}
    BY <1>3, <1>7 DEF FieldNames
  <2>2. r = [status |-> r.status, phase |-> r.phase, upNext |-> r.upNext, blocked |-> r.blocked,
             closed |-> r.closed, trashedFrom |-> r.trashedFrom, claimedBy |-> r.claimedBy,
             lease |-> r.lease, count |-> r.count, history |-> r.history]
    BY <1>7 DEF FieldNames
  <2>3. "none" \in Ops!Phases
    BY DEF Ops!Phases
  <2> QED
    BY <2>1, <2>2, <2>3 DEF Ops!TicketType
<1> QED
  BY <1>2, <1>5, <1>7, <1>8

\* What a merge takes from its sides.
LEMMA MergeFacts ==
    ASSUME NEW o \in TicketType, NEW u \in TicketType, NEW t \in TicketType
    PROVE  LET m == Merge(o, u, t) IN
           /\ m \in TicketType
           /\ \A f \in FieldNames \ {"phase"} :
                \E w \in BOOLEAN : m.fields[f] = Pick3(o.fields[f], u.fields[f], t.fields[f], w)
           /\ m.notes = u.notes \cup t.notes
           /\ m.events = o.events \cup u.events \cup t.events
           /\ m.tags = Union3(o.tags, u.tags, t.tags)
           /\ \A p \in Paragraphs : m.body[p] \in {u.body[p], t.body[p]}
<1> DEFINE m == Merge(o, u, t)
           w == OursWins(u, t)
<1>0. /\ o.fields \in Ops!TicketType /\ u.fields \in Ops!TicketType /\ t.fields \in Ops!TicketType
      /\ o.events \subseteq Stamps /\ u.events \subseteq Stamps /\ t.events \subseteq Stamps
      /\ u.notes \subseteq Stamps /\ t.notes \subseteq Stamps
      /\ u.tags \subseteq OldTags /\ t.tags \subseteq OldTags
      /\ u.body \in [Paragraphs -> {<<>>} \cup Stamps]
      /\ t.body \in [Paragraphs -> {<<>>} \cup Stamps]
      /\ u.updated \in 0..MaxStamp /\ t.updated \in 0..MaxStamp
  BY DEF TicketType
<1>1. w \in BOOLEAN
  BY <1>0 DEF OursWins
<1>2. /\ m.fields = MergeFields(o.fields, u.fields, t.fields, w)
      /\ m.notes = u.notes \cup t.notes /\ m.events = o.events \cup u.events \cup t.events
      /\ m.tags = Union3(o.tags, u.tags, t.tags) /\ m.body = MergeBody(o.body, u.body, t.body)
      /\ m.updated = MergedUpdated(u, t, w)
      /\ m = [fields |-> m.fields, events |-> m.events, notes |-> m.notes, tags |-> m.tags,
              body |-> m.body, updated |-> m.updated]
  BY DEF Merge, MergeNotes
<1> HIDE DEF m, w
<1>3. /\ m.fields \in Ops!TicketType
      /\ \A f \in FieldNames \ {"phase"} :
            m.fields[f] = Pick3(o.fields[f], u.fields[f], t.fields[f], w)
  <2> DEFINE a == o.fields
             b == u.fields
             d == t.fields
  <2>1. a \in Ops!TicketType /\ b \in Ops!TicketType /\ d \in Ops!TicketType
    BY <1>0
  <2>2. m.fields = MergeFields(a, b, d, w)
    BY <1>2
  <2> HIDE DEF a, b, d
  <2>3. /\ MergeFields(a, b, d, w) \in Ops!TicketType
        /\ \A f \in FieldNames \ {"phase"} : MergeFields(a, b, d, w)[f] = Pick3(a[f], b[f], d[f], w)
    BY <1>1, <2>1, MergeFieldsFacts
  <2> QED
    BY <2>2, <2>3 DEF a, b, d
<1>4. /\ m.body \in [Paragraphs -> {<<>>} \cup Stamps]
      /\ \A p \in Paragraphs : m.body[p] \in {u.body[p], t.body[p]}
  BY <1>0, <1>2 DEF MergeBody
<1>5. m.tags \subseteq OldTags /\ m.updated \in 0..MaxStamp
  BY <1>0, <1>2 DEF Union3, MergedUpdated
<1>6. m \in TicketType
  BY <1>0, <1>2, <1>3, <1>4, <1>5 DEF TicketType
<1> QED
  BY <1>1, <1>2, <1>3, <1>4, <1>6 DEF m

\* Which side is called ours does not matter, unless the stamps are equal or
\* the bodies conflict.
LEMMA MergeSymmetric ==
    ASSUME NEW o \in TicketType, NEW u \in TicketType, NEW t \in TicketType,
           u.updated # t.updated, ~BodyConflict(o.body, u.body, t.body)
    PROVE  Merge(o, u, t) = Merge(o, t, u)
<1> DEFINE w == OursWins(u, t)
<1>0. w \in BOOLEAN /\ OursWins(t, u) = ~w
  <2>1. u.updated \in Int /\ t.updated \in Int
    BY DEF TicketType
  <2> QED
    BY <2>1 DEF OursWins
<1>1. MergeFields(o.fields, u.fields, t.fields, w) = MergeFields(o.fields, t.fields, u.fields, ~w)
  <2> HIDE DEF w
  <2>1. \A f \in DOMAIN o.fields : Pick3(o.fields[f], u.fields[f], t.fields[f], w)
                                 = Pick3(o.fields[f], t.fields[f], u.fields[f], ~w)
    BY <1>0, Pick3Facts
  <2>2. [f \in DOMAIN o.fields |-> Pick3(o.fields[f], u.fields[f], t.fields[f], w)]
      = [f \in DOMAIN o.fields |-> Pick3(o.fields[f], t.fields[f], u.fields[f], ~w)]
    BY <2>1
  <2> QED
    BY <2>2 DEF MergeFields
<1>2. MergeBody(o.body, u.body, t.body) = MergeBody(o.body, t.body, u.body)
  <2>1. \A p \in Paragraphs : (IF u.body[p] = o.body[p] THEN t.body[p] ELSE u.body[p])
                            = (IF t.body[p] = o.body[p] THEN u.body[p] ELSE t.body[p])
    BY DEF BodyConflict
  <2> QED
    BY <2>1 DEF MergeBody
<1>3. /\ MergeNotes(u.notes, t.notes) = MergeNotes(t.notes, u.notes)
      /\ MergeNotes(u.events, t.events) = MergeNotes(t.events, u.events)
      /\ Union3(o.tags, u.tags, t.tags) = Union3(o.tags, t.tags, u.tags)
  BY DEF MergeNotes, Union3
<1>4. MergedUpdated(u, t, w) = MergedUpdated(t, u, ~w)
  BY <1>0 DEF MergedUpdated
<1> HIDE DEF w
<1> QED
  BY <1>0, <1>1, <1>2, <1>3, <1>4 DEF Merge, w

-----------------------------------------------------------------------------
(* TicketMerge: the replay of a clone's commits.                           *)

ReplayType == [parent : TicketType, onto : TicketType, clean : BOOLEAN]

LEMMA ReplayedType ==
    ASSUME NEW a \in ReplayType, NEW k \in TicketType
    PROVE  Replayed(a, k) \in ReplayType
<1>1. a.parent \in TicketType /\ a.onto \in TicketType
  BY DEF ReplayType
<1>2. Merge(a.parent, a.onto, k) \in TicketType
  <2> DEFINE o == a.parent
             u == a.onto
  <2> HIDE DEF o, u
  <2>1. o \in TicketType /\ u \in TicketType
    BY <1>1 DEF o, u
  <2>2. Merge(o, u, k) \in TicketType
    BY <2>1, MergeFacts
  <2> QED
    BY <2>2 DEF o, u
<1>3. (a.clean /\ ~BodyConflict(a.parent.body, a.onto.body, k.body)) \in BOOLEAN
  OBVIOUS
<1> QED
  BY <1>1, <1>2, <1>3 DEF Replayed, ReplayType

\* A replay passes through one state per commit.
LEMMA ReplayExists ==
    ASSUME NEW N \in Nat, NEW first \in ReplayType, NEW ks \in [1..N -> TicketType]
    PROVE  \E h \in [0..N -> ReplayType] :
              h[0] = first /\ \A i \in 1..N : h[i] = Replayed(h[i-1], ks[i])
<1> DEFINE F == [i \in 1..N |-> [a \in ReplayType |-> Replayed(a, ks[i])]]
<1>1. F \in [1..N -> [ReplayType -> ReplayType]]
  BY ReplayedType
<1>2. \A i \in 1..N, a \in ReplayType : F[i][a] = Replayed(a, ks[i])
  OBVIOUS
<1> HIDE DEF F
<1>3. PICK h \in [0..N -> ReplayType] : h[0] = first /\ \A i \in 1..N : h[i] = F[i][h[i-1]]
  <2>1. \A G \in [1..N -> [ReplayType -> ReplayType]] :
           \E h \in [0..N -> ReplayType] : h[0] = first /\ \A i \in 1..N : h[i] = G[i][h[i-1]]
    BY RecursionExists
  <2> QED
    BY <1>1, <2>1
<1>4. \A i \in 1..N : i - 1 \in 0..N
  OBVIOUS
<1> QED
  BY <1>2, <1>3, <1>4

\* The recursion behind Rebased is well defined.
LEMMA RebasedFacts ==
    ASSUME NEW start \in TicketType, NEW up \in TicketType, NEW commits \in Seq(TicketType)
    PROVE  \E g \in [0..Len(commits) -> ReplayType] :
              /\ g[0] = [parent |-> start, onto |-> up, clean |-> TRUE]
              /\ \A i \in 1..Len(commits) : g[i] = Replayed(g[i-1], commits[i])
              /\ Rebased(start, up, commits) = g[Len(commits)]
<1> DEFINE N == Len(commits)
           first == [parent |-> start, onto |-> up, clean |-> TRUE]
           Rec(g) == [i \in 0..N |-> IF i = 0 THEN first ELSE Replayed(g[i-1], commits[i])]
           log == CHOOSE g : g = Rec(g)
<1>1. N \in Nat /\ commits \in [1..N -> TicketType]
  OBVIOUS
<1>2. first \in ReplayType
  BY DEF ReplayType
<1>3. Rebased(start, up, commits) = log[N]
  BY DEF Rebased
<1> HIDE DEF N, first
<1>4. PICK h \in [0..N -> ReplayType] :
         h[0] = first /\ \A i \in 1..N : h[i] = Replayed(h[i-1], commits[i])
  <2> HIDE DEF Rec, log
  <2> QED
    BY <1>1, <1>2, ReplayExists
<1>5. h = Rec(h)
  <2>1. \A i \in 0..N : h[i] = IF i = 0 THEN first ELSE Replayed(h[i-1], commits[i])
    BY <1>1, <1>4
  <2> QED
    BY <2>1
<1>6. log = Rec(log)
  <2> HIDE DEF Rec
  <2> QED
    BY <1>5
<1> HIDE DEF log
<1>7. log[0] = first /\ \A i \in 1..N : log[i] = Replayed(log[i-1], commits[i])
  BY <1>1, <1>6
<1>8. \A i \in 0..N : log[i] = h[i]
  <2> DEFINE T == {i \in 0..N : log[i] = h[i]}
  <2>1. 0 \in T
    BY <1>1, <1>4, <1>7
  <2>2. \A i \in 1..N : i - 1 \in T => i \in T
    <3> SUFFICES ASSUME NEW i \in 1..N, i - 1 \in T PROVE i \in T
      OBVIOUS
    <3>1. log[i-1] = h[i-1]
      OBVIOUS
    <3>2. log[i] = h[i]
      BY <1>4, <1>7, <3>1
    <3> QED
      BY <1>1, <3>2
  <2>3. \A i \in 0..N : i \in T
    <3> HIDE DEF T
    <3> QED
      BY <1>1, <2>1, <2>2, IntervalInduction
  <2> QED
    BY <2>3
<1>9. log[N] = h[N]
  BY <1>1, <1>8
<1> QED
  BY <1>3, <1>4, <1>9 DEF N, first

\* What every step of a replay keeps: the upstream's notes, events and removed
\* tags, and those of the commits replayed so far.
ReplayOK(a, up, clocks) ==
    /\ Sound(a.parent, clocks) /\ Sound(a.onto, clocks)
    /\ Follows(up, a.onto) /\ Follows(a.parent, a.onto)

LEMMA MergeSound ==
    ASSUME NEW o \in TicketType, NEW u \in TicketType, NEW t \in TicketType, NEW clocks,
           Sound(o, clocks), Sound(u, clocks), Sound(t, clocks)
    PROVE  Sound(Merge(o, u, t), clocks)
<1> DEFINE m == Merge(o, u, t)
<1>1. /\ m \in TicketType
      /\ \A f \in FieldNames \ {"phase"} :
            \E w \in BOOLEAN : m.fields[f] = Pick3(o.fields[f], u.fields[f], t.fields[f], w)
      /\ m.notes = u.notes \cup t.notes
      /\ m.events = o.events \cup u.events \cup t.events
      /\ \A p \in Paragraphs : m.body[p] \in {u.body[p], t.body[p]}
  BY MergeFacts
<1> HIDE DEF m
<1>2. m.fields.history = <<>>
  <2>1. "history" \in FieldNames \ {"phase"}
    BY DEF FieldNames
  <2>2. PICK w \in BOOLEAN : m.fields["history"] =
                Pick3(o.fields["history"], u.fields["history"], t.fields["history"], w)
    BY <1>1, <2>1
  <2> QED
    BY <2>2 DEF Pick3, Sound
<1>3. \A s \in m.notes \cup m.events : s[2] <= clocks[s[1]]
  BY <1>1 DEF Sound
<1>4. \A p \in Paragraphs : m.body[p] # <<>> => m.body[p][2] <= clocks[m.body[p][1]]
  <2> SUFFICES ASSUME NEW p \in Paragraphs, m.body[p] # <<>>
               PROVE  m.body[p][2] <= clocks[m.body[p][1]]
    OBVIOUS
  <2>1. m.body[p] = u.body[p] \/ m.body[p] = t.body[p]
    BY <1>1
  <2> QED
    BY <2>1 DEF Sound
<1> QED
  BY <1>1, <1>2, <1>3, <1>4 DEF Sound, m

LEMMA ReplayedOK ==
    ASSUME NEW a \in ReplayType, NEW k \in TicketType, NEW up, NEW clocks,
           ReplayOK(a, up, clocks), Sound(k, clocks), Follows(a.parent, k)
    PROVE  ReplayOK(Replayed(a, k), up, clocks)
<1> DEFINE o == a.parent
           u == a.onto
           m == Merge(o, u, k)
           b == Replayed(a, k)
<1>1. o \in TicketType /\ u \in TicketType
  BY DEF ReplayType
<1>2. b.parent = k /\ b.onto = IF u = o THEN k ELSE m
  BY DEF Replayed
<1>3. /\ Sound(o, clocks) /\ Sound(u, clocks) /\ Follows(up, u) /\ Follows(o, u)
      /\ Follows(o, k)
  BY DEF ReplayOK
<1> HIDE DEF o, u, b
<1>4. CASE u = o
  BY <1>2, <1>3, <1>4 DEF ReplayOK, Follows, b
<1>5. CASE u # o
  <2>1. Sound(m, clocks)
    BY <1>1, <1>3, MergeSound
  <2>2. /\ m.notes = u.notes \cup k.notes /\ m.events = o.events \cup u.events \cup k.events
        /\ m.tags = Union3(o.tags, u.tags, k.tags)
    BY <1>1, MergeFacts
  <2> HIDE DEF m
  <2>3. m.tags \subseteq u.tags /\ m.tags \subseteq k.tags
    BY <1>3, <2>2 DEF Union3, Follows
  <2>4. Follows(up, m) /\ Follows(k, m)
    BY <1>3, <2>2, <2>3 DEF Follows
  <2> QED
    BY <1>2, <1>5, <2>1, <2>4 DEF ReplayOK, b
<1> QED
  BY <1>4, <1>5

\* A field that the upstream did not change takes the commit's value.
LEMMA ReplayedField ==
    ASSUME NEW a \in ReplayType, NEW k \in TicketType, NEW f \in FieldNames \ {"phase"},
           a.onto.fields[f] = a.parent.fields[f]
    PROVE  Replayed(a, k).onto.fields[f] = k.fields[f]
<1> DEFINE o == a.parent
           u == a.onto
           m == Merge(o, u, k)
<1>1. o \in TicketType /\ u \in TicketType
  BY DEF ReplayType
<1>2. Replayed(a, k).onto = IF u = o THEN k ELSE m
  BY DEF Replayed
<1>3. u.fields[f] = o.fields[f]
  OBVIOUS
<1> HIDE DEF o, u
<1>4. m.fields[f] = k.fields[f]
  <2>1. PICK w \in BOOLEAN : m.fields[f] = Pick3(o.fields[f], u.fields[f], k.fields[f], w)
    BY <1>1, MergeFacts
  <2> QED
    BY <1>3, <2>1, Pick3Facts
<1> HIDE DEF m
<1> QED
  BY <1>2, <1>4

\* A whole replay: nothing appended is lost, no removed tag returns, and a
\* field that the upstream did not change has the clone's value.
LEMMA RebasedOK ==
    ASSUME NEW start \in TicketType, NEW up \in TicketType, NEW commits \in Seq(TicketType),
           NEW clocks, Sound(start, clocks), Sound(up, clocks), Follows(start, up),
           \A i \in 1..Len(commits) :
              /\ Sound(commits[i], clocks)
              /\ Follows(IF i = 1 THEN start ELSE commits[i-1], commits[i])
    PROVE  LET r == Rebased(start, up, commits)
               tip == IF Len(commits) = 0 THEN start ELSE commits[Len(commits)]
           IN  /\ r.onto \in TicketType /\ Sound(r.onto, clocks)
               /\ Follows(up, r.onto) /\ Follows(tip, r.onto)
               /\ \A f \in FieldNames \ {"phase"} :
                    up.fields[f] = start.fields[f] => r.onto.fields[f] = tip.fields[f]
<1> DEFINE n == Len(commits)
           P(i) == IF i = 0 THEN start ELSE commits[i]
           SameField(a) == \A f \in FieldNames \ {"phase"} :
                         up.fields[f] = start.fields[f] => a.onto.fields[f] = a.parent.fields[f]
<1>1. n \in Nat /\ \A i \in 1..n : commits[i] \in TicketType
  OBVIOUS
<1>2. PICK g \in [0..n -> ReplayType] :
         /\ g[0] = [parent |-> start, onto |-> up, clean |-> TRUE]
         /\ \A i \in 1..n : g[i] = Replayed(g[i-1], commits[i])
         /\ Rebased(start, up, commits) = g[n]
  BY RebasedFacts
<1> DEFINE T == {i \in 0..n : g[i].parent = P(i) /\ ReplayOK(g[i], up, clocks) /\ SameField(g[i])}
<1>3. 0 \in T
  <2>1. g[0].parent = start /\ g[0].onto = up
    BY <1>2
  <2>2. Follows(up, up)
    BY DEF Follows
  <2>3. ReplayOK(g[0], up, clocks)
    BY <2>1, <2>2 DEF ReplayOK
  <2>4. 0 \in 0..n
    BY <1>1
  <2> QED
    BY <2>1, <2>3, <2>4
<1>4. \A i \in 1..n : i - 1 \in T => i \in T
  <2> SUFFICES ASSUME NEW i \in 1..n, i - 1 \in T PROVE i \in T
    OBVIOUS
  <2>0. i \in 0..n /\ i - 1 \in 0..n /\ i # 0
    BY <1>1
  <2>1. /\ g[i-1] \in ReplayType /\ g[i-1].parent = P(i-1) /\ ReplayOK(g[i-1], up, clocks)
        /\ SameField(g[i-1])
    BY <2>0
  <2>2. P(i-1) = IF i = 1 THEN start ELSE commits[i-1]
    BY <1>1
  <2>3. g[i] = Replayed(g[i-1], commits[i]) /\ commits[i] \in TicketType /\ P(i) = commits[i]
    BY <1>1, <1>2
  <2>4. Sound(commits[i], clocks) /\ Follows(g[i-1].parent, commits[i])
    BY <2>1, <2>2
  <2>5. ReplayOK(g[i], up, clocks)
    <3> HIDE DEF SameField, P, T
    <3> QED
      BY <2>1, <2>3, <2>4, ReplayedOK
  <2>6. g[i].parent = P(i)
    BY <2>3 DEF Replayed
  <2>7. SameField(g[i])
    <3> SUFFICES ASSUME NEW f \in FieldNames \ {"phase"}, up.fields[f] = start.fields[f]
                 PROVE  g[i].onto.fields[f] = g[i].parent.fields[f]
      OBVIOUS
    <3>1. g[i-1].onto.fields[f] = g[i-1].parent.fields[f]
      BY <2>1
    <3>2. Replayed(g[i-1], commits[i]).onto.fields[f] = commits[i].fields[f]
      <4> HIDE DEF SameField, P, T
      <4> QED
        BY <2>1, <2>3, <3>1, ReplayedField
    <3> QED
      BY <2>3, <2>6, <3>2
  <2> HIDE DEF SameField, P
  <2> QED
    BY <2>0, <2>5, <2>6, <2>7
<1>5. n \in T
  <2> HIDE DEF T
  <2>1. \A i \in 0..n : i \in T
    BY <1>1, <1>3, <1>4, IntervalInduction
  <2> QED
    BY <1>1, <2>1
<1>6. g[n] \in ReplayType /\ n \in 0..n
  BY <1>1
<1>7. /\ g[n].onto \in TicketType /\ g[n].parent = P(n)
      /\ ReplayOK(g[n], up, clocks) /\ SameField(g[n])
  BY <1>5, <1>6 DEF ReplayType
<1> QED
  BY <1>2, <1>7 DEF ReplayOK

-----------------------------------------------------------------------------
(* TicketMerge: the revisions of ops.rs keep the type of the fields.       *)

LEMMA AppendedEvent ==
    ASSUME NEW k \in Ops!TicketType, NEW kind \in Ops!Kinds, NEW w \in Workers, NEW lease \in Nat
    PROVE  Ops!AppendClaimEvent(k, kind, w, lease) \in Seq(Ops!Event)
<1> DEFINE e == [kind |-> kind, worker |-> w, lease |-> lease]
<1>1. k.history \in Seq(Ops!Event)
  BY DEF Ops!TicketType
<1>2. e \in Ops!Event
  BY DEF Ops!Event
<1> HIDE DEF e
<1>3. Append(k.history, e) \in Seq(Ops!Event)
  BY <1>1, <1>2
<1> QED
  BY <1>3 DEF Ops!AppendClaimEvent, e

LEMMA EndClaimType ==
    ASSUME NEW k \in Ops!TicketType
    PROVE  Ops!EndClaim(k) \in Ops!TicketType
<1> DEFINE h == IF k.claimedBy = NoWorker THEN k.history
                ELSE Ops!AppendClaimEvent(k, "release", k.claimedBy, 0)
<1>1. k.claimedBy \in Workers \cup {NoWorker} /\ k.history \in Seq(Ops!Event)
  BY DEF Ops!TicketType
<1>2. "release" \in Ops!Kinds /\ 0 \in Nat
  BY DEF Ops!Kinds
<1>3. h \in Seq(Ops!Event)
  BY <1>1, <1>2, AppendedEvent
<1>4. Ops!EndClaim(k) = [k EXCEPT !.history = h, !.claimedBy = NoWorker, !.lease = 0]
  BY DEF Ops!EndClaim
<1> HIDE DEF h
<1> QED
  BY <1>2, <1>3, <1>4 DEF Ops!TicketType

LEMMA StartClaimedType ==
    ASSUME NEW k \in Ops!TicketType
    PROVE  Ops!StartClaimed(k) \in Ops!TicketType
<1>1. "started" \in Ops!Statuses /\ "analyzing" \in Ops!Phases
  BY DEF Ops!Statuses, Ops!Phases
<1> QED
  BY <1>1 DEF Ops!StartClaimed, Ops!TicketType

LEMMA AcquiredType ==
    ASSUME NEW k \in Ops!TicketType, NEW w \in Workers, NEW lease \in Nat
    PROVE  Ops!Acquired(k, w, lease) \in Ops!TicketType
<1> DEFINE h == Ops!AppendClaimEvent(k, "claim", w, lease)
<1>1. "claim" \in Ops!Kinds
  BY DEF Ops!Kinds
<1>2. h \in Seq(Ops!Event)
  BY <1>1, AppendedEvent
<1>3. k.count + 1 \in Nat
  BY DEF Ops!TicketType
<1>4. Ops!Acquired(k, w, lease) = [k EXCEPT !.claimedBy = w, !.lease = lease,
                                             !.count = k.count + 1, !.history = h]
  BY DEF Ops!Acquired
<1> HIDE DEF h
<1> QED
  BY <1>2, <1>3, <1>4 DEF Ops!TicketType

LEMMA ReclaimedType ==
    ASSUME NEW k \in Ops!TicketType, NEW w \in Workers, NEW lease \in Nat
    PROVE  Ops!Reclaimed(k, w, lease, FALSE) \in Ops!TicketType
<1> DEFINE h == Ops!AppendClaimEvent(k, "renew", w, lease)
           x == [k EXCEPT !.lease = lease, !.history = h]
<1>1. "renew" \in Ops!Kinds
  BY DEF Ops!Kinds
<1>2. h \in Seq(Ops!Event)
  BY <1>1, AppendedEvent
<1>3. Ops!Reclaimed(k, w, lease, FALSE) \in {k, x}
  BY DEF Ops!Reclaimed, Ops!Extended
<1> HIDE DEF h
<1>4. x \in Ops!TicketType
  BY <1>2 DEF Ops!TicketType
<1> QED
  BY <1>3, <1>4

LEMMA PatchedType ==
    ASSUME NEW k \in Ops!TicketType, NEW p \in Ops!PatchType
    PROVE  Ops!Patched(k, p) \in Ops!TicketType
<1> DEFINE status == IF p.status = Ops!Keep THEN k.status ELSE p.status
           kept == IF p.status = Ops!Keep THEN k.phase
                   ELSE IF status # "started" THEN "none"
                   ELSE IF k.status # "started" /\ p.phase = Ops!Keep THEN "analyzing"
                   ELSE k.phase
           phase == IF p.phase # Ops!Keep /\ status = "started" THEN p.phase ELSE kept
           upNext == Ops!Set(p.upNext, k.upNext) /\ status \in Ops!Active
           blocked == Ops!Set(p.blocked, k.blocked)
           closed == k.closed /\ (p.status = Ops!Keep \/ status \notin Ops!Active)
           trashed == IF status # "deleted" THEN Ops!Unknown
                      ELSE IF k.status # "deleted" THEN k.status ELSE k.trashedFrom
           revised == [k EXCEPT !.status = status, !.phase = phase, !.upNext = upNext,
                                !.blocked = blocked, !.closed = closed, !.trashedFrom = trashed]
<1>1. /\ k.status \in Ops!Statuses /\ k.phase \in Ops!Phases /\ k.upNext \in BOOLEAN
      /\ k.blocked \in BOOLEAN /\ k.closed \in BOOLEAN
      /\ k.trashedFrom \in Ops!Statuses \cup {Ops!Unknown}
      /\ p.status \in Ops!Statuses \cup {Ops!Keep} /\ p.phase \in Ops!Phases \cup {Ops!Keep}
  BY DEF Ops!TicketType, Ops!PatchType
<1>2. status \in Ops!Statuses
  BY <1>1
<1>3. phase \in Ops!Phases
  <2>1. {"none", "analyzing"} \subseteq Ops!Phases
    BY DEF Ops!Phases
  <2> QED
    BY <1>1, <2>1
<1>4. upNext \in BOOLEAN /\ closed \in BOOLEAN
  OBVIOUS
<1>5. blocked \in BOOLEAN
  BY <1>1 DEF Ops!Set
<1>6. trashed \in Ops!Statuses \cup {Ops!Unknown}
  BY <1>1
<1>7. Ops!Patched(k, p) = revised \/ Ops!Patched(k, p) = Ops!EndClaim(revised)
  BY DEF Ops!Patched
<1> HIDE DEF status, kept, phase, upNext, blocked, closed, trashed
<1>8. revised \in Ops!TicketType
  BY <1>2, <1>3, <1>4, <1>5, <1>6 DEF Ops!TicketType
<1> HIDE DEF revised
<1>9. Ops!EndClaim(revised) \in Ops!TicketType
  BY <1>8, EndClaimType
<1> QED
  BY <1>7, <1>8, <1>9

LEMMA ClosedType ==
    ASSUME NEW k \in Ops!TicketType
    PROVE  Ops!Closed(k) \in Ops!TicketType
<1> DEFINE settled == IF k.status \in Ops!Active
                      THEN [k EXCEPT !.status = "completed", !.phase = "none"] ELSE k
           shut == [settled EXCEPT !.closed = TRUE, !.upNext = FALSE]
<1>1. "completed" \in Ops!Statuses /\ "none" \in Ops!Phases
  BY DEF Ops!Statuses, Ops!Phases
<1>2. settled \in Ops!TicketType
  BY <1>1 DEF Ops!TicketType
<1>3. Ops!Closed(k) = Ops!EndClaim(shut)
  BY DEF Ops!Closed
<1> HIDE DEF settled
<1>4. shut \in Ops!TicketType
  BY <1>2 DEF Ops!TicketType
<1> HIDE DEF shut
<1> QED
  BY <1>3, <1>4, EndClaimType

-----------------------------------------------------------------------------
(* TicketMerge: one operation of a clone.                                  *)

LEMMA TipFacts ==
    ASSUME MergeInv, NEW c \in Clones
    PROVE  /\ local[c] \in Seq(TicketType) /\ Len(local[c]) \in Nat
           /\ Tip(c) = IF Len(local[c]) = 0 THEN base[c] ELSE local[c][Len(local[c])]
           /\ Tip(c) \in TicketType /\ Sound(Tip(c), clock)
<1>1. local[c] \in Seq(TicketType)
  BY DEF MergeInv, MergeTypeOK
<1>2. Len(local[c]) \in Nat /\ (local[c] = <<>> <=> Len(local[c]) = 0)
  BY <1>1
<1>3. Tip(c) = IF Len(local[c]) = 0 THEN base[c] ELSE local[c][Len(local[c])]
  BY <1>2 DEF Tip, Last
<1>4. Sound(Tip(c), clock)
  BY <1>2, <1>3 DEF MergeInv, CloneInv
<1> QED
  BY <1>1, <1>2, <1>3, <1>4 DEF Sound

\* Stamps that are not ahead of the clocks stay so when a clock advances.
LEMMA SoundLater ==
    ASSUME clock \in [Clones -> 0..MaxStamp], NEW c \in Clones, NEW now \in 1..MaxStamp,
           clock[c] < now, NEW k, Sound(k, clock)
    PROVE  Sound(k, [clock EXCEPT ![c] = now])
<1> DEFINE ck == [clock EXCEPT ![c] = now]
<1>1. \A d \in Clones : clock[d] \in Int /\ ck[d] \in Int /\ clock[d] <= ck[d]
  BY MergeAssumption
<1>2. k \in TicketType /\ k.notes \subseteq Stamps /\ k.events \subseteq Stamps
      /\ \A p \in Paragraphs : k.body[p] \in {<<>>} \cup Stamps
  BY DEF Sound, TicketType
<1>3. \A s \in Stamps : s[1] \in Clones /\ s[2] \in Int
  BY MergeAssumption DEF Stamps
<1> HIDE DEF ck
<1>4. \A s \in Stamps : s[2] <= clock[s[1]] => s[2] <= ck[s[1]]
  BY <1>1, <1>3
<1> QED
  BY <1>2, <1>4 DEF Sound, ck

\* A commit that extends the tip keeps the invariant.
LEMMA RecordInv ==
    ASSUME MergeInv, NEW c \in Clones, NEW now \in 1..MaxStamp, NEW k, Record(c, now, k),
           Sound(k, [clock EXCEPT ![c] = now]), Follows(Tip(c), k), k # Tip(c)
    PROVE  /\ MergeInv' /\ (\A d \in Clones : local[d] # <<>> => local'[d] # <<>>)
           /\ \A d \in Clones : Follows(Tip(d), Tip(d)')
<1> DEFINE n == Len(local[c])
<1>1. /\ clock \in [Clones -> 0..MaxStamp] /\ clock[c] < now /\ n < MaxOps
      /\ clock' = [clock EXCEPT ![c] = now] /\ clock' \in [Clones -> 0..MaxStamp]
      /\ local' = [local EXCEPT ![c] = Append(local[c], k)]
      /\ origin' = origin /\ base' = base
  BY MergeAssumption DEF Record, MergeInv, MergeTypeOK
<1>2. k \in TicketType
  BY DEF Sound
<1>3. /\ local \in [Clones -> Seq(TicketType)] /\ local[c] \in Seq(TicketType) /\ n \in Nat
      /\ Tip(c) = IF n = 0 THEN base[c] ELSE local[c][n]
      /\ origin \in TicketType /\ base \in [Clones -> TicketType] /\ MaxOps \in Nat
      /\ \A d \in Clones : Len(local[d]) <= MaxOps
  BY TipFacts, MergeAssumption DEF MergeInv, MergeTypeOK
<1>4. /\ local'[c] = Append(local[c], k) /\ local'[c] \in Seq(TicketType) /\ Len(local'[c]) = n + 1
      /\ local'[c][n + 1] = k /\ \A i \in 1..n : local'[c][i] = local[c][i]
      /\ local'[c] # <<>>
  BY <1>1, <1>2, <1>3
<1>5. \A d \in Clones : d # c => local'[d] = local[d]
  BY <1>1, <1>3
<1>6. MergeTypeOK'
  <2>1. local' \in [Clones -> Seq(TicketType)]
    BY <1>1, <1>3, <1>4
  <2>2. \A d \in Clones : Len(local'[d]) <= MaxOps
    BY <1>1, <1>3, <1>4, <1>5
  <2> QED
    BY <1>1, <1>3, <2>1, <2>2 DEF MergeTypeOK
<1>7. \A x : Sound(x, clock) => Sound(x, clock')
  BY <1>1, SoundLater
<1>8. Sound(k, clock')
  BY <1>1
<1>9. \A d \in Clones : CloneInv(d)'
  <2> SUFFICES ASSUME NEW d \in Clones PROVE CloneInv(d)'
    OBVIOUS
  <2>0. CloneInv(d)
    BY DEF MergeInv
  <2>1. Sound(base'[d], clock') /\ Follows(base'[d], origin')
    BY <1>1, <1>7, <2>0 DEF CloneInv
  <2>2. CASE d # c
    <3>1. \A i : ParentOf(d, i)' = ParentOf(d, i)
      BY <1>1, <1>5, <2>2 DEF ParentOf
    <3> QED
      BY <1>5, <1>7, <2>0, <2>1, <2>2, <3>1 DEF CloneInv
  <2>3. CASE d = c
    <3> SUFFICES ASSUME NEW i \in 1..(n + 1)
                 PROVE  /\ Sound(local'[c][i], clock') /\ Follows(ParentOf(c, i)', local'[c][i])
                        /\ local'[c][i] # ParentOf(c, i)'
      BY <1>4, <2>1, <2>3 DEF CloneInv
    <3>1. ParentOf(c, i)' = IF i = 1 THEN base[c] ELSE local'[c][i-1]
      BY <1>1 DEF ParentOf
    <3>2. CASE i \in 1..n
      <4>1. i = 1 \/ i - 1 \in 1..n
        BY <1>3, <3>2
      <4>2. ParentOf(c, i)' = ParentOf(c, i)
        BY <1>4, <3>1, <4>1 DEF ParentOf
      <4>3. /\ Sound(local[c][i], clock) /\ Follows(ParentOf(c, i), local[c][i])
            /\ local[c][i] # ParentOf(c, i)
        BY <2>0, <2>3, <3>2 DEF CloneInv
      <4> QED
        BY <1>4, <1>7, <3>2, <4>2, <4>3
    <3>3. CASE i = n + 1
      <4>1. ParentOf(c, i)' = Tip(c)
        <5>1. CASE n = 0
          BY <1>3, <3>1, <3>3, <5>1
        <5>2. CASE n # 0
          <6>1. i # 1 /\ i - 1 = n /\ n \in 1..n
            BY <1>3, <3>3, <5>2
          <6> QED
            BY <1>3, <1>4, <3>1, <5>2, <6>1
        <5> QED
          BY <5>1, <5>2
      <4> QED
        BY <1>4, <1>8, <3>3, <4>1
    <3> QED
      BY <1>3, <3>2, <3>3
  <2> QED
    BY <2>2, <2>3
<1>10. MergeInv'
  BY <1>1, <1>6, <1>7, <1>9 DEF MergeInv
<1>11. \A d \in Clones : Follows(Tip(d), Tip(d)')
  <2> SUFFICES ASSUME NEW d \in Clones PROVE Follows(Tip(d), Tip(d)')
    OBVIOUS
  <2>1. CASE d # c
    <3>1. Tip(d)' = Tip(d)
      BY <1>1, <1>5, <2>1 DEF Tip
    <3> QED
      BY <3>1 DEF Follows
  <2>2. CASE d = c
    <3>1. Tip(c)' = k
      BY <1>3, <1>4 DEF Tip, Last
    <3> QED
      BY <2>2, <3>1
  <2> QED
    BY <2>1, <2>2
<1> QED
  BY <1>4, <1>5, <1>10, <1>11

\* A stamp of this operation is in no ticket yet.
LEMMA FreshStamp ==
    ASSUME MergeInv, NEW c \in Clones, NEW now \in 1..MaxStamp, clock[c] < now
    PROVE  /\ <<c, now>> \in Stamps /\ <<c, now>> # <<>>
           /\ <<c, now>> \notin Tip(c).notes /\ <<c, now>> \notin Tip(c).events
           /\ \A p \in Paragraphs : Tip(c).body[p] # <<c, now>>
           /\ [clock EXCEPT ![c] = now][c] = now
<1> DEFINE s == <<c, now>>
<1>1. s[1] = c /\ s[2] = now /\ s \in Stamps /\ s # <<>>
  BY DEF Stamps
<1>2. clock \in [Clones -> 0..MaxStamp]
  BY DEF MergeInv, MergeTypeOK
<1>3. ~(now <= clock[c])
  BY <1>2, MergeAssumption
<1>4. Sound(Tip(c), clock)
  BY TipFacts
<1> HIDE DEF s
<1>5. /\ s \notin Tip(c).notes /\ s \notin Tip(c).events
      /\ \A p \in Paragraphs : Tip(c).body[p] # s
  BY <1>1, <1>3, <1>4 DEF Sound
<1> QED
  BY <1>1, <1>2, <1>5 DEF s

\* An operation keeps the invariant and the commits, and forgets nothing.
Kept == /\ MergeInv' /\ (\A d \in Clones : local[d] # <<>> => local'[d] # <<>>)
        /\ \A d \in Clones : Follows(Tip(d), Tip(d)')

LEMMA ReviseStep ==
    ASSUME MergeInv, NEW c \in Clones, NEW now \in 1..MaxStamp, NEW fields \in Ops!TicketType,
           Revise(c, now, fields)
    PROVE  Kept
<1> DEFINE t == Tip(c)
           ck == [clock EXCEPT ![c] = now]
           bare == [fields EXCEPT !.history = <<>>]
           events == IF fields.history = <<>> THEN t.events ELSE t.events \cup {<<c, now>>}
           updated == IF Ops!Substantive(t.fields, fields) THEN now ELSE t.updated
           k == [t EXCEPT !.fields = bare, !.events = events, !.updated = updated]
<1>1. Record(c, now, k) /\ fields # t.fields
  BY DEF Revise
<1>2. clock[c] < now
  BY <1>1 DEF Record
<1>3. t \in TicketType /\ Sound(t, clock) /\ Sound(t, ck)
  BY <1>2, TipFacts, SoundLater DEF MergeInv, MergeTypeOK
<1>4. /\ <<c, now>> \in Stamps /\ <<c, now>> \notin t.events /\ ck[c] = now
  BY <1>2, FreshStamp
<1>5. bare \in Ops!TicketType /\ bare.history = <<>> /\ (fields.history = <<>> => bare = fields)
  <2>1. <<>> \in Seq(Ops!Event)
    OBVIOUS
  <2> QED
    BY <2>1 DEF Ops!TicketType
<1>6. updated \in 0..MaxStamp /\ events \subseteq Stamps
  BY <1>3, <1>4, MergeAssumption DEF TicketType
<1>7. \A s \in events : s \in t.events \/ s = <<c, now>>
  OBVIOUS
<1>8. t.events \subseteq events /\ (fields.history # <<>> => events # t.events)
  BY <1>4
<1> HIDE DEF t, ck, bare, events, updated
<1>9. /\ k \in TicketType /\ k.fields = bare /\ k.events = events /\ k.notes = t.notes
      /\ k.tags = t.tags /\ k.body = t.body
  BY <1>3, <1>5, <1>6 DEF TicketType
<1> HIDE DEF k
<1>10. Sound(k, ck)
  <2>1. \A s \in k.events : s[2] <= ck[s[1]]
    <3> SUFFICES ASSUME NEW s \in events PROVE s[2] <= ck[s[1]]
      BY <1>9
    <3>1. CASE s \in t.events
      BY <1>3, <3>1 DEF Sound
    <3>2. CASE s = <<c, now>>
      BY <1>4, <3>2
    <3> QED
      BY <1>7, <3>1, <3>2
  <2> QED
    BY <1>3, <1>5, <1>9, <2>1 DEF Sound
<1>11. Follows(t, k)
  BY <1>8, <1>9 DEF Follows
<1>12. k # t
  BY <1>1, <1>5, <1>8, <1>9
<1> QED
  BY <1>1, <1>10, <1>11, <1>12, RecordInv DEF Kept, t, ck

LEMMA AddNoteStep ==
    ASSUME MergeInv, NEW c \in Clones, NEW now \in 1..MaxStamp, AddNote(c, now)
    PROVE  Kept
<1> DEFINE t == Tip(c)
           ck == [clock EXCEPT ![c] = now]
           s == <<c, now>>
           k == [t EXCEPT !.notes = t.notes \cup {s}, !.updated = now]
<1>1. Record(c, now, k)
  BY DEF AddNote
<1>2. clock[c] < now
  BY <1>1 DEF Record
<1>3. t \in TicketType /\ Sound(t, clock) /\ Sound(t, ck)
  BY <1>2, TipFacts, SoundLater DEF MergeInv, MergeTypeOK
<1>4. s \in Stamps /\ s \notin t.notes /\ s[2] <= ck[s[1]]
  BY <1>2, FreshStamp
<1> HIDE DEF t, ck, s
<1>5. /\ k \in TicketType /\ k.fields = t.fields /\ k.events = t.events
      /\ k.notes = t.notes \cup {s} /\ k.tags = t.tags /\ k.body = t.body
  <2>1. now \in 0..MaxStamp /\ t.notes \cup {s} \in SUBSET Stamps
    BY <1>3, <1>4, MergeAssumption DEF TicketType
  <2> QED
    BY <1>3, <2>1 DEF TicketType
<1> HIDE DEF k
<1>6. Sound(k, ck)
  BY <1>3, <1>4, <1>5 DEF Sound
<1>7. Follows(t, k) /\ k # t
  BY <1>4, <1>5 DEF Follows
<1> QED
  BY <1>1, <1>6, <1>7, RecordInv DEF Kept, t, ck

LEMMA RemoveTagStep ==
    ASSUME MergeInv, NEW c \in Clones, NEW now \in 1..MaxStamp, NEW g \in OldTags,
           RemoveTag(c, g, now)
    PROVE  Kept
<1> DEFINE t == Tip(c)
           ck == [clock EXCEPT ![c] = now]
           k == [t EXCEPT !.tags = t.tags \ {g}, !.updated = now]
<1>1. Record(c, now, k) /\ g \in t.tags
  BY DEF RemoveTag
<1>2. clock[c] < now
  BY <1>1 DEF Record
<1>3. t \in TicketType /\ Sound(t, clock) /\ Sound(t, ck)
  BY <1>2, TipFacts, SoundLater DEF MergeInv, MergeTypeOK
<1> HIDE DEF t, ck
<1>4. /\ k \in TicketType /\ k.fields = t.fields /\ k.events = t.events /\ k.notes = t.notes
      /\ k.tags = t.tags \ {g} /\ k.body = t.body
  <2>1. now \in 0..MaxStamp /\ t.tags \ {g} \in SUBSET OldTags
    BY <1>3, MergeAssumption DEF TicketType
  <2> QED
    BY <1>3, <2>1 DEF TicketType
<1> HIDE DEF k
<1>5. Sound(k, ck)
  BY <1>3, <1>4 DEF Sound
<1>6. Follows(t, k) /\ k # t
  BY <1>1, <1>4 DEF Follows
<1> QED
  BY <1>1, <1>5, <1>6, RecordInv DEF Kept, t, ck

LEMMA EditBodyStep ==
    ASSUME MergeInv, NEW c \in Clones, NEW now \in 1..MaxStamp, NEW p \in Paragraphs,
           EditBody(c, p, now)
    PROVE  Kept
<1> DEFINE t == Tip(c)
           ck == [clock EXCEPT ![c] = now]
           s == <<c, now>>
           b == [t.body EXCEPT ![p] = s]
           k == [t EXCEPT !.body = b, !.updated = now]
<1>1. Record(c, now, k)
  BY DEF EditBody
<1>2. clock[c] < now
  BY <1>1 DEF Record
<1>3. t \in TicketType /\ Sound(t, clock) /\ Sound(t, ck)
  BY <1>2, TipFacts, SoundLater DEF MergeInv, MergeTypeOK
<1>4. s \in Stamps /\ t.body[p] # s /\ s[2] <= ck[s[1]]
  BY <1>2, FreshStamp
<1>5. t.body \in [Paragraphs -> {<<>>} \cup Stamps]
  BY <1>3 DEF TicketType
<1> HIDE DEF t, ck, s
<1>6. /\ b \in [Paragraphs -> {<<>>} \cup Stamps] /\ b[p] = s
      /\ \A q \in Paragraphs : q # p => b[q] = t.body[q]
  BY <1>4, <1>5
<1> HIDE DEF b
<1>7. /\ k \in TicketType /\ k.fields = t.fields /\ k.events = t.events /\ k.notes = t.notes
      /\ k.tags = t.tags /\ k.body = b
  <2>1. now \in 0..MaxStamp
    BY MergeAssumption
  <2> QED
    BY <1>3, <1>6, <2>1 DEF TicketType
<1> HIDE DEF k
<1>8. \A q \in Paragraphs : k.body[q] # <<>> => k.body[q][2] <= ck[k.body[q][1]]
  <2> SUFFICES ASSUME NEW q \in Paragraphs, k.body[q] # <<>>
               PROVE  k.body[q][2] <= ck[k.body[q][1]]
    OBVIOUS
  <2>1. CASE q = p
    BY <1>4, <1>6, <1>7, <2>1
  <2>2. CASE q # p
    BY <1>3, <1>6, <1>7, <2>2 DEF Sound
  <2> QED
    BY <2>1, <2>2
<1>9. Sound(k, ck)
  BY <1>3, <1>7, <1>8 DEF Sound
<1>10. Follows(t, k) /\ k # t
  BY <1>4, <1>6, <1>7 DEF Follows
<1> QED
  BY <1>1, <1>9, <1>10, RecordInv DEF Kept, t, ck

-----------------------------------------------------------------------------
(* TicketMerge: the steps and the theorems.                                *)

LEMMA OperationStep ==
    ASSUME MergeInv, NEW c \in Clones, NEW now \in 1..MaxStamp,
           \/ \E w \in Workers : Claim(c, w, now)
           \/ \E p \in OpenPatches : Update(c, p, now)
           \/ Release(c, now) \/ Close(c, now) \/ AddNote(c, now)
           \/ \E t \in OldTags : RemoveTag(c, t, now)
           \/ \E p \in Paragraphs : EditBody(c, p, now)
    PROVE  Kept
<1> DEFINE k == Tip(c).fields
<1>0. k \in Ops!TicketType
  BY TipFacts DEF TicketType
<1>1. ASSUME NEW w \in Workers, Claim(c, w, now) PROVE Kept
  <2> DEFINE x == IF Ops!ClaimAvailable(k, now) THEN Ops!Acquired(k, w, now + 1)
                  ELSE Ops!Reclaimed(k, w, now + 1, FALSE)
  <2>1. Revise(c, now, Ops!StartClaimed(x))
    BY <1>1 DEF Claim
  <2> HIDE DEF k
  <2>2. now + 1 \in Nat
    BY MergeAssumption
  <2>3. x \in Ops!TicketType
    BY <1>0, <2>2, AcquiredType, ReclaimedType
  <2> HIDE DEF x
  <2>4. Ops!StartClaimed(x) \in Ops!TicketType
    BY <2>3, StartClaimedType
  <2> QED
    BY <2>1, <2>4, ReviseStep
<1>2. ASSUME NEW p \in OpenPatches, Update(c, p, now) PROVE Kept
  <2>1. Revise(c, now, Ops!Patched(k, p))
    BY <1>2 DEF Update
  <2> HIDE DEF k
  <2>2. Ops!Patched(k, p) \in Ops!TicketType
    BY <1>0, PatchedType, MergeAssumption
  <2> QED
    BY <2>1, <2>2, ReviseStep
<1>3. CASE Release(c, now)
  <2>1. Revise(c, now, Ops!EndClaim(k))
    BY <1>3 DEF Release
  <2> HIDE DEF k
  <2>2. Ops!EndClaim(k) \in Ops!TicketType
    BY <1>0, EndClaimType
  <2> QED
    BY <2>1, <2>2, ReviseStep
<1>4. CASE Close(c, now)
  <2>1. Revise(c, now, Ops!Closed(k))
    BY <1>4 DEF Close
  <2> HIDE DEF k
  <2>2. Ops!Closed(k) \in Ops!TicketType
    BY <1>0, ClosedType
  <2> QED
    BY <2>1, <2>2, ReviseStep
<1>5. CASE AddNote(c, now)
  BY <1>5, AddNoteStep
<1>6. ASSUME NEW t \in OldTags, RemoveTag(c, t, now) PROVE Kept
  BY <1>6, RemoveTagStep
<1>7. ASSUME NEW p \in Paragraphs, EditBody(c, p, now) PROVE Kept
  BY <1>7, EditBodyStep
<1> QED
  BY <1>1, <1>2, <1>3, <1>4, <1>5, <1>6, <1>7

\* A sync cycle.
LEMMA CycleStep ==
    ASSUME MergeInv, NEW c \in Clones, Sync(c)
    PROVE  /\ MergeInv' /\ \A d \in Clones : Follows(Tip(d), Tip(d)')
           /\ \A d \in Clones : d # c => local'[d] = local[d]
           /\ \A f \in FieldNames \ {"phase"} :
                origin.fields[f] = base[c].fields[f] => origin'.fields[f] = Tip(c).fields[f]
<1> DEFINE r == Rebased(base[c], origin, local[c])
           n == Len(local[c])
<1>1. /\ origin' = r.onto /\ base' = [base EXCEPT ![c] = r.onto]
      /\ local' = [local EXCEPT ![c] = <<>>] /\ clock' = clock
  BY DEF Sync
<1>2. /\ origin \in TicketType /\ base \in [Clones -> TicketType] /\ base[c] \in TicketType
      /\ local \in [Clones -> Seq(TicketType)] /\ clock \in [Clones -> 0..MaxStamp]
      /\ (\A d \in Clones : Len(local[d]) <= MaxOps) /\ MaxOps \in Nat
  BY MergeAssumption DEF MergeInv, MergeTypeOK
<1>3. /\ local[c] \in Seq(TicketType) /\ n \in Nat
      /\ Tip(c) = IF n = 0 THEN base[c] ELSE local[c][n]
  BY TipFacts
<1>4. /\ Sound(origin, clock) /\ Sound(base[c], clock) /\ Follows(base[c], origin)
      /\ \A i \in 1..n : /\ Sound(local[c][i], clock)
                         /\ Follows(IF i = 1 THEN base[c] ELSE local[c][i-1], local[c][i])
  BY DEF MergeInv, CloneInv, ParentOf
<1>5. /\ r.onto \in TicketType /\ Sound(r.onto, clock)
      /\ Follows(origin, r.onto) /\ Follows(Tip(c), r.onto)
      /\ \A f \in FieldNames \ {"phase"} :
            origin.fields[f] = base[c].fields[f] => r.onto.fields[f] = Tip(c).fields[f]
  <2> DEFINE b == base[c]
             o == origin
             l == local[c]
             ck == clock
             tip == IF Len(l) = 0 THEN b ELSE l[Len(l)]
             x == Rebased(b, o, l)
  <2>1. /\ b \in TicketType /\ o \in TicketType /\ l \in Seq(TicketType)
        /\ Sound(b, ck) /\ Sound(o, ck) /\ Follows(b, o)
        /\ \A i \in 1..Len(l) : Sound(l[i], ck) /\ Follows(IF i = 1 THEN b ELSE l[i-1], l[i])
    BY <1>2, <1>3, <1>4
  <2>2. Tip(c) = tip
    BY <1>3
  <2> HIDE DEF b, o, l, ck
  <2>3. /\ x.onto \in TicketType /\ Sound(x.onto, ck) /\ Follows(o, x.onto) /\ Follows(tip, x.onto)
        /\ \A f \in FieldNames \ {"phase"} :
              o.fields[f] = b.fields[f] => x.onto.fields[f] = tip.fields[f]
    BY <2>1, RebasedOK
  <2> QED
    BY <2>2, <2>3 DEF b, o, l, ck
<1> HIDE DEF r
<1>6. /\ base'[c] = r.onto /\ local'[c] = <<>>
      /\ \A d \in Clones : d # c => base'[d] = base[d] /\ local'[d] = local[d]
  BY <1>1, <1>2
<1>7. MergeTypeOK'
  <2>1. base' \in [Clones -> TicketType] /\ local' \in [Clones -> Seq(TicketType)]
    <3>1. <<>> \in Seq(TicketType)
      OBVIOUS
    <3> QED
      BY <1>1, <1>2, <1>5, <3>1
  <2>2. \A d \in Clones : Len(local'[d]) <= MaxOps
    <3>1. Len(<<>>) = 0 /\ 0 <= MaxOps
      BY <1>2
    <3>2. Len(local'[c]) <= MaxOps
      BY <1>6, <3>1
    <3>3. \A d \in Clones : d # c => Len(local'[d]) <= MaxOps
      BY <1>2, <1>6
    <3> QED
      BY <3>2, <3>3
  <2> QED
    BY <1>1, <1>2, <1>5, <2>1, <2>2 DEF MergeTypeOK
<1>8. \A d \in Clones : CloneInv(d)'
  <2> SUFFICES ASSUME NEW d \in Clones PROVE CloneInv(d)'
    OBVIOUS
  <2>0. CloneInv(d)
    BY DEF MergeInv
  <2>1. CASE d = c
    <3>1. Follows(r.onto, r.onto) /\ 1..Len(<<>>) = {}
      BY DEF Follows
    <3> QED
      BY <1>1, <1>5, <1>6, <2>1, <3>1 DEF CloneInv
  <2>2. CASE d # c
    <3>1. \A i : ParentOf(d, i)' = ParentOf(d, i)
      BY <1>6, <2>2 DEF ParentOf
    <3>2. Follows(base[d], r.onto)
      BY <1>5, <2>0 DEF CloneInv, Follows
    <3> QED
      BY <1>1, <1>6, <2>0, <2>2, <3>1, <3>2 DEF CloneInv
  <2> QED
    BY <2>1, <2>2
<1>9. MergeInv'
  BY <1>1, <1>5, <1>7, <1>8 DEF MergeInv
<1>10. \A d \in Clones : Follows(Tip(d), Tip(d)')
  <2> SUFFICES ASSUME NEW d \in Clones PROVE Follows(Tip(d), Tip(d)')
    OBVIOUS
  <2>1. CASE d = c
    <3>1. Tip(c)' = r.onto
      BY <1>6 DEF Tip
    <3> QED
      BY <1>5, <2>1, <3>1
  <2>2. CASE d # c
    <3>1. Tip(d)' = Tip(d)
      BY <1>6, <2>2 DEF Tip
    <3> QED
      BY <3>1 DEF Follows
  <2> QED
    BY <2>1, <2>2
<1> QED
  BY <1>1, <1>5, <1>6, <1>9, <1>10

LEMMA MergeStep ==
    ASSUME MergeInv, [MergeNext]_mergeVars
    PROVE  /\ MergeInv' /\ \A d \in Clones : Follows(Tip(d), Tip(d)')
           /\ \A c \in Clones : (local[c] # <<>> /\ local'[c] = <<>>) =>
                 \A f \in FieldNames \ {"phase"} :
                    origin.fields[f] = base[c].fields[f] => origin'.fields[f] = Tip(c).fields[f]
<1>1. CASE MergeNext
  <2>1. PICK c \in Clones :
           \/ Sync(c)
           \/ \E now \in 1..MaxStamp :
                \/ \E w \in Workers : Claim(c, w, now)
                \/ \E p \in OpenPatches : Update(c, p, now)
                \/ Release(c, now) \/ Close(c, now) \/ AddNote(c, now)
                \/ \E t \in OldTags : RemoveTag(c, t, now)
                \/ \E p \in Paragraphs : EditBody(c, p, now)
    BY <1>1 DEF MergeNext
  <2>2. CASE Sync(c)
    BY <2>2, CycleStep
  <2>3. CASE ~Sync(c)
    <3>1. Kept
      BY <2>1, <2>3, OperationStep
    <3> QED
      BY <3>1 DEF Kept
  <2> QED
    BY <2>2, <2>3
<1>2. CASE UNCHANGED mergeVars
  <2>1. origin' = origin /\ base' = base /\ local' = local /\ clock' = clock
    BY <1>2 DEF mergeVars
  <2>2. MergeInv'
    BY <2>1 DEF MergeInv, MergeTypeOK, CloneInv, ParentOf
  <2>3. \A d \in Clones : Tip(d)' = Tip(d)
    BY <2>1 DEF Tip
  <2> QED
    BY <2>1, <2>2, <2>3 DEF Follows
<1> QED
  BY <1>1, <1>2

LEMMA NewSound ==
    ASSUME NEW clocks
    PROVE  New \in TicketType /\ Sound(New, clocks)
<1> DEFINE b == [p \in Paragraphs |-> <<>>]
           k == Ops!NewTicket("not_started", FALSE)
<1>1. k \in Ops!TicketType /\ k.history = <<>>
  <2>1. "not_started" \in Ops!Statuses /\ "none" \in Ops!Phases
    BY DEF Ops!Statuses, Ops!Phases
  <2>2. /\ <<>> \in Seq(Ops!Event) /\ 0 \in Nat /\ Ops!Unknown \in Ops!Statuses \cup {Ops!Unknown}
        /\ NoWorker \in Workers \cup {NoWorker}
    OBVIOUS
  <2>3. (FALSE /\ "not_started" \in Ops!Active) = FALSE
    OBVIOUS
  <2> QED
    BY <2>1, <2>2, <2>3 DEF Ops!NewTicket, Ops!TicketType
<1>2. b \in [Paragraphs -> {<<>>} \cup Stamps] /\ \A p \in Paragraphs : b[p] = <<>>
  OBVIOUS
<1>3. New = [fields |-> k, events |-> {}, notes |-> {}, tags |-> OldTags, body |-> b, updated |-> 0]
  BY DEF New
<1>4. 0 \in 0..MaxStamp
  BY MergeAssumption
<1> HIDE DEF b, k
<1>5. /\ New \in TicketType /\ New.fields = k /\ New.notes = {} /\ New.events = {} /\ New.body = b
  BY <1>1, <1>2, <1>3, <1>4 DEF TicketType
<1> QED
  BY <1>1, <1>2, <1>5 DEF Sound

LEMMA MergeInitInv ==
    ASSUME MergeInit
    PROVE  MergeInv
<1>1. New \in TicketType /\ Sound(New, clock)
  BY NewSound
<1>2. /\ origin = New /\ base = [c \in Clones |-> New] /\ local = [c \in Clones |-> <<>>]
      /\ clock = [c \in Clones |-> 0]
  BY DEF MergeInit
<1>3. <<>> \in Seq(TicketType) /\ Len(<<>>) = 0 /\ 1..0 = {} /\ Follows(New, New)
      /\ 0 \in 0..MaxStamp /\ 0 <= MaxOps
  BY MergeAssumption DEF Follows
<1>4. MergeTypeOK
  BY <1>1, <1>2, <1>3 DEF MergeTypeOK
<1>5. \A c \in Clones : CloneInv(c)
  BY <1>1, <1>2, <1>3 DEF CloneInv
<1> QED
  BY <1>1, <1>2, <1>4, <1>5 DEF MergeInv

\* The inductive invariant of the clones holds in every state.
LEMMA MergeInvariance == MergeSpec => []MergeInv
<1>1. MergeInit => MergeInv
  BY MergeInitInv
<1>2. MergeInv /\ [MergeNext]_mergeVars => MergeInv'
  BY MergeStep
<1> QED
  BY <1>1, <1>2, PTL DEF MergeSpec

\* The operations of ops.rs and the merge of merge.rs keep the type of every
\* ticket, for any clones, patches and clocks.
THEOREM MergeTypeCorrect == MergeSpec => []MergeTypeOK
<1>1. MergeInv => MergeTypeOK
  BY DEF MergeInv
<1> QED
  BY <1>1, MergeInvariance, PTL

\* Two clones with one commit each get the same ticket whoever syncs first:
\* pick3, union3, merge_notes and the text merge do not depend on which side is
\* ours, for every pair of revisions with different stamps and no body conflict.
THEOREM SyncOrderIrrelevant == MergeSpec => []MergeCommutes
<1>1. MergeInv => MergeCommutes
  <2> SUFFICES ASSUME MergeInv, NEW c \in Clones, NEW d \in Clones,
                      base[c] = base[d], Len(local[c]) = 1, Len(local[d]) = 1,
                      Tip(c).updated # Tip(d).updated, Rebased(base[c], Tip(d), local[c]).clean
               PROVE  Rebased(base[c], Tip(d), local[c]).onto
                    = Rebased(base[c], Tip(c), local[d]).onto
    BY DEF MergeCommutes
  <2> DEFINE b == base[c]
             k == local[c][1]
             l == local[d][1]
  <2>1. /\ local[c] \in Seq(TicketType) /\ local[d] \in Seq(TicketType)
        /\ Tip(c) = k /\ Tip(d) = l /\ k \in TicketType /\ l \in TicketType
    BY TipFacts
  <2>2. b \in TicketType /\ k # b /\ l # b
    <3>1. ParentOf(c, 1) = b /\ ParentOf(d, 1) = b /\ 1 \in 1..1
      BY DEF ParentOf
    <3>2. base[c] \in TicketType
      BY DEF MergeInv, MergeTypeOK
    <3> QED
      BY <3>1, <3>2 DEF MergeInv, CloneInv
  <2>3. ASSUME NEW x \in TicketType, NEW y \in TicketType, NEW up \in TicketType,
               NEW s \in Seq(TicketType), Len(s) = 1, s[1] = y, up # x
        PROVE  Rebased(x, up, s).onto = Merge(x, up, y)
               /\ (Rebased(x, up, s).clean => ~BodyConflict(x.body, up.body, y.body))
    <3>1. PICK g \in [0..1 -> ReplayType] :
             /\ g[0] = [parent |-> x, onto |-> up, clean |-> TRUE]
             /\ \A i \in 1..1 : g[i] = Replayed(g[i-1], s[i])
             /\ Rebased(x, up, s) = g[1]
      BY <2>3, RebasedFacts
    <3>2. g[1] = Replayed(g[0], y)
      <4>1. 1 \in 1..1 /\ 1 - 1 = 0
        OBVIOUS
      <4>2. g[1] = Replayed(g[1-1], s[1])
        BY <3>1, <4>1
      <4> QED
        BY <2>3, <4>1, <4>2
    <3>3. g[0].parent = x /\ g[0].onto = up
      BY <3>1
    <3>4. g[1].onto = Merge(x, up, y)
      BY <2>3, <3>2, <3>3 DEF Replayed
    <3>5. g[1].clean = (g[0].clean /\ ~BodyConflict(x.body, up.body, y.body))
      <4>1. Replayed(g[0], y).clean
          = (g[0].clean /\ ~BodyConflict(g[0].parent.body, g[0].onto.body, y.body))
        BY DEF Replayed
      <4> QED
        BY <3>2, <3>3, <4>1
    <3>6. g[1].clean => ~BodyConflict(x.body, up.body, y.body)
      BY <3>5
    <3> QED
      BY <3>1, <3>4, <3>6
  <2> HIDE DEF b, k, l
  <2>4. Rebased(b, l, local[c]).onto = Merge(b, l, k) /\ ~BodyConflict(b.body, l.body, k.body)
    <3>1. Rebased(b, l, local[c]).clean
      BY <2>1 DEF b
    <3> QED
      BY <2>1, <2>2, <2>3, <3>1 DEF k
  <2>5. Rebased(b, k, local[d]).onto = Merge(b, k, l)
    BY <2>1, <2>2, <2>3 DEF l
  <2>6. l.updated # k.updated
    BY <2>1
  <2>7. Merge(b, l, k) = Merge(b, k, l)
    BY <2>1, <2>2, <2>4, <2>6, MergeSymmetric
  <2> QED
    BY <2>1, <2>4, <2>5, <2>7 DEF b
<1> QED
  BY <1>1, MergeInvariance, PTL

\* No operation and no sync cycle, whatever it replays, makes a clone forget a
\* note or a claim event or brings a removed tag back.
THEOREM NothingIsForgotten == MergeSpec => NothingForgotten
<1>1. MergeInv /\ [MergeNext]_mergeVars =>
        [\A c \in Clones : /\ Tip(c).notes \subseteq Tip(c)'.notes
                           /\ Tip(c).events \subseteq Tip(c)'.events
                           /\ Tip(c)'.tags \subseteq Tip(c).tags]_mergeVars
  BY MergeStep DEF Follows
<1> QED
  BY <1>1, MergeInvariance, PTL DEF MergeSpec, NothingForgotten

\* A field other than the phase that no other clone touched since the last
\* sync keeps this clone's value, for any number of replayed commits and
\* whatever the clocks say.
THEOREM UncontestedIsKept == MergeSpec => UncontestedKept
<1>1. DOMAIN New.fields = FieldNames
  <2>1. New.fields = Ops!NewTicket("not_started", FALSE)
    BY DEF New
  <2> QED
    BY <2>1 DEF Ops!NewTicket, FieldNames
<1>2. MergeInv /\ [MergeNext]_mergeVars =>
        [\A c \in Clones : (local[c] # <<>> /\ local'[c] = <<>>) =>
           \A f \in DOMAIN New.fields \ {"phase"} :
              origin.fields[f] = base[c].fields[f] =>
                  origin'.fields[f] = Tip(c).fields[f]]_mergeVars
  BY <1>1, MergeStep
<1> QED
  BY <1>2, MergeInvariance, PTL DEF MergeSpec, UncontestedKept
=============================================================================
