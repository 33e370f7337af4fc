------------------------ MODULE AdvisoryClaimsProofs ------------------------
(***************************************************************************)
(* Theorems about AdvisoryClaims for any operations, machines, clock       *)
(* offsets within the allowance, horizon, skew and bounds: nobody is told  *)
(* to hold a ticket that another holds, a release is final, and a cleanup  *)
(* changes nothing for a reader.                                           *)
(***************************************************************************)
EXTENDS AdvisoryClaims, TLAPS, FiniteSetTheorems, WellFoundedInduction

\* An event that was or will be written by the rules of valid_write.
Minted(e) == e.op \notin Legacy => issued[e.op] # 0 /\ e.exp <= issued[e.op] + Horizon
Proper(e) == /\ e \in Event /\ Minted(e)
             /\ e.kind = "release" => e.op \in ended

\* Version 1 claims are no longer written.
Written(e) == Proper(e) /\ (e.op \in Legacy => e.kind # "claim")

\* No reader counts an event of this operation any more.
Buried(o) == o \notin Legacy /\ issued[o] # 0 /\ clock >= issued[o] + Horizon + 2 * Skew

\* The places of a call that may still lead to its PUT.
Before == {"replay", "scan"}
During == {"prune", "rescan", "put", "verify"}

CallOK(p) ==
    LET c == call[p] IN
    /\ c.at \in Before \cup During => Proper(c.event)
    /\ c.at \in During => Written(c.event)
    /\ \A e \in c.todo : Buried(e.op)

\* A row of the ledger was admitted with a minted operation.
RowOK(o) == ledger[o].state # "none" => Minted([op |-> o, kind |-> "claim", exp |-> ledger[o].exp])

\* What was released stays so, by its release or by its age.
Gone == \A o \in released : Of(props, o, "release") # {} \/ Buried(o)

\* What a worker was told is still among the properties while it may count.
Standing(o) == Of(props, o, "claim") # {} /\ Of(props, o, "release") = {}
Told(o) == /\ Standing(o) /\ \E e \in props : e.op = o /\ e.exp = until[o]

\* The version 1 operation that goes on outlasts the others that stand.
Renewing(o) ==
    \/ \E e \in late : e.op = o /\ e.kind = "renew"
    \/ \E p \in Procs : call[p].at = "put" /\ call[p].event.op = o /\ call[p].event.kind = "renew"
Leads(o) ==
    \A q \in Legacy \ {o} : Standing(o) /\ Standing(q) => Expiry(props, q) < Expiry(props, o)

Writing ==
    /\ clock > Skew /\ IsFiniteSet(props)
    /\ \A o \in Ops : issued[o] >= 0 /\ RowOK(o)
    /\ \A e \in props : Minted(e)
    /\ \A e \in late : Written(e)
    /\ \A p \in Procs : CallOK(p)

Holding ==
    /\ \A o \in ended : until[o] = 0
    /\ \A o \in Ops : until[o] + Skew > clock => Told(o)
    /\ \A o \in Legacy : until[o] # 0 \/ Renewing(o) => Leads(o)

IInv == TypeOK /\ Writing /\ Gone /\ Holding /\ HeldByOne

-----------------------------------------------------------------------------
(* The operators.                                                          *)

LEMMA Facts ==
    /\ Legacy \subseteq Ops /\ Horizon \in Nat /\ Skew \in Nat /\ MaxExpiry \in Nat
    /\ MaxTime \in Nat /\ None \notin Ops
    /\ \A i \in Ops \cup Procs : HostOf[i] \in Hosts /\ Offset[HostOf[i]] \in (0 - Skew)..Skew
BY AdvisoryAssumption

LEMMA EventFacts ==
    ASSUME NEW e \in Event
    PROVE  /\ e.op \in Ops /\ e.kind \in {"claim", "renew", "release"}
           /\ e.exp \in Nat /\ e.exp <= MaxExpiry
BY Facts DEF Event, Expiries

\* A bounded set of numbers has a maximum.
LEMMA MaxFacts ==
    ASSUME NEW n \in Nat, NEW S \in SUBSET (0..n), S # {}
    PROVE  Max(S) \in S /\ \A x \in S : x <= Max(S)
<1> DEFINE R == OpToRel(<, Nat)
           T == {y \in Nat : \E x \in S : y = n - x}
<1>1. IsWellFoundedOn(R, Nat)
  BY NatLessThanWellFounded
<1>2. T \subseteq Nat /\ T # {}
  <2>1. PICK x \in S : TRUE
    OBVIOUS
  <2>2. x \in 0..n
    OBVIOUS
  <2>3. n - x \in T
    BY <2>1, <2>2
  <2> QED
    BY <2>3
<1>3. PICK m \in T : \A y \in T : ~(<<y, m>> \in R)
  BY <1>1, <1>2, WFMin
<1>4. \A y \in T : ~(y < m)
  BY <1>2, <1>3 DEF OpToRel
<1>5. PICK x \in S : m = n - x
  OBVIOUS
<1>6. \A y \in S : x >= y
  BY <1>4, <1>5
<1>7. \E z \in S : \A y \in S : z >= y
  BY <1>6
<1>8. Max(S) \in S /\ \A y \in S : Max(S) >= y
  BY <1>7 DEF Max
<1> QED
  BY <1>8

\* The expiry of an operation with a claim is that of one of its events, and
\* no renewal is later.
LEMMA ExpiryFacts ==
    ASSUME NEW E \in SUBSET Event, NEW o, Of(E, o, "claim") # {}
    PROVE  /\ Expiry(E, o) \in 0..MaxExpiry
           /\ \A e \in Of(E, o, "renew") : e.exp <= Expiry(E, o)
           /\ \E e \in E : e.op = o /\ e.exp = Expiry(E, o)
           /\ \E c \in Of(E, o, "claim") : c.exp <= Expiry(E, o)
<1> DEFINE c == CHOOSE e \in Of(E, o, "claim") : TRUE
           S == {c.exp} \cup {e.exp : e \in Of(E, o, "renew")}
<1>1. c \in Of(E, o, "claim")
  OBVIOUS
<1>2. c \in E /\ c.op = o
  BY <1>1 DEF Of
<1>3. S \in SUBSET (0..MaxExpiry) /\ S # {}
  <2>1. \A e \in E : e.exp \in 0..MaxExpiry
    BY EventFacts, Facts
  <2>2. Of(E, o, "renew") \subseteq E
    BY DEF Of
  <2> HIDE DEF c
  <2> QED
    BY <1>2, <2>1, <2>2
<1>4. Max(S) \in S /\ \A x \in S : x <= Max(S)
  BY <1>3, MaxFacts, Facts
<1>5. Expiry(E, o) = Max(S)
  BY DEF Expiry
<1>6. \E e \in E : e.op = o /\ e.exp = Max(S)
  BY <1>2, <1>4 DEF Of
<1> QED
  BY <1>1, <1>3, <1>4, <1>5, <1>6

\* Expiry as a function of the claims and the renewals.
Latest(C, R) == Max({(CHOOSE e \in C : TRUE).exp} \cup {e.exp : e \in R})

LEMMA ExpiryOf ==
    ASSUME NEW E, NEW F, NEW o,
           Of(E, o, "claim") = Of(F, o, "claim"), Of(E, o, "renew") = Of(F, o, "renew")
    PROVE  Expiry(E, o) = Expiry(F, o)
<1>1. /\ Expiry(E, o) = Latest(Of(E, o, "claim"), Of(E, o, "renew"))
      /\ Expiry(F, o) = Latest(Of(F, o, "claim"), Of(F, o, "renew"))
  BY DEF Expiry, Latest
<1> QED
  BY <1>1

\* Another renewal does not make it earlier.
LEMMA ExpiryGrows ==
    ASSUME NEW E \in SUBSET Event, NEW F \in SUBSET Event, NEW o,
           Of(E, o, "claim") # {}, Of(E, o, "claim") = Of(F, o, "claim"),
           Of(E, o, "renew") \subseteq Of(F, o, "renew")
    PROVE  Expiry(E, o) <= Expiry(F, o)
<1> DEFINE c == CHOOSE e \in Of(E, o, "claim") : TRUE
           S == {c.exp} \cup {e.exp : e \in Of(E, o, "renew")}
           T == {c.exp} \cup {e.exp : e \in Of(F, o, "renew")}
<1>1. c \in Of(E, o, "claim")
  OBVIOUS
<1>2. c \in E
  BY <1>1 DEF Of
<1>3. Expiry(E, o) = Max(S) /\ Expiry(F, o) = Max(T)
  BY DEF Expiry
<1> HIDE DEF c
<1>4. \A e \in Event : e.exp \in 0..MaxExpiry
  BY EventFacts, Facts
<1>5. Of(E, o, "renew") \subseteq Event /\ Of(F, o, "renew") \subseteq Event
  BY DEF Of
<1>6. S \in SUBSET (0..MaxExpiry) /\ S # {} /\ T \in SUBSET (0..MaxExpiry) /\ T # {}
  BY <1>2, <1>4, <1>5
<1>7. S \subseteq T
  OBVIOUS
<1>8. Max(S) \in S /\ \A x \in T : x <= Max(T)
  BY <1>6, MaxFacts, Facts
<1> QED
  BY <1>3, <1>7, <1>8

\* Whether an event counts depends on its operation only.
Counted(o, t) ==
    o \in Legacy \/ (issued[o] <= t + Skew /\ t < issued[o] + Horizon + Skew)

LEMMA CurrentOf ==
    ASSUME NEW E \in SUBSET Event, NEW t \in Int, issued \in [Ops -> Int], NEW o \in Ops, NEW k
    PROVE  /\ Counted(o, t) => Of(Current(E, t), o, k) = Of(E, o, k)
           /\ ~Counted(o, t) => Of(Current(E, t), o, k) = {}
<1>1. \A e \in E : e.op = o => (e \in Current(E, t) <=> Counted(o, t))
  BY Facts DEF Current, Ahead, Counted
<1>2. Current(E, t) \subseteq E
  BY DEF Current
<1> QED
  BY <1>1, <1>2 DEF Of

LEMMA LiveFacts ==
    ASSUME NEW E \in SUBSET Event, NEW t \in Int, issued \in [Ops -> Int], NEW o \in Ops
    PROVE  o \in Live(E, t) <=> /\ Counted(o, t)
                                /\ Of(E, o, "claim") # {} /\ Of(E, o, "release") = {}
                                /\ Expiry(E, o) + Skew > t
<1>1. CASE Counted(o, t)
  <2>1. \A k : Of(Current(E, t), o, k) = Of(E, o, k)
    BY <1>1, CurrentOf
  <2>2. Expiry(Current(E, t), o) = Expiry(E, o)
    BY <2>1, ExpiryOf
  <2> QED
    BY <1>1, <2>1, <2>2 DEF Live
<1>2. CASE ~Counted(o, t)
  BY <1>2, CurrentOf DEF Live
<1> QED
  BY <1>1, <1>2

\* A finite set with at most one element.
LEMMA AtMostOne ==
    ASSUME NEW S, IsFiniteSet(S), ~(Cardinality(S) > 1), NEW a \in S, NEW b \in S
    PROVE  a = b
<1> SUFFICES ASSUME a # b PROVE FALSE
  OBVIOUS
<1>1. IsFiniteSet({a}) /\ Cardinality({a}) = 1
  BY FS_Singleton
<1>2. Cardinality({a} \cup {b}) = 2
  BY <1>1, FS_AddElement
<1>3. {a} \cup {b} \in SUBSET S
  OBVIOUS
<1>4. Cardinality({a} \cup {b}) <= Cardinality(S)
  BY <1>3, FS_Subset
<1>5. Cardinality(S) \in Nat
  BY FS_CardinalityType
<1> QED
  BY <1>2, <1>4, <1>5

\* The operations of finitely many events are finitely many.
LEMMA LiveFinite ==
    ASSUME NEW E \in SUBSET Event, IsFiniteSet(E), NEW t
    PROVE  IsFiniteSet(Live(E, t))
<1> DEFINE T == {e.op : e \in E}
           f == [e \in E |-> e.op]
<1>1. f \in Surjection(E, T)
  BY DEF Surjection
<1>2. IsFiniteSet(T)
  BY <1>1, FS_Surjection
<1>3. Live(E, t) \in SUBSET T
  BY DEF Live, Of, Current
<1> QED
  BY <1>2, <1>3, FS_Subset

\* What a reading without conflict tells.
LEMMA Alone ==
    ASSUME NEW E \in SUBSET Event, IsFiniteSet(E), NEW t \in Int, issued \in [Ops -> Int],
           ~Conflicted(E, t)
    PROVE  /\ \A o, q \in Live(E, t) : o = q
           /\ \A e \in E : ~Ahead(e, t)
           /\ \A o \in Ops : Counted(o, t) =>
                 \A a, b \in Of(E, o, "claim") : a = b
<1>1. \A o, q \in Live(E, t) : o = q
  BY LiveFinite, AtMostOne DEF Conflicted
<1>2. \A e \in E : ~Ahead(e, t)
  BY DEF Conflicted, Invalid
<1>3. ASSUME NEW o \in Ops, Counted(o, t), NEW a \in Of(E, o, "claim"), NEW b \in Of(E, o, "claim")
      PROVE  a = b
  <2>1. Of(Current(E, t), o, "claim") = Of(E, o, "claim")
    BY <1>3, CurrentOf
  <2>2. ~(Cardinality(Of(E, o, "claim")) > 1)
    BY <2>1 DEF Conflicted, Invalid
  <2>3. IsFiniteSet(Of(E, o, "claim"))
    <3>1. Of(E, o, "claim") \in SUBSET E
      BY DEF Of
    <3> QED
      BY <3>1, FS_Subset
  <2> QED
    BY <1>3, <2>2, <2>3, AtMostOne
<1> QED
  BY <1>1, <1>2, <1>3

-----------------------------------------------------------------------------
(* The initial state, and the steps that leave the properties alone.       *)

LEMMA IdleFacts == Idle \in CallType /\ Idle.at = "idle" /\ Idle.todo = {} /\ Idle.row = "none"
BY DEF Idle, CallType, NoEvent

LEMMA InitInv == Init => IInv
<1> SUFFICES ASSUME Init PROVE IInv
  OBVIOUS
<1>1. Found \subseteq Event /\ IsFiniteSet(Found) /\ Born \in [Ops -> Nat]
  BY AdvisoryAssumption
<1>2. TypeOK
  <2>1. {e.op : e \in {f \in Found : f.kind = "release"}} \subseteq Ops
    BY <1>1, EventFacts
  <2>2. [state |-> "none", exp |-> 0] \in [state : Rows, exp : Expiries \cup {0}]
    BY DEF Rows
  <2>3. clock \in 0..MaxTime /\ 0 \in 0..MaxLate /\ 0 \in 0..MaxCalls
    BY AdvisoryAssumption DEF Init
  <2> QED
    BY <1>1, <2>1, <2>2, <2>3, IdleFacts DEF Init, TypeOK
<1>3. Writing
  <2>1. \A e \in props : Minted(e)
    BY AdvisoryAssumption DEF Init, Minted
  <2>2. \A p \in Procs : CallOK(p)
    BY IdleFacts DEF Init, CallOK, Before, During
  <2>3. \A o \in Ops : issued[o] >= 0 /\ RowOK(o)
    BY <1>1 DEF Init, RowOK
  <2> QED
    BY <1>1, <2>1, <2>2, <2>3, Facts DEF Init, Writing
<1>4. Gone
  BY DEF Init, Gone, Of
<1>5. Holding /\ HeldByOne
  <2>1. \A o \in Ops : until[o] = 0
    BY DEF Init
  <2>2. \A o \in Legacy : ~Renewing(o)
    BY IdleFacts DEF Init, Renewing
  <2> QED
    BY <2>1, <2>2, Facts DEF Init, Holding, HeldByOne
<1> QED
  BY <1>2, <1>3, <1>4, <1>5 DEF IInv

\* Issue times are kept once they are there.
Kept == /\ issued' \in [Ops -> Int]
        /\ \A o \in Ops : /\ issued'[o] >= 0
                          /\ issued[o] # 0 \/ o \in Legacy => issued'[o] = issued[o]

LEMMA KeptUnchanged ==
    ASSUME IInv, UNCHANGED issued
    PROVE  Kept
BY DEF IInv, TypeOK, Writing, Kept

\* What holds of an event or operation goes on to hold.
LEMMA KeptFacts ==
    ASSUME IInv, Kept, clock' >= clock, ended \subseteq ended', clock' \in Int
    PROVE  /\ \A e \in Event : /\ Minted(e) => Minted(e)'
                               /\ Proper(e) => Proper(e)'
                               /\ Written(e) => Written(e)'
           /\ \A o \in Ops : Buried(o) => Buried(o)'
<1>1. \A e \in Event : e.op \in Ops /\ e.exp \in Nat
  BY EventFacts
<1>2. clock \in Int /\ issued \in [Ops -> Int]
  BY DEF IInv, TypeOK
<1>3. \A e \in Event : Minted(e) => Minted(e)'
  BY <1>1 DEF Kept, Minted
<1>4. \A e \in Event : Proper(e) => Proper(e)'
  BY <1>3 DEF Proper
<1>5. \A e \in Event : Written(e) => Written(e)'
  BY <1>4 DEF Written
<1>6. \A o \in Ops : Buried(o) => Buried(o)'
  BY <1>2, Facts DEF Kept, Buried
<1> QED
  BY <1>3, <1>4, <1>5, <1>6

\* Standing and Leads are about the properties only.
LEMMA PropsFacts ==
    ASSUME UNCHANGED props
    PROVE  /\ \A o, k : Of(props, o, k)' = Of(props, o, k)
           /\ \A o : /\ Standing(o)' <=> Standing(o)
                     /\ Expiry(props, o)' = Expiry(props, o)
                     /\ Leads(o)' <=> Leads(o)
<1>1. \A o, k : Of(props, o, k)' = Of(props, o, k)
  BY DEF Of
<1>2. \A o : Standing(o)' <=> Standing(o)
  BY <1>1 DEF Standing
<1>3. \A o : Expiry(props, o)' = Expiry(props, o)
  BY DEF Expiry, Of
<1> QED
  BY <1>1, <1>2, <1>3 DEF Leads

\* A step of one call that leaves the properties and the clock alone.
LEMMA QuietInv ==
    ASSUME IInv, NEW p \in Procs, NEW c \in CallType,
           call' = [call EXCEPT ![p] = c], UNCHANGED <<clock, props, released>>, Kept,
           lates' \in 0..MaxLate, calls' \in 0..MaxCalls, late' \subseteq Event,
           ledger' \in [Ops -> [state : Rows, exp : Expiries \cup {0}]],
           until' \in [Ops -> Expiries \cup {0}], ended \subseteq ended', ended' \subseteq Ops,
           \A o \in Ops : until'[o] \in {until[o], 0},
           \A o \in ended' : until'[o] = 0,
           c.at \in Before \cup During => Proper(c.event)',
           c.at \in During => Written(c.event)',
           \A e \in c.todo : Buried(e.op),
           \A o \in Ops : RowOK(o)',
           \A e \in late' : /\ Written(e)
                            /\ e.kind = "renew" /\ e.op \in Legacy => Leads(e.op),
           c.at = "put" /\ c.event.kind = "renew" /\ c.event.op \in Legacy => Leads(c.event.op)
    PROVE  IInv'
<1>0. TypeOK /\ Writing /\ Gone /\ Holding /\ HeldByOne
  BY DEF IInv
<1>1. TypeOK'
  BY <1>0 DEF TypeOK, Kept
<1>2. /\ \A e \in Event : /\ Minted(e) => Minted(e)'
                          /\ Proper(e) => Proper(e)'
                          /\ Written(e) => Written(e)'
      /\ \A o \in Ops : Buried(o) => Buried(o)'
  <2>1. clock' \in Int /\ clock' >= clock
    BY <1>0 DEF TypeOK
  <2> QED
    BY <2>1, KeptFacts
<1>3. \A q \in Procs : CallOK(q)'
  <2> SUFFICES ASSUME NEW q \in Procs PROVE CallOK(q)'
    OBVIOUS
  <2>1. call \in [Procs -> CallType]
    BY <1>0 DEF TypeOK
  <2>2. CASE q = p
    <3>1. call'[q] = c
      BY <2>1, <2>2
    <3>2. \A e \in c.todo : e.op \in Ops
      BY EventFacts DEF CallType
    <3> QED
      BY <1>2, <3>1, <3>2 DEF CallOK
  <2>3. CASE q # p
    <3>1. call'[q] = call[q] /\ CallOK(q)
      BY <1>0, <2>1, <2>3 DEF Writing
    <3>2. \A e \in call[q].todo : e.op \in Ops
      BY <2>1, EventFacts DEF CallType
    <3>3. \A e : Proper(e) => e \in Event
      BY DEF Proper
    <3>4. \A e : Written(e) => e \in Event
      BY <3>3 DEF Written
    <3> QED
      BY <1>2, <3>1, <3>2, <3>3, <3>4 DEF CallOK
  <2> QED
    BY <2>2, <2>3
<1>4. Writing'
  <2>1. \A e \in props' : Minted(e)'
    BY <1>0, <1>2 DEF Writing, TypeOK
  <2>2. \A e \in late' : Written(e)'
    BY <1>2
  <2> QED
    BY <1>0, <1>3, <2>1, <2>2 DEF Writing, Kept
<1>5. Gone'
  BY <1>0, <1>2, PropsFacts DEF Gone, TypeOK
<1>6. Holding'
  <2>1. \A o \in Ops : (until[o] + Skew > clock => Told(o)) => (until[o] + Skew > clock /\ until'[o] = until[o] => Told(o)')
    BY PropsFacts DEF Told
  <2>2. \A o \in Ops : until'[o] + Skew > clock' => Told(o)'
    <3> SUFFICES ASSUME NEW o \in Ops, until'[o] + Skew > clock' PROVE Told(o)'
      OBVIOUS
    <3>1. until'[o] # 0
      BY <1>0, Facts DEF Writing, TypeOK
    <3> QED
      BY <1>0, <2>1, <3>1 DEF Holding
  <2>3. ASSUME NEW o \in Legacy, until'[o] # 0 \/ Renewing(o)'
        PROVE  Leads(o)'
    <3>1. o \in Ops /\ call \in [Procs -> CallType]
      BY <1>0, Facts DEF TypeOK
    <3>2. CASE until'[o] # 0
      BY <1>0, <3>1, <3>2, PropsFacts DEF Holding
    <3>3. CASE \E e \in late' : e.op = o /\ e.kind = "renew"
      BY <3>3, PropsFacts
    <3>4. ASSUME NEW q \in Procs, call'[q].at = "put", call'[q].event.op = o,
                 call'[q].event.kind = "renew"
          PROVE  Leads(o)'
      <4>1. CASE q = p
        BY <3>1, <3>4, <4>1, PropsFacts
      <4>2. CASE q # p
        <5>1. Renewing(o)
          BY <3>1, <3>4, <4>2 DEF Renewing
        <5> QED
          BY <1>0, <5>1, PropsFacts DEF Holding
      <4> QED
        BY <4>1, <4>2
    <3> QED
      BY <2>3, <3>2, <3>3, <3>4 DEF Renewing
  <2> QED
    BY <2>2, <2>3 DEF Holding
<1>7. HeldByOne'
  <2>1. \A o \in Ops : until'[o] + Skew > clock' => until[o] + Skew > clock
    <3> SUFFICES ASSUME NEW o \in Ops, until'[o] + Skew > clock' PROVE until[o] + Skew > clock
      OBVIOUS
    <3>1. until'[o] # 0
      BY <1>0, Facts DEF Writing, TypeOK
    <3> QED
      BY <3>1
  <2> QED
    BY <1>0, <2>1 DEF HeldByOne
<1> QED
  BY <1>1, <1>4, <1>5, <1>6, <1>7 DEF IInv

\* The ways a call ends: it is idle or asks for the status, and may have
\* changed the state of a row that was there.
Ends(p) ==
    /\ call' = [call EXCEPT ![p] = Idle] \/ Goto(p, "status")
    /\ \/ ledger' = ledger
       \/ \E o \in Ops, s \in Rows :
             ledger[o].state # "none" /\ ledger' = [ledger EXCEPT ![o].state = s]

LEMMA EndsFacts ==
    ASSUME IInv, NEW p \in Procs, NEW s \in Rows
    PROVE  /\ Settle(p, s) => Ends(p)
           /\ Leave(p) => Ends(p)
           /\ Refuse(p) => Ends(p)
<1>0. ledger \in [Ops -> [state : Rows, exp : Expiries \cup {0}]]
  BY DEF IInv, TypeOK
<1>1. ASSUME NEW r \in Rows, Settle(p, r) PROVE Ends(p)
  <2> DEFINE o == call[p].event.op
  <2>1. CASE call[p].row = "none"
    BY <1>1, <2>1 DEF Settle, Stay, Ends
  <2>2. CASE call[p].row # "none" /\ ledger[o].state # call[p].row
    BY <1>1, <2>2 DEF Settle, Ends
  <2>3. CASE call[p].row # "none" /\ ledger[o].state = call[p].row
    <3>1. ledger' = [ledger EXCEPT ![o].state = r] /\ Goto(p, "status")
      BY <1>1, <2>3 DEF Settle
    <3>2. CASE o \in Ops
      BY <2>3, <3>1, <3>2 DEF Ends
    <3>3. CASE o \notin Ops
      <4>1. ledger' = ledger
        BY <1>0, <3>1, <3>3
      <4> QED
        BY <3>1, <4>1 DEF Ends
    <3> QED
      BY <3>2, <3>3
  <2> QED
    BY <2>1, <2>2, <2>3
<1>2. Leave(p) => Ends(p)
  BY DEF Leave, Stay, Ends
<1>3. "attention" \in Rows
  BY DEF Rows, Pending
<1> QED
  BY <1>1, <1>2, <1>3 DEF Refuse

\* The ledger after a call ended.
LEMMA RowFacts ==
    ASSUME IInv, NEW p \in Procs, Ends(p) \/ UNCHANGED ledger, Kept
    PROVE  /\ ledger' \in [Ops -> [state : Rows, exp : Expiries \cup {0}]]
           /\ \A o \in Ops : RowOK(o)'
<1>0. /\ ledger \in [Ops -> [state : Rows, exp : Expiries \cup {0}]]
      /\ issued \in [Ops -> Int] /\ \A o \in Ops : RowOK(o)
  BY DEF IInv, TypeOK, Writing
<1>1. /\ ledger' \in [Ops -> [state : Rows, exp : Expiries \cup {0}]]
      /\ \A o \in Ops : /\ ledger'[o].exp = ledger[o].exp
                        /\ ledger'[o].state # "none" => ledger[o].state # "none"
  <2>1. CASE ledger' = ledger
    BY <1>0, <2>1
  <2>2. ASSUME NEW o \in Ops, NEW s \in Rows, ledger[o].state # "none",
               ledger' = [ledger EXCEPT ![o].state = s]
        PROVE  <1>1!:
    BY <1>0, <2>2
  <2> QED
    BY <2>1, <2>2 DEF Ends
<1>2. ASSUME NEW o \in Ops PROVE RowOK(o)'
  <2>1. RowOK(o) /\ (issued[o] # 0 \/ o \in Legacy => issued'[o] = issued[o])
    BY <1>0 DEF Kept
  <2> QED
    BY <1>1, <2>1 DEF RowOK, Minted
<1> QED
  BY <1>1, <1>2

\* A call that ends, and at most leaves a PUT behind.
LEMMA EndInv ==
    ASSUME IInv, NEW p \in Procs, Ends(p),
           UNCHANGED <<clock, props, issued, until, ended, released, calls>>,
           lates' \in 0..MaxLate, late' \subseteq Event,
           \A e \in late' : /\ Written(e)
                            /\ e.kind = "renew" /\ e.op \in Legacy => Leads(e.op)
    PROVE  IInv'
<1> DEFINE to == [call[p] EXCEPT !.at = "status"]
<1>0. /\ TypeOK /\ Holding /\ CallOK(p) /\ call[p] \in CallType
  BY DEF IInv, TypeOK, Writing
<1>1. Kept
  BY KeptUnchanged
<1>2. to \in CallType /\ to.at = "status" /\ to.todo = call[p].todo
  BY <1>0 DEF CallType
<1>3. PICK c \in {Idle, to} : call' = [call EXCEPT ![p] = c]
  BY <1>0 DEF Ends, Goto, TypeOK
<1> HIDE DEF to
<1>4. /\ c \in CallType /\ c.at \notin Before \cup During \cup {"put"}
      /\ \A e \in c.todo : Buried(e.op)
  BY <1>0, <1>2, <1>3, IdleFacts DEF Before, During, CallOK
<1>5. /\ ledger' \in [Ops -> [state : Rows, exp : Expiries \cup {0}]]
      /\ \A o \in Ops : RowOK(o)'
  BY <1>1, RowFacts
<1>6. /\ calls' \in 0..MaxCalls /\ until' \in [Ops -> Expiries \cup {0}]
      /\ ended \subseteq ended' /\ ended' \subseteq Ops
      /\ \A o \in Ops : until'[o] \in {until[o], 0}
      /\ \A o \in ended' : until'[o] = 0
  BY <1>0 DEF TypeOK, Holding
<1> QED
  BY <1>1, <1>3, <1>4, <1>5, <1>6, QuietInv

LEMMA LateFacts ==
    ASSUME IInv
    PROVE  /\ late \subseteq Event /\ lates \in 0..MaxLate
           /\ \A e \in late : /\ Written(e)
                              /\ e.kind = "renew" /\ e.op \in Legacy => Leads(e.op)
BY DEF IInv, TypeOK, Writing, Holding, Renewing

\* The instant a call decides by.
LEMMA NowFacts ==
    ASSUME clock \in Int, NEW now \in Int, NEW fenced
    PROVE  /\ ProviderNow(now, fenced) \in Int
           /\ fenced => ProviderNow(now, fenced) <= clock
<1>1. Min({now, clock}) \in {now, clock} /\ \A x \in {now, clock} : Min({now, clock}) <= x
  <2>1. \E x \in {now, clock} : \A y \in {now, clock} : x <= y
    OBVIOUS
  <2> QED
    BY <2>1 DEF Min
<1> QED
  BY <1>1 DEF ProviderNow

\* A version 1 operation that may be renewed is the only one that stands so
\* long.
LEMMA LeadsFacts ==
    ASSUME IInv, NEW o \in Legacy, NEW t \in Int, ~Conflicted(props, t), o \in Live(props, t)
    PROVE  Leads(o)
<1>0. /\ props \in SUBSET Event /\ IsFiniteSet(props) /\ issued \in [Ops -> Int]
      /\ o \in Ops /\ Legacy \subseteq Ops
  BY Facts DEF IInv, TypeOK, Writing
<1> SUFFICES ASSUME NEW q \in Legacy \ {o}, Standing(o), Standing(q)
             PROVE  Expiry(props, q) < Expiry(props, o)
  BY DEF Leads
<1>1. q \notin Live(props, t)
  BY <1>0, Alone
<1>2. ~(Expiry(props, q) + Skew > t)
  BY <1>0, <1>1, LiveFacts DEF Counted, Standing
<1>3. Expiry(props, o) + Skew > t
  BY <1>0, LiveFacts
<1>4. Expiry(props, o) \in 0..MaxExpiry /\ Expiry(props, q) \in 0..MaxExpiry
  BY <1>0, ExpiryFacts DEF Standing
<1> QED
  BY <1>2, <1>3, <1>4, Facts

\* A call that goes on in place.
LEMMA GoInv ==
    ASSUME IInv, NEW p \in Procs, NEW c \in CallType,
           c.at \in {"scan", "prune", "rescan", "put"}, c.event = call[p].event,
           call' = [call EXCEPT ![p] = c], UNCHANGED <<props, ledger>>, WriteUnchanged,
           Proper(c.event), c.at # "scan" => Written(c.event),
           \A e \in c.todo : Buried(e.op),
           c.at = "put" /\ c.event.kind = "renew" /\ c.event.op \in Legacy => Leads(c.event.op)
    PROVE  IInv'
<1>0. TypeOK /\ Holding /\ Kept
      /\ UNCHANGED <<clock, props, late, lates, calls, issued, ledger, until, ended, released>>
  BY KeptUnchanged DEF IInv, WriteUnchanged
<1>2. c.event \in Event
  BY DEF Proper
<1>3. Proper(c.event)' /\ (c.at \in During => Written(c.event)')
  <2>1. clock' \in Int /\ clock' >= clock /\ ended \subseteq ended'
    BY <1>0 DEF TypeOK
  <2>2. Proper(c.event)'
    BY <1>0, <1>2, <2>1, KeptFacts
  <2>3. c.at # "scan" => Written(c.event)'
    BY <1>0, <1>2, <2>1, KeptFacts
  <2> QED
    BY <2>2, <2>3 DEF During
<1>4. /\ ledger' \in [Ops -> [state : Rows, exp : Expiries \cup {0}]]
      /\ \A o \in Ops : RowOK(o)'
  BY <1>0, RowFacts
<1>5. /\ calls' \in 0..MaxCalls /\ until' \in [Ops -> Expiries \cup {0}]
      /\ ended \subseteq ended' /\ ended' \subseteq Ops
      /\ \A o \in Ops : until'[o] \in {until[o], 0}
      /\ \A o \in ended' : until'[o] = 0
  BY <1>0 DEF TypeOK, Holding
<1>6. /\ lates' \in 0..MaxLate /\ late' \subseteq Event
      /\ \A e \in late' : /\ Written(e)
                          /\ e.kind = "renew" /\ e.op \in Legacy => Leads(e.op)
  BY <1>0, LateFacts
<1> QED
  BY <1>0, <1>3, <1>4, <1>5, <1>6, QuietInv

\* The decision of a write: it ends, or the PUT is allowed.
LEMMA DecideInv ==
    ASSUME IInv, NEW p \in Procs, NEW t \in Int, call[p].at # "idle", Written(call[p].event),
           Decide(p, call[p].event, t), UNCHANGED props, WriteUnchanged
    PROVE  IInv'
<1> DEFINE e == call[p].event
<1>0. TypeOK /\ CallOK(p) /\ call[p] \in CallType
  BY DEF IInv, TypeOK, Writing
<1>1. CASE Ends(p)
  BY <1>1, EndInv, LateFacts DEF WriteUnchanged
<1>2. CASE Stay(p, "put") /\ Allowed(e, t)
  <2> DEFINE c == [call[p] EXCEPT !.at = "put"]
  <2>1. c \in CallType /\ c.at = "put" /\ c.event = e /\ c.todo = call[p].todo
    BY <1>0 DEF CallType
  <2>2. call' = [call EXCEPT ![p] = c] /\ UNCHANGED ledger
    BY <1>0, <1>2 DEF Stay, Goto, TypeOK
  <2>3. e.kind = "renew" /\ e.op \in Legacy => Leads(e.op)
    <3> SUFFICES ASSUME e.kind = "renew", e.op \in Legacy PROVE Leads(e.op)
      OBVIOUS
    <3>1. ~Conflicted(props, t) /\ e.op \in Live(props, t)
      BY <1>2 DEF Allowed
    <3> QED
      BY <3>1, LeadsFacts
  <2>4. call[p].todo \in SUBSET Event /\ \A f \in call[p].todo : Buried(f.op)
    BY <1>0 DEF CallOK, CallType
  <2>5. Proper(e) /\ Written(e)
    BY DEF Written
  <2> HIDE DEF c
  <2> QED
    BY <2>1, <2>2, <2>3, <2>4, <2>5, GoInv
<1>3. Ends(p) \/ (Stay(p, "put") /\ Allowed(e, t))
  <2>1. Outcome(e.op, t) \in Rows
    BY DEF Outcome, Rows, Pending
  <2>2. Settle(p, Outcome(e.op, t)) \/ Leave(p) \/ Refuse(p) \/ (Stay(p, "put") /\ Allowed(e, t))
    BY DEF Decide
  <2> QED
    BY <2>1, <2>2, EndsFacts
<1> QED
  BY <1>1, <1>2, <1>3

\* The steps that only end a call.
LEMMA VerifyInv ==
    ASSUME IInv, NEW p \in Procs, Verify(p) \/ Fail(p)
    PROVE  IInv'
<1>1. Ends(p)
  <2>1. CASE Verify(p)
    <3> DEFINE s == Outcome(call[p].event.op, ProviderNow(call[p].now, Fenced))
    <3>1. s \in Rows
      BY DEF Outcome, Rows, Pending
    <3>2. Settle(p, s) \/ Leave(p) \/ Refuse(p)
      BY <2>1 DEF Verify
    <3> QED
      BY <3>1, <3>2, EndsFacts
  <2>2. CASE Fail(p)
    <3>1. "none" \in Rows
      BY DEF Rows
    <3> QED
      BY <2>2, <3>1, EndsFacts DEF Fail
  <2> QED
    BY <2>1, <2>2
<1>2. UNCHANGED props /\ WriteUnchanged
  BY DEF Verify, Fail
<1> QED
  BY <1>1, <1>2, EndInv, LateFacts DEF WriteUnchanged

LEMMA GiveUpInv ==
    ASSUME IInv, NEW p \in Procs, GiveUp(p)
    PROVE  IInv'
<1> DEFINE e == call[p].event
<1>0. TypeOK /\ Holding /\ CallOK(p) /\ call[p].at = "put"
  BY DEF IInv, Writing, GiveUp
<1>1. Ends(p)
  <2>1. "none" \in Rows
    BY DEF Rows
  <2> QED
    BY <2>1, EndsFacts DEF GiveUp
<1>2. Written(e) /\ e \in Event
  BY <1>0 DEF CallOK, During, Written, Proper
<1>3. e.kind = "renew" /\ e.op \in Legacy => Leads(e.op)
  BY <1>0 DEF Holding, Renewing
<1>4. lates' \in 0..MaxLate
  BY <1>0, AdvisoryAssumption DEF GiveUp, TypeOK
<1>5. /\ late' \subseteq Event
      /\ \A f \in late' : /\ Written(f)
                          /\ f.kind = "renew" /\ f.op \in Legacy => Leads(f.op)
  BY <1>2, <1>3, LateFacts DEF GiveUp
<1> QED
  BY <1>1, <1>4, <1>5, EndInv DEF GiveUp

\* Scans.
LEMMA ScanFacts ==
    ASSUME IInv, NEW p \in Procs, call[p].at # "idle"
    PROVE  /\ call[p] \in CallType /\ call[p].now \in Int /\ CallOK(p) /\ clock \in Int
           /\ \A fenced : ProviderNow(call[p].now, fenced) \in Int
BY NowFacts DEF IInv, TypeOK, Writing, CallType

LEMMA ReplayScanInv ==
    ASSUME IInv, NEW p \in Procs, ReplayScan(p)
    PROVE  IInv'
<1>0. /\ call[p].at = "replay" /\ TypeOK /\ CallOK(p) /\ call[p] \in CallType
      /\ UNCHANGED props /\ WriteUnchanged
  BY ScanFacts DEF ReplayScan, IInv
<1>1. CASE Ends(p)
  BY <1>0, <1>1, EndInv, LateFacts DEF WriteUnchanged
<1>2. CASE Stay(p, "scan")
  <2> DEFINE c == [call[p] EXCEPT !.at = "scan"]
  <2>1. c \in CallType /\ c.at = "scan" /\ c.event = call[p].event /\ c.todo = call[p].todo
    BY <1>0 DEF CallType
  <2>2. call' = [call EXCEPT ![p] = c] /\ UNCHANGED ledger
    BY <1>0, <1>2 DEF Stay, Goto, TypeOK
  <2>3. Proper(call[p].event) /\ \A e \in call[p].todo : Buried(e.op)
    BY <1>0 DEF CallOK, Before
  <2> HIDE DEF c
  <2> QED
    BY <1>0, <2>1, <2>2, <2>3, GoInv
<1>3. Ends(p) \/ Stay(p, "scan")
  <2>1. {"expired", "attention", "confirmed"} \subseteq Rows
    BY DEF Rows, Pending
  <2>2. \/ \E s \in {"expired", "attention", "confirmed"} : Settle(p, s)
        \/ Leave(p) \/ Stay(p, "scan")
    BY DEF ReplayScan
  <2> QED
    BY <2>1, <2>2, EndsFacts
<1> QED
  BY <1>1, <1>2, <1>3

LEMMA ScanInv ==
    ASSUME IInv, NEW p \in Procs, Scan(p)
    PROVE  IInv'
<1> DEFINE e == call[p].event
           t == ProviderNow(call[p].now, Writes2(e))
           old == {f \in props : Reclaimable(f, t)}
<1>0. /\ call[p].at = "scan" /\ TypeOK /\ Writing /\ CallOK(p) /\ call[p] \in CallType
      /\ UNCHANGED props /\ WriteUnchanged /\ t \in Int
  BY ScanFacts DEF Scan, IInv
<1>1. Proper(e) /\ e \in Event
  BY <1>0 DEF CallOK, Before, Proper
<1>2. CASE Ends(p)
  BY <1>0, <1>2, EndInv, LateFacts DEF WriteUnchanged
<1>3. CASE ~(e.op \in Legacy /\ e.kind = "claim") /\ Decide(p, e, t)
  <2>1. Written(e)
    BY <1>1, <1>3 DEF Written
  <2> QED
    BY <1>0, <1>3, <2>1, DecideInv
<1>4. CASE /\ ~(e.op \in Legacy /\ e.kind = "claim") /\ UNCHANGED ledger
           /\ call' = [call EXCEPT ![p].at = "prune", ![p].todo = old]
  <2> DEFINE c == [call[p] EXCEPT !.at = "prune", !.todo = old]
  <2>1. c \in CallType /\ c.at = "prune" /\ c.event = e /\ c.todo = old
    BY <1>0 DEF CallType, TypeOK
  <2>2. call' = [call EXCEPT ![p] = c]
    BY <1>0, <1>4 DEF TypeOK
  <2>3. Written(e)
    BY <1>1, <1>4 DEF Written
  <2>4. ASSUME NEW f \in old PROVE Buried(f.op)
    <3>1. f \in props /\ f.op \notin Legacy /\ t >= issued[f.op] + Horizon + 2 * Skew
      BY DEF Reclaimable
    <3>2. Writes2(e)
      BY <3>1 DEF Writes2, Fenced
    <3>3. t <= clock /\ clock \in Int /\ t \in Int
      BY <1>0, <3>2, ScanFacts, NowFacts
    <3>4. f \in Event /\ issued[f.op] # 0 /\ issued[f.op] \in Int
      BY <1>0, <3>1, EventFacts DEF TypeOK, Writing, Minted
    <3> HIDE DEF t, old
    <3> QED
      BY <3>1, <3>3, <3>4, Facts DEF Buried
  <2> HIDE DEF c
  <2> QED
    BY <1>0, <1>1, <1>4, <2>1, <2>2, <2>3, <2>4, GoInv
<1>5. \/ Ends(p)
      \/ ~(e.op \in Legacy /\ e.kind = "claim") /\ Decide(p, e, t)
      \/ /\ ~(e.op \in Legacy /\ e.kind = "claim") /\ UNCHANGED ledger
         /\ call' = [call EXCEPT ![p].at = "prune", ![p].todo = old]
  <2>1. Outcome(e.op, t) \in Rows
    BY DEF Outcome, Rows, Pending
  <2>2. \/ Leave(p) \/ Refuse(p) \/ Settle(p, Outcome(e.op, t))
        \/ ~(e.op \in Legacy /\ e.kind = "claim") /\ Decide(p, e, t)
        \/ /\ ~(e.op \in Legacy /\ e.kind = "claim") /\ UNCHANGED ledger
           /\ call' = [call EXCEPT ![p].at = "prune", ![p].todo = old]
    BY DEF Scan
  <2> QED
    BY <2>1, <2>2, EndsFacts
<1> QED
  BY <1>2, <1>3, <1>4, <1>5

LEMMA RescanInv ==
    ASSUME IInv, NEW p \in Procs, Rescan(p)
    PROVE  IInv'
<1> DEFINE e == call[p].event
           t == ProviderNow(call[p].now, Writes2(e))
<1>0. /\ call[p].at = "rescan" /\ CallOK(p) /\ UNCHANGED props /\ WriteUnchanged /\ t \in Int
  BY ScanFacts DEF Rescan
<1>1. Written(e)
  BY <1>0 DEF CallOK, During
<1>2. CASE Leave(p) \/ Refuse(p)
  <2>1. "none" \in Rows
    BY DEF Rows
  <2>2. Ends(p)
    BY <1>2, <2>1, EndsFacts
  <2> QED
    BY <1>0, <2>2, EndInv, LateFacts DEF WriteUnchanged
<1>3. CASE Decide(p, e, t)
  BY <1>0, <1>1, <1>3, DecideInv
<1> QED
  BY <1>2, <1>3 DEF Rescan

\* The beginning of a call.
LEMMA EnterFacts ==
    ASSUME IInv, NEW p \in Procs, NEW e \in Event,
           NEW place \in {"scan", "status", "replay"}, NEW row \in {"none"} \cup Pending,
           Enter(p, place, e, row)
    PROVE  /\ calls' \in 0..MaxCalls
           /\ \E c \in CallType : /\ call' = [call EXCEPT ![p] = c]
                                  /\ c.at = place /\ c.event = e /\ c.todo = {}
<1> DEFINE c == [Idle EXCEPT !.at = place, !.event = e, !.row = row, !.now = LocalNow(HostOf[p])]
<1>1. LocalNow(HostOf[p]) \in Int
  BY Facts DEF IInv, TypeOK, LocalNow
<1>2. c \in CallType /\ c.at = place /\ c.event = e /\ c.todo = {}
  BY <1>1 DEF Idle, CallType
<1>3. calls' \in 0..MaxCalls
  BY AdvisoryAssumption DEF IInv, TypeOK, Enter
<1>4. call' = [call EXCEPT ![p] = c]
  BY DEF Enter
<1> HIDE DEF c
<1> QED
  BY <1>2, <1>3, <1>4

\* An operation id is minted once, and a valid write is within its horizon.
LEMMA IssueFacts ==
    ASSUME IInv, NEW p \in Procs, NEW e \in Event,
           issued' = [issued EXCEPT ![e.op] = IssueTime(e, HostOf[p])],
           ValidWrite(e, IssueTime(e, HostOf[p]), LocalNow(HostOf[p])),
           e.op \in Legacy \/ IssueTime(e, HostOf[p]) # 0 \/ e.kind = "claim"
    PROVE  Kept /\ Minted(e)'
<1> DEFINE i == IssueTime(e, HostOf[p])
           n == LocalNow(HostOf[p])
<1>0. /\ issued \in [Ops -> Int] /\ \A o \in Ops : issued[o] >= 0
      /\ e.op \in Ops /\ e.exp \in Nat /\ e.kind \in {"claim", "renew", "release"}
      /\ e.kind = "release" => e.exp = 0
  BY EventFacts DEF IInv, TypeOK, Writing, Event
<1>1. n \in Int /\ n >= 1
  BY Facts DEF IInv, TypeOK, Writing, LocalNow
<1>2. /\ i \in Int /\ i >= 0
      /\ issued[e.op] # 0 \/ e.op \in Legacy => i = issued[e.op]
      /\ e.kind = "claim" /\ e.op \notin Legacy => i # 0
  BY <1>0, <1>1 DEF IssueTime
<1>3. e.op \notin Legacy /\ e.kind # "release" => e.exp <= i + Horizon
  BY DEF ValidWrite
<1> HIDE DEF i, n
<1>4. issued' = [issued EXCEPT ![e.op] = i]
  BY DEF i
<1>5. e.op \in Legacy \/ i # 0
  BY <1>2 DEF i
<1>6. Kept
  BY <1>0, <1>2, <1>4 DEF Kept
<1>7. Minted(e)'
  <2>1. issued'[e.op] = i
    BY <1>0, <1>4
  <2>2. e.op \notin Legacy => e.exp <= i + Horizon
    BY <1>0, <1>2, <1>3, Facts
  <2> QED
    BY <1>5, <2>1, <2>2 DEF Minted
<1> QED
  BY <1>6, <1>7

LEMMA BeginWriteInv ==
    ASSUME IInv, NEW p \in Procs, NEW e \in Event, BeginWrite(p, e)
    PROVE  IInv'
<1>0. TypeOK /\ Holding
  BY DEF IInv
<1>1. Kept /\ Minted(e)'
  BY IssueFacts DEF BeginWrite
<1>2. /\ calls' \in 0..MaxCalls
      /\ \E c \in CallType : /\ call' = [call EXCEPT ![p] = c]
                             /\ c.at = "scan" /\ c.event = e /\ c.todo = {}
  BY EnterFacts DEF BeginWrite
<1>3. PICK c \in CallType : /\ call' = [call EXCEPT ![p] = c]
                            /\ c.at = "scan" /\ c.event = e /\ c.todo = {}
  BY <1>2
<1>4. /\ UNCHANGED <<clock, props, late, lates, ledger, released>>
      /\ \/ /\ e.kind = "release" /\ ended' = ended \cup {e.op}
            /\ until' = [until EXCEPT ![e.op] = 0]
         \/ e.kind # "release" /\ UNCHANGED <<ended, until>>
  BY DEF BeginWrite
<1>5. /\ until' \in [Ops -> Expiries \cup {0}] /\ ended \subseteq ended' /\ ended' \subseteq Ops
      /\ \A o \in Ops : until'[o] \in {until[o], 0}
      /\ \A o \in ended' : until'[o] = 0
      /\ e.kind = "release" => e.op \in ended'
  BY <1>0, <1>4, EventFacts DEF TypeOK, Holding
<1>6. Proper(c.event)'
  BY <1>1, <1>3, <1>5 DEF Proper
<1>7. /\ ledger' \in [Ops -> [state : Rows, exp : Expiries \cup {0}]]
      /\ \A o \in Ops : RowOK(o)'
  BY <1>1, <1>4, RowFacts
<1>8. /\ lates' \in 0..MaxLate /\ late' \subseteq Event
      /\ \A f \in late' : /\ Written(f)
                          /\ f.kind = "renew" /\ f.op \in Legacy => Leads(f.op)
  BY <1>4, LateFacts
<1>9. c.at \notin During /\ c.at # "put" /\ \A f \in c.todo : Buried(f.op)
  BY <1>3 DEF During
<1> QED
  BY <1>1, <1>2, <1>3, <1>4, <1>5, <1>6, <1>7, <1>8, <1>9, QuietInv

\* A call that only asks, or admits a claim to the ledger.
LEMMA AskInv ==
    ASSUME IInv, NEW p \in Procs, NEW c \in CallType, call' = [call EXCEPT ![p] = c],
           c.at \in {"status", "replay"}, c.at = "replay" => Proper(c.event)', c.todo = {},
           calls' \in 0..MaxCalls, Kept,
           ledger' \in [Ops -> [state : Rows, exp : Expiries \cup {0}]],
           \A o \in Ops : RowOK(o)',
           UNCHANGED <<clock, props, late, lates, until, ended, released>>
    PROVE  IInv'
<1>1. /\ until' \in [Ops -> Expiries \cup {0}] /\ ended \subseteq ended' /\ ended' \subseteq Ops
      /\ \A o \in Ops : until'[o] \in {until[o], 0}
      /\ \A o \in ended' : until'[o] = 0
  BY DEF IInv, TypeOK, Holding
<1>2. /\ lates' \in 0..MaxLate /\ late' \subseteq Event
      /\ \A f \in late' : /\ Written(f)
                          /\ f.kind = "renew" /\ f.op \in Legacy => Leads(f.op)
  BY LateFacts
<1>3. /\ c.at \notin During /\ c.at # "put" /\ \A f \in c.todo : Buried(f.op)
      /\ c.at \in Before \cup During => Proper(c.event)'
  BY DEF Before, During
<1> QED
  BY <1>1, <1>2, <1>3, QuietInv

LEMMA AdmitInv ==
    ASSUME IInv, NEW p \in Procs, NEW e \in Event, Admit(p, e)
    PROVE  IInv'
<1>0. ledger \in [Ops -> [state : Rows, exp : Expiries \cup {0}]] /\ e.kind = "claim"
  BY DEF IInv, TypeOK, Admit
<1>1. Kept /\ Minted(e)'
  BY <1>0, IssueFacts DEF Admit
<1>2. /\ calls' \in 0..MaxCalls
      /\ \E c \in CallType : /\ call' = [call EXCEPT ![p] = c]
                             /\ c.at = "status" /\ c.event = e /\ c.todo = {}
  BY EnterFacts DEF Admit
<1>3. CASE ledger' = ledger
  <2>1. /\ ledger' \in [Ops -> [state : Rows, exp : Expiries \cup {0}]]
        /\ \A o \in Ops : RowOK(o)'
    BY <1>1, <1>3, RowFacts
  <2> QED
    BY <1>1, <1>2, <2>1, AskInv DEF Admit
<1>4. CASE ledger' = [ledger EXCEPT ![e.op] = [state |-> "queued", exp |-> e.exp]]
  <2>1. e.exp \in Expiries \cup {0} /\ e.op \in Ops
    BY <1>0 DEF Event
  <2>2. [state |-> "queued", exp |-> e.exp] \in [state : Rows, exp : Expiries \cup {0}]
    BY <2>1 DEF Rows, Pending
  <2>3. ledger' \in [Ops -> [state : Rows, exp : Expiries \cup {0}]]
    BY <1>0, <1>4, <2>2
  <2>4. ASSUME NEW o \in Ops PROVE RowOK(o)'
    <3>1. CASE o = e.op
      <4>1. ledger'[o].exp = e.exp
        BY <1>0, <1>4, <3>1
      <4> QED
        BY <1>1, <3>1, <4>1 DEF RowOK, Minted
    <3>2. CASE o # e.op
      <4>1. ledger'[o] = ledger[o] /\ RowOK(o)
        BY <1>0, <1>4, <3>2 DEF IInv, Writing
      <4> QED
        BY <1>1, <4>1 DEF RowOK, Minted, Kept
    <3> QED
      BY <3>1, <3>2
  <2> QED
    BY <1>1, <1>2, <2>3, <2>4, AskInv DEF Admit
<1> QED
  BY <1>3, <1>4 DEF Admit

LEMMA BeginStatusInv ==
    ASSUME IInv, NEW p \in Procs, NEW o \in Ops, BeginStatus(p, o)
    PROVE  IInv'
<1>0. ledger \in [Ops -> [state : Rows, exp : Expiries \cup {0}]] /\ RowOK(o)
  BY DEF IInv, TypeOK, Writing
<1>a. [op |-> o, kind |-> "claim", exp |-> ledger[o].exp] \in Event
  BY <1>0 DEF Event
<1>1. PICK claim \in Event : claim = [op |-> o, kind |-> "claim", exp |-> ledger[o].exp]
  BY <1>a
<1>2. Kept /\ UNCHANGED <<clock, props, late, lates, ledger, until, ended, released>>
  BY KeptUnchanged DEF BeginStatus
<1>3. \/ Enter(p, "status", claim, "none")
      \/ ledger[o].state \in Pending /\ Enter(p, "replay", claim, ledger[o].state)
  BY <1>1 DEF BeginStatus, Unresolved
<1>4. ledger[o].state \in Pending => Proper(claim)
  BY <1>0, <1>1 DEF RowOK, Proper, Pending
<1>5. ledger[o].state \in Pending => Proper(claim)'
  <2>1. clock' \in Int /\ clock' >= clock /\ ended \subseteq ended'
    BY <1>2 DEF IInv, TypeOK
  <2> QED
    BY <1>1, <1>2, <1>4, <2>1, KeptFacts
<1>6. /\ calls' \in 0..MaxCalls
      /\ \E c \in CallType : /\ call' = [call EXCEPT ![p] = c]
                             /\ \/ c.at = "status"
                                \/ c.at = "replay" /\ ledger[o].state \in Pending
                             /\ c.event = claim /\ c.todo = {}
  <2>1. CASE Enter(p, "status", claim, "none")
    BY <2>1, EnterFacts
  <2>2. CASE ledger[o].state \in Pending /\ Enter(p, "replay", claim, ledger[o].state)
    <3>1. PICK row \in {"none"} \cup Pending : Enter(p, "replay", claim, row)
      BY <2>2
    <3>2. /\ calls' \in 0..MaxCalls
          /\ \E c \in CallType : /\ call' = [call EXCEPT ![p] = c]
                                 /\ c.at = "replay" /\ c.event = claim /\ c.todo = {}
      BY <3>1, EnterFacts
    <3> QED
      BY <2>2, <3>2
  <2> QED
    BY <1>3, <2>1, <2>2
<1>7. PICK c \in CallType : /\ call' = [call EXCEPT ![p] = c]
                            /\ \/ c.at = "status"
                               \/ c.at = "replay" /\ ledger[o].state \in Pending
                            /\ c.event = claim /\ c.todo = {}
  BY <1>6
<1>8. /\ ledger' \in [Ops -> [state : Rows, exp : Expiries \cup {0}]]
      /\ \A q \in Ops : RowOK(q)'
  BY <1>2, RowFacts
<1>9. c.at \in {"status", "replay"} /\ (c.at = "replay" => Proper(c.event)')
  BY <1>5, <1>7
<1> QED
  BY <1>2, <1>6, <1>7, <1>8, <1>9, AskInv

-----------------------------------------------------------------------------
(* The steps that change the properties, the answers and the clock.        *)

\* A PUT reaches Jira.
LEMMA StoreInv ==
    ASSUME IInv, NEW e \in Event, Written(e), Store(e),
           e.kind = "renew" /\ e.op \in Legacy => Leads(e.op),
           UNCHANGED <<clock, lates, calls, issued, ledger, until, ended>>,
           call' \in [Procs -> CallType], \A p \in Procs : CallOK(p)',
           late' \subseteq late, \A o \in Legacy : Renewing(o)' => Renewing(o)
    PROVE  IInv'
<1>0. TypeOK /\ Writing /\ Gone /\ Holding /\ HeldByOne
  BY DEF IInv
<1>1. /\ props' = props \cup {e}
      /\ released' = IF e.kind = "release" THEN released \cup {e.op} ELSE released
      /\ e.op \in Ops /\ e.kind \in {"claim", "renew", "release"}
  BY EventFacts DEF Store
<1>2. /\ \A q, k : ~(q = e.op /\ k = e.kind) => Of(props', q, k) = Of(props, q, k)
      /\ \A q, k : Of(props, q, k) \subseteq Of(props', q, k)
      /\ e \in Of(props', e.op, e.kind)
  BY <1>1 DEF Of
<1>3. TypeOK'
  BY <1>0, <1>1 DEF TypeOK
<1>4. Writing'
  <2>1. IsFiniteSet(props')
    BY <1>0, <1>1, FS_AddElement DEF Writing
  <2>2. Kept /\ clock' \in Int /\ clock' >= clock /\ ended \subseteq ended'
    BY <1>0, KeptUnchanged DEF TypeOK
  <2>3. \A f \in props' : Minted(f)
    BY <1>0, <1>1 DEF Writing, Written, Proper
  <2>4. props' \subseteq Event
    BY <1>3 DEF TypeOK
  <2>5. \A f \in props' : Minted(f)'
    BY <2>2, <2>3, <2>4, KeptFacts
  <2>6. \A f \in late' : Written(f)'
    BY <1>0, <2>2, KeptFacts DEF Writing, TypeOK
  <2>7. \A o \in Ops : issued'[o] >= 0 /\ RowOK(o)'
    BY <1>0 DEF Writing, RowOK, Minted
  <2>8. clock' > Skew
    BY <1>0 DEF Writing
  <2> QED
    BY <2>1, <2>5, <2>6, <2>7, <2>8 DEF Writing
<1>5. Gone'
  <2> SUFFICES ASSUME NEW o \in released', ~Buried(o)' PROVE Of(props', o, "release") # {}
    BY DEF Gone
  <2>1. CASE o \in released
    <3>1. ~Buried(o)
      BY DEF Buried
    <3> QED
      BY <1>0, <1>2, <2>1, <3>1 DEF Gone
  <2>2. CASE o \notin released
    BY <1>1, <1>2, <2>2
  <2> QED
    BY <2>1, <2>2
<1>6. ASSUME NEW o \in Ops, until'[o] + Skew > clock'
      PROVE  Told(o)'
  <2>1. Told(o) /\ o \notin ended
    <3>1. until[o] # 0
      BY <1>0, <1>6, Facts DEF Writing, TypeOK
    <3> QED
      BY <1>0, <1>6, <3>1 DEF Holding
  <2>2. ~(e.op = o /\ e.kind = "release")
    BY <2>1 DEF Written, Proper
  <2>3. Of(props', o, "claim") # {} /\ Of(props', o, "release") = {}
    BY <1>2, <2>1, <2>2 DEF Told, Standing
  <2>4. \E f \in props' : f.op = o /\ f.exp = until'[o]
    BY <1>1, <2>1 DEF Told
  <2> QED
    BY <2>3, <2>4 DEF Told, Standing
<1>7. ASSUME NEW o \in Legacy, Leads(o)
      PROVE  Leads(o)'
  <2> SUFFICES ASSUME NEW q \in Legacy \ {o}, Standing(o)', Standing(q)'
               PROVE  Expiry(props', q) < Expiry(props', o)
    BY DEF Leads
  <2>0. e.kind = "claim" => e.op # o /\ e.op # q
    BY DEF Written
  <2>1. /\ Of(props', o, "claim") = Of(props, o, "claim")
        /\ Of(props', q, "claim") = Of(props, q, "claim")
    BY <1>2, <2>0
  <2>2. Standing(o) /\ Standing(q)
    BY <1>2, <2>1 DEF Standing
  <2>3. Expiry(props, q) < Expiry(props, o)
    BY <1>7, <2>2 DEF Leads
  <2>4. ~(e.op = q /\ e.kind = "renew")
    <3> SUFFICES ASSUME e.op = q, e.kind = "renew" PROVE FALSE
      OBVIOUS
    <3>1. Expiry(props, o) < Expiry(props, q)
      BY <2>2 DEF Leads
    <3>2. Expiry(props, o) \in 0..MaxExpiry /\ Expiry(props, q) \in 0..MaxExpiry
      BY <1>0, <2>2, ExpiryFacts DEF TypeOK, Standing
    <3> QED
      BY <2>3, <3>1, <3>2, Facts
  <2>5. Expiry(props', q) = Expiry(props, q)
    BY <1>2, <2>1, <2>4, ExpiryOf
  <2>6. Expiry(props, o) <= Expiry(props', o)
    <3>1. props \in SUBSET Event /\ props' \in SUBSET Event
      BY <1>0, <1>3 DEF TypeOK
    <3> QED
      BY <1>2, <2>1, <2>2, <3>1, ExpiryGrows DEF Standing
  <2>7. /\ Expiry(props, o) \in 0..MaxExpiry /\ Expiry(props, q) \in 0..MaxExpiry
        /\ Expiry(props', o) \in 0..MaxExpiry
    BY <1>0, <1>3, <2>1, <2>2, ExpiryFacts DEF TypeOK, Standing
  <2> QED
    BY <2>3, <2>5, <2>6, <2>7, Facts
<1>8. Holding'
  <2>1. \A o \in ended' : until'[o] = 0
    BY <1>0 DEF Holding
  <2>2. ASSUME NEW o \in Legacy, until'[o] # 0 \/ Renewing(o)' PROVE Leads(o)'
    BY <1>0, <1>7, <2>2 DEF Holding
  <2> QED
    BY <1>6, <2>1, <2>2 DEF Holding
<1>9. HeldByOne'
  BY <1>0 DEF HeldByOne
<1> QED
  BY <1>3, <1>4, <1>5, <1>8, <1>9 DEF IInv

LEMMA PutInv ==
    ASSUME IInv, NEW p \in Procs, Put(p)
    PROVE  IInv'
<1>0. TypeOK /\ Writing /\ Holding /\ call[p].at = "put" /\ CallOK(p) /\ call[p] \in CallType
  BY DEF IInv, TypeOK, Writing, Put
<1>1. PICK e \in Event : e = call[p].event /\ Written(e)
  BY <1>0 DEF CallOK, During, Written, Proper
<1>2. e.kind = "renew" /\ e.op \in Legacy => Leads(e.op)
  BY <1>0, <1>1 DEF Holding, Renewing
<1> DEFINE c == [call[p] EXCEPT !.at = "verify"]
<1>3. c \in CallType /\ c.at = "verify" /\ c.event = e /\ c.todo = call[p].todo
  BY <1>0, <1>1 DEF CallType
<1>4. call' = [call EXCEPT ![p] = c]
  BY <1>0 DEF Put, Stay, Goto, TypeOK
<1>5. UNCHANGED <<clock, late, lates, calls, issued, ledger, until, ended>> /\ Store(e)
  BY <1>1 DEF Put, Stay
<1> HIDE DEF c
<1>6. call' \in [Procs -> CallType]
  BY <1>0, <1>3, <1>4 DEF TypeOK
<1>7. ASSUME NEW q \in Procs PROVE CallOK(q)'
  <2>1. \A f : (Proper(f)' <=> Proper(f)) /\ (Written(f)' <=> Written(f))
    BY <1>5 DEF Proper, Written, Minted
  <2>2. \A o : Buried(o)' <=> Buried(o)
    BY <1>5 DEF Buried
  <2>3. CASE q = p
    <3>1. call'[q] = c
      BY <1>0, <1>4, <2>3 DEF TypeOK
    <3>2. Proper(e)
      BY <1>1 DEF Written
    <3> QED
      BY <1>0, <1>1, <1>3, <2>1, <2>2, <3>1, <3>2 DEF CallOK
  <2>4. CASE q # p
    <3>1. call'[q] = call[q] /\ CallOK(q)
      BY <1>0, <1>4, <2>4 DEF TypeOK, Writing
    <3> QED
      BY <2>1, <2>2, <3>1 DEF CallOK
  <2> QED
    BY <2>3, <2>4
<1>8. \A o \in Legacy : Renewing(o)' => Renewing(o)
  BY <1>0, <1>3, <1>4, <1>5 DEF Renewing, TypeOK
<1> QED
  BY <1>1, <1>2, <1>5, <1>6, <1>7, <1>8, StoreInv

LEMMA LandInv ==
    ASSUME IInv, NEW e \in late, Land(e)
    PROVE  IInv'
<1>0. TypeOK /\ Writing
  BY DEF IInv
<1>1. /\ e \in Event /\ Written(e)
      /\ e.kind = "renew" /\ e.op \in Legacy => Leads(e.op)
  BY LateFacts
<1>2. /\ UNCHANGED <<clock, lates, calls, issued, call, ledger, until, ended>>
      /\ late' \subseteq late /\ Store(e)
  BY DEF Land
<1>3. call' \in [Procs -> CallType]
  BY <1>0, <1>2 DEF TypeOK
<1>4. \A p \in Procs : CallOK(p)'
  BY <1>0, <1>2 DEF Writing, CallOK, Proper, Written, Minted, Buried
<1>5. \A o \in Legacy : Renewing(o)' => Renewing(o)
  BY <1>2 DEF Renewing
<1> QED
  BY <1>1, <1>2, <1>3, <1>4, <1>5, StoreInv

\* A DELETE: its event is one that no reader counts.
LEMMA PruneInv ==
    ASSUME IInv, NEW p \in Procs, NEW e \in call[p].todo, Prune(p, e)
    PROVE  IInv'
<1>0. /\ TypeOK /\ Writing /\ Gone /\ Holding /\ HeldByOne /\ WriteUnchanged
      /\ call[p].at = "prune" /\ CallOK(p) /\ call[p] \in CallType
  BY DEF IInv, TypeOK, Writing, Prune
<1>1. CASE Leave(p) /\ UNCHANGED props
  <2>1. "none" \in Rows
    BY DEF Rows
  <2> QED
    BY <1>0, <1>1, <2>1, EndsFacts, EndInv, LateFacts DEF WriteUnchanged
<1>2. CASE /\ props' = props \ {e} /\ UNCHANGED ledger
           /\ call' = [call EXCEPT ![p].todo = @ \ {e},
                                   ![p].at = IF call[p].todo = {e} THEN "rescan" ELSE "prune"]
  <2> DEFINE c == [call[p] EXCEPT !.todo = @ \ {e},
                                  !.at = IF call[p].todo = {e} THEN "rescan" ELSE "prune"]
  <2>1. /\ c \in CallType /\ c.at \in {"rescan", "prune"} /\ c.event = call[p].event
        /\ c.todo \subseteq call[p].todo
    BY <1>0 DEF CallType
  <2>2. call' = [call EXCEPT ![p] = c]
    BY <1>0, <1>2 DEF TypeOK
  <2> HIDE DEF c
  <2>3. UNCHANGED <<clock, late, lates, calls, issued, ledger, until, ended, released>>
    BY <1>0, <1>2 DEF WriteUnchanged
  <2>4. e \in Event /\ e.op \in Ops /\ Buried(e.op)
    BY <1>0, EventFacts DEF CallOK, CallType
  <2>5. \A o, k : o # e.op => Of(props', o, k) = Of(props, o, k)
    BY <1>2 DEF Of
  <2>6. TypeOK'
    BY <1>0, <1>2, <2>1, <2>2, <2>3 DEF TypeOK
  <2>7. Writing'
    <3>1. /\ \A f : /\ Proper(f)' <=> Proper(f)
                    /\ Written(f)' <=> Written(f)
                    /\ Minted(f)' <=> Minted(f)
          /\ \A o : /\ Buried(o)' <=> Buried(o)
                    /\ RowOK(o)' <=> RowOK(o)
      BY <2>3 DEF Proper, Written, Minted, Buried, RowOK
    <3>2. IsFiniteSet(props')
      BY <1>0, <1>2, FS_RemoveElement DEF Writing
    <3>3. ASSUME NEW q \in Procs PROVE CallOK(q)'
      <4>1. CASE q = p
        <5>1. call'[q] = c
          BY <1>0, <2>2, <4>1 DEF TypeOK
        <5>2. Proper(call[p].event) /\ Written(call[p].event)
          BY <1>0 DEF CallOK, During
        <5> QED
          BY <1>0, <2>1, <3>1, <5>1, <5>2 DEF CallOK
      <4>2. CASE q # p
        <5>1. call'[q] = call[q] /\ CallOK(q)
          BY <1>0, <2>2, <4>2 DEF TypeOK, Writing
        <5> QED
          BY <3>1, <5>1 DEF CallOK
      <4> QED
        BY <4>1, <4>2
    <3> QED
      BY <1>0, <1>2, <2>3, <3>1, <3>2, <3>3 DEF Writing
  <2>8. Gone'
    <3> SUFFICES ASSUME NEW o \in released', ~Buried(o)' PROVE Of(props', o, "release") # {}
      BY DEF Gone
    <3>1. ~Buried(o) /\ o \in released
      BY <2>3 DEF Buried
    <3> QED
      BY <1>0, <2>4, <2>5, <3>1 DEF Gone
  <2>9. Holding'
    <3>1. ASSUME NEW o \in Ops, until'[o] + Skew > clock' PROVE Told(o)'
      <4>1. Told(o)
        BY <1>0, <2>3, <3>1 DEF Holding
      <4>2. PICK f \in props : f.op = o /\ f.exp = until[o]
        BY <4>1 DEF Told
      <4>3. o # e.op
        <5> SUFFICES ASSUME o = e.op PROVE FALSE
          OBVIOUS
        <5>1. /\ until[o] <= issued[o] + Horizon /\ clock >= issued[o] + Horizon + 2 * Skew
          BY <1>0, <2>4, <4>2 DEF Writing, Minted, Buried
        <5>2. until[o] \in Nat /\ issued[o] \in Int /\ clock \in Int
          BY <1>0 DEF TypeOK, Expiries
        <5> QED
          BY <2>3, <3>1, <5>1, <5>2, Facts
      <4>4. Of(props', o, "claim") # {} /\ Of(props', o, "release") = {}
        BY <2>5, <4>1, <4>3 DEF Told, Standing
      <4>5. f \in props' /\ f.exp = until'[o]
        BY <1>2, <2>3, <4>2, <4>3
      <4> QED
        BY <4>2, <4>4, <4>5 DEF Told, Standing
    <3>2. ASSUME NEW o \in Legacy, Leads(o) PROVE Leads(o)'
      <4> SUFFICES ASSUME NEW q \in Legacy \ {o}, Standing(o)', Standing(q)'
                   PROVE  Expiry(props', q) < Expiry(props', o)
        BY DEF Leads
      <4>1. o # e.op /\ q # e.op
        BY <2>4 DEF Buried
      <4>2. Standing(o) /\ Standing(q)
        BY <2>5, <4>1 DEF Standing
      <4>3. Expiry(props', q) = Expiry(props, q) /\ Expiry(props', o) = Expiry(props, o)
        BY <2>5, <4>1, ExpiryOf
      <4> QED
        BY <3>2, <4>2, <4>3 DEF Leads
    <3>3. \A o \in Legacy : Renewing(o)' => Renewing(o)
      BY <1>0, <2>1, <2>2, <2>3 DEF Renewing, TypeOK
    <3>4. \A o \in ended' : until'[o] = 0
      BY <1>0, <2>3 DEF Holding
    <3>5. ASSUME NEW o \in Legacy, until'[o] # 0 \/ Renewing(o)' PROVE Leads(o)'
      BY <1>0, <2>3, <3>2, <3>3, <3>5 DEF Holding
    <3> QED
      BY <3>1, <3>4, <3>5 DEF Holding
  <2>10. HeldByOne'
    BY <1>0, <2>3 DEF HeldByOne
  <2> QED
    BY <2>6, <2>7, <2>8, <2>9, <2>10 DEF IInv
<1> QED
  BY <1>1, <1>2 DEF Prune

\* Whoever was told to hold the ticket, and may still count on it, is in every
\* reading without conflict that finds another one.
LEMMA HolderLive ==
    ASSUME IInv, NEW t \in Int, NEW o \in Ops, NEW q \in Ops, o # q,
           ~Conflicted(props, t), o \in Live(props, t),
           until[q] + Skew > clock, Fenced => t <= clock
    PROVE  FALSE
<1>0. /\ props \in SUBSET Event /\ IsFiniteSet(props) /\ issued \in [Ops -> Int]
      /\ Writing /\ Holding /\ until[q] \in Nat /\ clock \in Int /\ clock > Skew
  BY DEF IInv, TypeOK, Writing, Expiries
<1>1. Told(q) /\ Standing(q)
  BY <1>0 DEF Holding, Told
<1>2. Standing(o) /\ Expiry(props, o) + Skew > t
  BY <1>0, LiveFacts DEF Standing
<1>3. Expiry(props, o) \in 0..MaxExpiry /\ Expiry(props, q) \in 0..MaxExpiry
  BY <1>0, <1>1, <1>2, ExpiryFacts DEF Standing
<1>4. Counted(q, t) /\ Expiry(props, q) + Skew > t
  <2>1. CASE Fenced
    <3>1. PICK g \in props : g.op = q /\ g.exp = until[q]
      BY <1>1 DEF Told
    <3>2. PICK f \in Of(props, q, "claim") : TRUE
      BY <1>1 DEF Standing
    <3>3. Counted(q, t)
      <4> SUFFICES ASSUME q \notin Legacy
                   PROVE  issued[q] <= t + Skew /\ t < issued[q] + Horizon + Skew
        BY DEF Counted
      <4>1. ~(issued[q] > t + Skew)
        BY <1>0, <3>2, Alone DEF Of, Ahead
      <4>2. until[q] <= issued[q] + Horizon
        BY <1>0, <3>1 DEF Writing, Minted
      <4> QED
        BY <1>0, <2>1, <4>1, <4>2, Facts
    <3>4. until[q] <= Expiry(props, q)
      <4>1. g.kind \in {"claim", "renew"}
        BY <1>0, <1>1, <3>1, EventFacts DEF Standing, Of
      <4>2. CASE g.kind = "renew"
        <5>1. g \in Of(props, q, "renew")
          BY <3>1, <4>2 DEF Of
        <5> QED
          BY <1>0, <1>1, <3>1, <5>1, ExpiryFacts DEF Standing
      <4>3. CASE g.kind = "claim"
        <5>1. g \in Of(props, q, "claim")
          BY <3>1, <4>3 DEF Of
        <5>2. PICK c \in Of(props, q, "claim") : c.exp <= Expiry(props, q)
          BY <1>0, <1>1, ExpiryFacts DEF Standing
        <5>3. g = c
          BY <1>0, <3>3, <5>1, <5>2, Alone
        <5> QED
          BY <3>1, <5>2, <5>3
      <4> QED
        BY <4>1, <4>2, <4>3
    <3> QED
      BY <1>0, <1>3, <2>1, <3>3, <3>4, Facts
  <2>2. CASE ~Fenced
    <3>1. q \in Legacy /\ o \in Legacy
      BY <1>1, <1>2, <2>2 DEF Standing, Of, Fenced
    <3>2. until[q] # 0
      BY <1>0, Facts
    <3>3. Expiry(props, o) < Expiry(props, q)
      BY <1>0, <1>1, <1>2, <3>1, <3>2 DEF Holding, Leads
    <3> QED
      BY <1>2, <1>3, <3>1, <3>3, Facts DEF Counted
  <2> QED
    BY <2>1, <2>2
<1>5. q \in Live(props, t)
  BY <1>0, <1>1, <1>4, LiveFacts DEF Standing
<1> QED
  BY <1>0, <1>5, Alone

\* The status: a worker is told that it holds the ticket.
LEMMA StatusInv ==
    ASSUME IInv, NEW p \in Procs, Status(p)
    PROVE  IInv'
<1>a. PICK o : o = call[p].event.op
  OBVIOUS
<1> DEFINE now == IF call[p].row # "none" /\ p \in Servers THEN LocalNow(HostOf[p])
                  ELSE call[p].now
           t == ProviderNow(now, Fenced)
<1>0. /\ TypeOK /\ Writing /\ Gone /\ Holding /\ HeldByOne /\ call[p] \in CallType
      /\ call' = [call EXCEPT ![p] = Idle]
      /\ UNCHANGED <<clock, props, late, lates, calls, issued, ledger, ended, released>>
  BY DEF IInv, TypeOK, Status
<1>1. CASE until' = until
  <2>1. Ends(p)
    BY <1>0 DEF Ends
  <2> QED
    BY <1>0, <1>1, <2>1, EndInv, LateFacts
<1>2. CASE /\ ~Conflicted(props, t) /\ o \in Live(props, t) \ ended
           /\ until' = [until EXCEPT ![o] = Expiry(props, o)]
  <2>1. clock \in Int /\ now \in Int
    <3>1. LocalNow(HostOf[p]) \in Int /\ call[p].now \in Int /\ clock \in Int
      BY <1>0, Facts DEF LocalNow, TypeOK, CallType
    <3> QED
      BY <3>1
  <2>2. t \in Int /\ (Fenced => t <= clock)
    <3> HIDE DEF now
    <3> QED
      BY <2>1, NowFacts
  <2>3. o \in Ops /\ o \notin ended /\ o \in Live(props, t)
    BY <1>2 DEF Live
  <2> HIDE DEF t, now
  <2>4. /\ props \in SUBSET Event /\ IsFiniteSet(props) /\ issued \in [Ops -> Int]
        /\ until \in [Ops -> Expiries \cup {0}] /\ call \in [Procs -> CallType]
    BY <1>0 DEF TypeOK, Writing
  <2>5. Standing(o)
    BY <2>2, <2>3, <2>4, LiveFacts DEF Standing
  <2>6. /\ Expiry(props, o) \in 0..MaxExpiry
        /\ \E e \in props : e.op = o /\ e.exp = Expiry(props, o)
    BY <2>4, <2>5, ExpiryFacts DEF Standing
  <2>7. /\ until' \in [Ops -> Expiries \cup {0}] /\ until'[o] = Expiry(props, o)
        /\ \A q \in Ops : q # o => until'[q] = until[q]
    <3>1. Expiry(props, o) \in Expiries \cup {0}
      BY <2>6, Facts DEF Expiries
    <3> QED
      BY <1>2, <2>3, <2>4, <3>1
  <2>8. TypeOK'
    BY <1>0, <2>7, IdleFacts DEF TypeOK
  <2>9. Writing'
    <3>1. /\ \A f : /\ Proper(f)' <=> Proper(f)
                    /\ Written(f)' <=> Written(f)
                    /\ Minted(f)' <=> Minted(f)
          /\ \A q : /\ Buried(q)' <=> Buried(q)
                    /\ RowOK(q)' <=> RowOK(q)
      BY <1>0 DEF Proper, Written, Minted, Buried, RowOK
    <3>2. ASSUME NEW q \in Procs PROVE CallOK(q)'
      <4>1. CASE q = p
        <5>1. call'[q] = Idle
          BY <1>0, <2>4, <4>1
        <5> QED
          BY <5>1, IdleFacts DEF CallOK, Before, During
      <4>2. CASE q # p
        <5>1. call'[q] = call[q] /\ CallOK(q)
          BY <1>0, <2>4, <4>2 DEF Writing
        <5> QED
          BY <3>1, <5>1 DEF CallOK
      <4> QED
        BY <4>1, <4>2
    <3> QED
      BY <1>0, <3>1, <3>2 DEF Writing
  <2>10. Gone'
    BY <1>0, PropsFacts DEF Gone, Buried
  <2>11. Holding'
    <3>1. \A q \in ended' : until'[q] = 0
      BY <1>0, <2>3, <2>7 DEF Holding, TypeOK
    <3>2. ASSUME NEW q \in Ops, until'[q] + Skew > clock' PROVE Told(q)'
      <4>1. CASE q = o
        <5>1. Standing(o)'
          BY <1>0, <2>5, PropsFacts
        <5>2. \E e \in props' : e.op = o /\ e.exp = until'[o]
          BY <1>0, <2>6, <2>7
        <5> QED
          BY <4>1, <5>1, <5>2 DEF Told
      <4>2. CASE q # o
        <5>1. Told(q) /\ until'[q] = until[q]
          BY <1>0, <2>7, <3>2, <4>2 DEF Holding
        <5>2. Standing(q)'
          BY <1>0, <5>1, PropsFacts DEF Told
        <5>3. \E e \in props' : e.op = q /\ e.exp = until'[q]
          BY <1>0, <5>1 DEF Told
        <5> QED
          BY <5>2, <5>3 DEF Told
      <4> QED
        BY <4>1, <4>2
    <3>3. ASSUME NEW q \in Legacy, until'[q] # 0 \/ Renewing(q)' PROVE Leads(q)'
      <4>1. Leads(q)
        <5>1. Renewing(q)' => Renewing(q)
          BY <1>0, <2>4, IdleFacts DEF Renewing
        <5>2. CASE q = o
          BY <1>2, <2>2, <2>3, <5>2, LeadsFacts
        <5>3. CASE q # o
          BY <1>0, <2>7, <3>3, <5>1, <5>3, Facts DEF Holding
        <5> QED
          BY <5>2, <5>3
      <4> QED
        BY <1>0, <4>1, PropsFacts
    <3> QED
      BY <3>1, <3>2, <3>3 DEF Holding
  <2>12. HeldByOne'
    <3>1. \A q \in Ops : q # o => ~(until[q] + Skew > clock)
      BY <1>2, <2>2, <2>3, HolderLive
    <3> QED
      BY <1>0, <2>7, <3>1 DEF HeldByOne
  <2> QED
    BY <2>8, <2>9, <2>10, <2>11, <2>12 DEF IInv
<1> QED
  BY <1>a, <1>1, <1>2 DEF Status

LEMMA TickInv ==
    ASSUME IInv, Tick
    PROVE  IInv'
<1>0. /\ TypeOK /\ Writing /\ Gone /\ Holding /\ HeldByOne
      /\ clock' = clock + 1 /\ clock' \in 0..MaxTime
      /\ UNCHANGED <<props, late, lates, calls, issued, call, ledger, until, ended, released>>
  BY Facts DEF IInv, TypeOK, Tick
<1>1. clock \in Int /\ clock' \in Int /\ clock' >= clock
  BY <1>0 DEF TypeOK
<1>2. TypeOK'
  BY <1>0 DEF TypeOK
<1>3. /\ \A f : /\ Proper(f)' <=> Proper(f)
                /\ Written(f)' <=> Written(f)
                /\ Minted(f)' <=> Minted(f)
      /\ \A o : RowOK(o)' <=> RowOK(o)
  BY <1>0 DEF Proper, Written, Minted, RowOK
<1>4. \A o \in Ops : Buried(o) => Buried(o)'
  BY <1>0, <1>1, KeptUnchanged, KeptFacts
<1>5. Writing'
  <2>1. ASSUME NEW q \in Procs PROVE CallOK(q)'
    <3>1. call'[q] = call[q] /\ CallOK(q) /\ call[q] \in CallType
      BY <1>0 DEF Writing, TypeOK
    <3>2. \A e \in call[q].todo : e.op \in Ops
      BY <3>1, EventFacts DEF CallType
    <3> QED
      BY <1>3, <1>4, <3>1, <3>2 DEF CallOK
  <2>2. clock' > Skew
    BY <1>0, <1>1, Facts DEF Writing
  <2> QED
    BY <1>0, <1>3, <2>1, <2>2 DEF Writing
<1>6. Gone'
  BY <1>0, <1>4, PropsFacts DEF Gone, TypeOK
<1>7. \A o \in Ops : until'[o] + Skew > clock' => until[o] + Skew > clock
  BY <1>0, <1>1, Facts DEF TypeOK, Expiries
<1>8. Holding'
  <2>1. ASSUME NEW o \in Ops, until'[o] + Skew > clock' PROVE Told(o)'
    <3>1. Told(o)
      BY <1>0, <1>7, <2>1 DEF Holding
    <3> QED
      BY <1>0, <3>1, PropsFacts DEF Told
  <2>2. ASSUME NEW o \in Legacy, until'[o] # 0 \/ Renewing(o)' PROVE Leads(o)'
    <3>1. Leads(o)
      BY <1>0, <2>2 DEF Holding, Renewing
    <3> QED
      BY <1>0, <3>1, PropsFacts
  <2>3. \A o \in ended' : until'[o] = 0
    BY <1>0 DEF Holding
  <2> QED
    BY <2>1, <2>2, <2>3 DEF Holding
<1>9. HeldByOne'
  BY <1>0, <1>7 DEF HeldByOne
<1> QED
  BY <1>2, <1>5, <1>6, <1>8, <1>9 DEF IInv

LEMMA StutterInv ==
    ASSUME IInv, UNCHANGED vars
    PROVE  IInv'
<1>0. UNCHANGED <<clock, props, late, lates, calls, issued, call, ledger, until, ended, released>>
  BY DEF vars
<1>1. TypeOK' /\ Gone' /\ HeldByOne'
  BY <1>0, PropsFacts DEF IInv, TypeOK, Gone, Buried, HeldByOne
<1>2. Writing'
  BY <1>0 DEF IInv, Writing, CallOK, Proper, Written, Minted, Buried, RowOK
<1>3. Holding'
  <2>1. \A o : (Told(o)' <=> Told(o)) /\ (Renewing(o)' <=> Renewing(o)) /\ (Leads(o)' <=> Leads(o))
    BY <1>0, PropsFacts DEF Told, Renewing
  <2> QED
    BY <1>0, <2>1 DEF IInv, Holding
<1> QED
  BY <1>1, <1>2, <1>3 DEF IInv

LEMMA StepInv == IInv /\ [Next]_vars => IInv'
<1> SUFFICES ASSUME IInv, [Next]_vars PROVE IInv'
  OBVIOUS
<1>1. ASSUME NEW p \in Procs, NEW e \in Event, BeginWrite(p, e) \/ Admit(p, e)
      PROVE  IInv'
  BY <1>1, BeginWriteInv, AdmitInv
<1>2. ASSUME NEW p \in Procs, NEW o \in Ops, BeginStatus(p, o)
      PROVE  IInv'
  BY <1>2, BeginStatusInv
<1>3. ASSUME NEW p \in Procs,
             \/ ReplayScan(p) \/ Scan(p) \/ Rescan(p) \/ Put(p) \/ Verify(p) \/ Status(p)
             \/ GiveUp(p) \/ Fail(p)
      PROVE  IInv'
  BY <1>3, ReplayScanInv, ScanInv, RescanInv, PutInv, VerifyInv, StatusInv, GiveUpInv
<1>4. ASSUME NEW p \in Procs, NEW e \in call[p].todo, Prune(p, e)
      PROVE  IInv'
  BY <1>4, PruneInv
<1>5. ASSUME NEW e \in late, Land(e)
      PROVE  IInv'
  BY <1>5, LandInv
<1>6. CASE Tick
  BY <1>6, TickInv
<1>7. CASE UNCHANGED vars
  BY <1>7, StutterInv
<1> QED
  BY <1>1, <1>2, <1>3, <1>4, <1>5, <1>6, <1>7 DEF Next

-----------------------------------------------------------------------------
(* The theorems.                                                           *)

\* The inductive invariant holds in every reachable state.
THEOREM AdvisoryInvariance == Spec => []IInv
BY InitInv, StepInv, PTL DEF Spec

\* Properties, calls, ledger and answers keep their types.
THEOREM AdvisoryTypeCorrect == Spec => []TypeOK
<1>1. IInv => TypeOK
  BY DEF IInv
<1> QED
  BY <1>1, AdvisoryInvariance, PTL

\* Two workers are never told at the same time that they hold the ticket,
\* although jira.rs has no conditional write: whatever is delayed, renewed,
\* replayed or cleaned up, and whatever clocks within the allowance decide.
THEOREM HeldByOneTheorem == Spec => []HeldByOne
<1>1. IInv => HeldByOne
  BY DEF IInv
<1> QED
  BY <1>1, AdvisoryInvariance, PTL

\* A release that reached Jira is final, also after it was cleaned up and a
\* late claim or renewal of its operation landed.
THEOREM ReleaseTheorem == Spec => []ReleaseIsFinal
<1>1. ASSUME IInv PROVE ReleaseIsFinal
  <2>0. TypeOK /\ Gone /\ clock \in Int /\ props \in SUBSET Event /\ issued \in [Ops -> Int]
    BY <1>1 DEF IInv, TypeOK
  <2> SUFFICES ASSUME NEW o \in released, NEW t \in Readings, o \in Live(props, t)
               PROVE  FALSE
    BY DEF ReleaseIsFinal
  <2>1. t \in Int /\ t >= clock - Skew /\ o \in Ops
    BY <2>0, Facts DEF Readings, Live
  <2>2. Counted(o, t) /\ Of(props, o, "release") = {}
    BY <2>0, <2>1, LiveFacts
  <2>3. Buried(o)
    BY <2>0, <2>2 DEF Gone
  <2> QED
    BY <2>0, <2>1, <2>2, <2>3, Facts DEF Buried, Counted
<1> QED
  BY <1>1, AdvisoryInvariance, PTL

\* A cleanup removes only what no reader within the allowance counts, so it
\* changes neither the claims nor the conflicts anybody sees.
THEOREM CleanupTheorem == Spec => CleanupInvisible
<1> DEFINE Same == \A t \in Readings : /\ Live(props', t) = Live(props, t)
                                       /\ Conflicted(props', t) = Conflicted(props, t)
<1>1. ASSUME IInv, Next, props' # props, props' \subseteq props
      PROVE  Same
  <2>0. TypeOK /\ Writing
    BY <1>1 DEF IInv
  <2>1. PICK p \in Procs : \E e \in call[p].todo : props' = props \ {e}
    <3>1. \A f : ~(props' = props \cup {f})
      BY <1>1
    <3>2. ~\E p \in Procs : Put(p)
      BY <3>1 DEF Put, Store
    <3>3. ~\E e \in late : Land(e)
      BY <3>1 DEF Land, Store
    <3>4. \E p \in Procs : \E e \in call[p].todo : Prune(p, e)
      BY <1>1, <3>2, <3>3
         DEF Next, BeginWrite, Admit, BeginStatus, ReplayScan, Scan, Rescan, Verify, Status,
             GiveUp, Fail, Tick
    <3> QED
      BY <1>1, <3>4 DEF Prune
  <2>e. PICK e \in call[p].todo : props' = props \ {e}
    BY <2>1
  <2>2. Buried(e.op) /\ e \in Event /\ e.op \in Ops
    BY <2>0, EventFacts DEF Writing, CallOK, TypeOK, CallType
  <2> SUFFICES ASSUME NEW t \in Readings
               PROVE  /\ Live(props', t) = Live(props, t)
                      /\ Conflicted(props', t) = Conflicted(props, t)
    OBVIOUS
  <2>3. t \in Int /\ t >= clock - Skew /\ clock \in Int /\ issued[e.op] \in Int
    BY <2>0, <2>2, Facts DEF Readings, TypeOK
  <2>4. ~Ahead(e, t) /\ ~(e.op \in Legacy \/ t < issued[e.op] + Horizon + Skew)
    BY <2>2, <2>3, Facts DEF Buried, Ahead
  <2>5. Current(props', t) = Current(props, t)
    BY <2>e, <2>4 DEF Current
  <2>6. (\E f \in props' : Ahead(f, t)) <=> (\E f \in props : Ahead(f, t))
    BY <2>e, <2>4
  <2>7. Live(props', t) = Live(props, t)
    BY <2>5 DEF Live
  <2>8. Invalid(props', t) <=> Invalid(props, t)
    BY <2>5, <2>6 DEF Invalid
  <2> QED
    BY <2>7, <2>8 DEF Conflicted
<1>2. IInv /\ [Next]_vars => [props' # props /\ props' \subseteq props => Same]_vars
  BY <1>1
<1> QED
  BY <1>2, AdvisoryInvariance, PTL DEF Spec, CleanupInvisible
=============================================================================
