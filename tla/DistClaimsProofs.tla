-------------------------- MODULE DistClaimsProofs --------------------------
(***************************************************************************)
(* Theorems about DistClaims for any number of tickets and workers, any    *)
(* lease and any bound on faults: the markers are a compare-and-swap, and  *)
(* without a sweep two workers never work on one ticket.                   *)
(***************************************************************************)
EXTENDS DistClaims, TLAPS, WellFoundedInduction

\* The places at which a pass relies on the marker it created.
Holding == {"record", "drive", "renew", "release"}

\* A pass that claims has a candidate; a pass that claimed has a ticket.
Placed ==
    \A w \in Workers :
        /\ pass[w].at = "claim" => pass[w].todo # {}
        /\ pass[w].at \in Holding \cup {"unrecord"} => pass[w].ticket \in Tickets

\* Until a sweep, the marker of a pass's ticket is its own.
Owned ==
    \A w \in Workers :
        pass[w].at \in Holding /\ pass[w].ticket \notin swept
        => marker[pass[w].ticket] = w

IInv == TypeOK /\ Placed /\ Owned

\* A non-empty set of tickets has a first one.
LEMMA FirstFacts ==
    ASSUME NEW S \in SUBSET Tickets, S # {}
    PROVE  First(S) \in S /\ First(S) \in Tickets
<1>1. S \subseteq Nat
  BY DistAssumption
<1> DEFINE Less == {ss \in Nat \X Nat : ss[1] < ss[2]}
<1>2. Less = OpToRel(<, Nat)
  BY DEF OpToRel
<1>3. \E x \in S : \A y \in S : ~(<<y, x>> \in OpToRel(<, Nat))
  BY <1>1, NatLessThanWellFounded, WFMin
<1>4. PICK x \in S : \A y \in S : ~(<<y, x>> \in Less)
  BY <1>2, <1>3
<1>5. ASSUME NEW y \in S PROVE x <= y
  <2>1. <<y, x>> \in Nat \X Nat /\ <<y, x>>[1] = y /\ <<y, x>>[2] = x
    BY <1>1
  <2>2. ~(y < x)
    BY <1>4, <2>1
  <2> QED
    BY <1>1, <2>2
<1> QED
  BY <1>5 DEF First

LEMMA InitInv == Init => IInv
<1> SUFFICES ASSUME Init PROVE IInv
  OBVIOUS
<1>1. Expired \in Instants /\ Idle \in PassType /\ 0 \in 0..MaxFaults
  BY DistAssumption DEF Expired, Instants, Idle, PassType, Nothing
<1>2. TypeOK
  BY <1>1 DEF Init, TypeOK
<1>3. Placed /\ Owned
  BY DEF Init, Placed, Owned, Holding, Idle
<1> QED
  BY <1>2, <1>3 DEF IInv

\* The fields of a pass.
LEMMA PassFacts ==
    ASSUME TypeOK, NEW w \in Workers
    PROVE  /\ pass[w] \in PassType /\ pass[w].age \in 0..MaxPass
           /\ pass[w].todo \in SUBSET Tickets
           /\ pass[w].ticket \in Tickets \cup {Nothing}
           /\ LeaseFrom(pass[w].age) \in Instants /\ Expired \in Instants
           /\ Idle \in PassType
BY DistAssumption DEF TypeOK, PassType, LeaseFrom, Instants, Expired, Idle, Nothing

\* What a pass records in its clone.
LEMMA LocalFacts ==
    ASSUME TypeOK, NEW w \in Workers, NEW x \in Instants,
           SetLocal(w, x) \/ UNCHANGED local
    PROVE  local' \in [Workers -> [Tickets -> Instants]]
<1>1. local \in [Workers -> [Tickets -> Instants]]
  BY DEF TypeOK
<1>2. [local[w] EXCEPT ![pass[w].ticket] = x] \in [Tickets -> Instants]
  BY <1>1
<1> QED
  BY <1>1, <1>2 DEF SetLocal

\* A step that moves one pass to a well-typed place where it needs no marker,
\* and leaves the markers alone.
LEMMA MoveInv ==
    ASSUME IInv, NEW w \in Workers, NEW p \in PassType, Goto(w, p),
           p.at \notin Holding \cup {"unrecord"},
           p.at = "claim" => p.todo # {},
           UNCHANGED <<marker, swept>>, TypeOK'
    PROVE  IInv'
BY DEF IInv, TypeOK, Placed, Owned, Goto

\* A step that moves one pass on with the ticket it holds already.
LEMMA KeepInv ==
    ASSUME IInv, NEW w \in Workers, NEW p \in PassType, Goto(w, p),
           pass[w].at \in Holding, p.ticket = pass[w].ticket, p.at \in Holding,
           UNCHANGED <<marker, swept>>, TypeOK'
    PROVE  IInv'
BY DEF IInv, TypeOK, Placed, Owned, Goto, Holding

\* The steps of a pass that touch neither markers nor the sweep history.
LEMMA LocalStepInv ==
    ASSUME IInv, NEW w \in Workers,
           \/ BeginPass(w) \/ ListClaims(w) \/ Select(w) \/ RecordLocal(w)
           \/ ReleaseLocal(w) \/ SweepFails(w) \/ Crash(w)
           \/ \E outcome \in Outcomes : Drive(w, outcome)
    PROVE  IInv'
<1>0. TypeOK /\ Placed /\ Owned
  BY DEF IInv
<1>1. CASE BeginPass(w)
  <2> DEFINE p == [Idle EXCEPT !.at = "list"]
  <2>1. p \in PassType /\ p.at = "list"
    BY <1>0, PassFacts DEF PassType, Idle
  <2>2. TypeOK'
    BY <1>0, <1>1, <2>1 DEF TypeOK, BeginPass, Goto
  <2> QED
    BY <1>1, <2>1, <2>2, MoveInv DEF BeginPass, Holding
<1>2. CASE ListClaims(w)
  <2> DEFINE p == [pass[w] EXCEPT !.at = "sweep", !.todo = LooksExpired(pass[w].age)]
  <2>1. p \in PassType /\ p.at = "sweep"
    BY <1>0, PassFacts DEF PassType, LooksExpired
  <2>2. Goto(w, p) /\ UNCHANGED <<marker, left, closed, local, faults, swept>>
    BY <1>2 DEF ListClaims
  <2>3. TypeOK'
    BY <1>0, <2>1, <2>2 DEF TypeOK, Goto
  <2> QED
    BY <2>1, <2>2, <2>3, MoveInv DEF Holding
<1>3. CASE Select(w)
  <2> DEFINE p == IF Candidates(w) = {} THEN Idle
                  ELSE [pass[w] EXCEPT !.at = "claim", !.todo = Candidates(w)]
  <2>1. p \in PassType /\ p.at \in {"idle", "claim"} /\ (p.at = "claim" => p.todo # {})
    <3>1. Candidates(w) \in SUBSET Tickets
      BY DEF Candidates
    <3>2. CASE Candidates(w) = {}
      BY <1>0, <3>2, PassFacts DEF Idle
    <3>3. CASE Candidates(w) # {}
      BY <1>0, <3>1, <3>3, PassFacts DEF PassType
    <3> QED
      BY <3>2, <3>3
  <2>2. Goto(w, p) /\ UNCHANGED <<marker, left, closed, local, faults, swept>>
    BY <1>3 DEF Select
  <2> HIDE DEF p
  <2>3. TypeOK'
    BY <1>0, <2>1, <2>2 DEF TypeOK, Goto
  <2> QED
    BY <2>1, <2>2, <2>3, MoveInv DEF Holding
<1>4. CASE RecordLocal(w)
  <2> DEFINE p == [pass[w] EXCEPT !.at = "drive"]
  <2>1. p \in PassType /\ p.at = "drive" /\ p.ticket = pass[w].ticket
    BY <1>0, PassFacts DEF PassType
  <2>2. local' \in [Workers -> [Tickets -> Instants]]
    BY <1>0, <1>4, PassFacts, LocalFacts DEF RecordLocal
  <2>3. TypeOK'
    BY <1>0, <1>4, <2>1, <2>2 DEF TypeOK, RecordLocal, Goto
  <2> QED
    BY <1>4, <2>1, <2>3, KeepInv DEF RecordLocal, Holding
<1>5. CASE ReleaseLocal(w)
  <2>1. local' \in [Workers -> [Tickets -> Instants]]
    BY <1>0, <1>5, PassFacts, LocalFacts DEF ReleaseLocal
  <2>2. TypeOK'
    BY <1>0, <1>5, <2>1, PassFacts DEF TypeOK, ReleaseLocal, Goto
  <2> QED
    BY <1>0, <1>5, <2>2, MoveInv, PassFacts DEF ReleaseLocal, Holding, Idle
<1>6. CASE Crash(w)
  <2>1. TypeOK'
    BY <1>0, <1>6, PassFacts, DistAssumption DEF TypeOK, Crash, Goto
  <2> QED
    BY <1>0, <1>6, <2>1, MoveInv, PassFacts DEF Crash, Holding, Idle
<1>7. ASSUME NEW outcome \in Outcomes, Drive(w, outcome)
      PROVE  IInv'
  <2> DEFINE p == [pass[w] EXCEPT !.at = IF outcome = "continued" THEN "renew" ELSE "release"]
  <2>1. p \in PassType /\ p.at \in {"renew", "release"} /\ p.ticket = pass[w].ticket
    BY <1>0, PassFacts DEF PassType
  <2>2. Goto(w, p) /\ pass[w].at = "drive" /\ UNCHANGED <<marker, left, faults, swept>>
    BY <1>7 DEF Drive
  <2>3. local' \in [Workers -> [Tickets -> Instants]]
    BY <1>0, <1>7, PassFacts, LocalFacts DEF Drive
  <2>4. closed' \in [Workers -> SUBSET Tickets]
    <3>1. pass[w].ticket \in Tickets
      BY <1>0, <2>2 DEF Placed, Holding
    <3> QED
      BY <1>0, <1>7, <3>1 DEF Drive, TypeOK
  <2>5. TypeOK'
    BY <1>0, <2>1, <2>2, <2>3, <2>4 DEF TypeOK, Goto
  <2> QED
    BY <2>1, <2>2, <2>5, KeepInv DEF Holding
<1>8. CASE SweepFails(w)
  <2>1. faults' \in 0..MaxFaults /\ UNCHANGED <<marker, left, closed, local, swept>>
    <3>1. /\ faults < MaxFaults /\ faults' = faults + 1
          /\ UNCHANGED <<marker, left, closed, local, swept>>
      BY <1>8 DEF SweepFails
    <3>2. faults \in 0..MaxFaults /\ MaxFaults \in Nat
      BY <1>0, DistAssumption DEF TypeOK
    <3> QED
      BY <3>1, <3>2
  <2>2. \E p \in PassType : Goto(w, p) /\ p.at \in {"sweep", "select"}
    <3>1. ASSUME NEW read \in SUBSET LooksExpired(pass[w].age)
          PROVE  /\ [pass[w] EXCEPT !.at = "sweep", !.todo = read] \in PassType
                 /\ [pass[w] EXCEPT !.at = "sweep", !.todo = read].at = "sweep"
      BY <1>0, <3>1, PassFacts DEF PassType, LooksExpired
    <3>2. /\ [pass[w] EXCEPT !.at = "select", !.todo = {}] \in PassType
          /\ [pass[w] EXCEPT !.at = "select", !.todo = {}].at = "select"
      BY <1>0, PassFacts DEF PassType
    <3> QED
      BY <1>8, <3>1, <3>2 DEF SweepFails
  <2>3. PICK p \in PassType : Goto(w, p) /\ p.at \in {"sweep", "select"}
    BY <2>2
  <2>4. TypeOK'
    BY <1>0, <2>1, <2>3 DEF TypeOK, Goto
  <2> QED
    BY <2>1, <2>3, <2>4, MoveInv DEF Holding
<1> QED
  BY <1>1, <1>2, <1>3, <1>4, <1>5, <1>6, <1>7, <1>8

\* A sweep deletes a marker, and remembers whose ticket it was.
LEMMA SweepInv ==
    ASSUME IInv, NEW w \in Workers, SweepOne(w)
    PROVE  IInv'
<1>0. TypeOK /\ Placed /\ Owned
  BY DEF IInv
<1>1. CASE pass[w].todo = {}
  <2> DEFINE p == [pass[w] EXCEPT !.at = "select"]
  <2>1. p \in PassType /\ p.at = "select"
    BY <1>0, PassFacts DEF PassType
  <2>2. Goto(w, p) /\ UNCHANGED <<marker, left, closed, local, faults, swept>>
    BY <1>1 DEF SweepOne
  <2>3. TypeOK'
    BY <1>0, <2>1, <2>2 DEF TypeOK, Goto
  <2> QED
    BY <2>1, <2>2, <2>3, MoveInv DEF Holding
<1>2. CASE pass[w].todo # {}
  <2> DEFINE t == First(pass[w].todo)
             p == [pass[w] EXCEPT !.todo = pass[w].todo \ {t}]
  <2>0. t \in Tickets
    BY <1>0, <1>2, PassFacts, FirstFacts
  <2>1. p \in PassType /\ p.at = "sweep"
    BY <1>0, PassFacts DEF PassType, SweepOne
  <2>2. /\ Goto(w, p) /\ SetMarker(t, None, Expired) /\ swept' = swept \cup {t}
        /\ UNCHANGED <<closed, local, faults>>
    BY <1>2 DEF SweepOne
  <2> HIDE DEF t, p
  <2>3. TypeOK'
    BY <1>0, <2>0, <2>1, <2>2, PassFacts DEF TypeOK, Goto, SetMarker
  <2>4. Placed'
    BY <1>0, <2>1, <2>2 DEF TypeOK, Placed, Goto, Holding
  <2>5. Owned'
    BY <1>0, <2>0, <2>1, <2>2 DEF TypeOK, Owned, Placed, Goto, SetMarker, Holding
  <2> QED
    BY <2>3, <2>4, <2>5 DEF IInv
<1> QED
  BY <1>1, <1>2

\* A claim creates a marker where there is none: no pass relied on it.
LEMMA ClaimInv ==
    ASSUME IInv, NEW w \in Workers, ClaimOne(w) \/ ClaimAnswerLost(w)
    PROVE  IInv'
<1> DEFINE t == First(pass[w].todo)
           won == [pass[w] EXCEPT !.at = "record", !.ticket = t, !.todo = {}]
           next == IF pass[w].todo = {t} THEN Idle
                   ELSE [pass[w] EXCEPT !.todo = pass[w].todo \ {t}]
<1>0. TypeOK /\ Placed /\ Owned /\ pass[w].at = "claim"
  BY DEF IInv, ClaimOne, ClaimAnswerLost
<1>1. t \in pass[w].todo /\ t \in Tickets
  BY <1>0, PassFacts, FirstFacts DEF Placed
<1>2. None \notin Workers
  BY DistAssumption
<1>3. won \in PassType /\ won.at = "record" /\ won.ticket = t
  BY <1>0, <1>1, PassFacts DEF PassType
<1>4. next \in PassType /\ next.at \in {"idle", "claim"} /\ (next.at = "claim" => next.todo # {})
  <2>1. CASE pass[w].todo = {t}
    BY <1>0, <2>1, PassFacts DEF Idle
  <2>2. CASE pass[w].todo # {t}
    BY <1>0, <1>1, <2>2, PassFacts DEF PassType
  <2> QED
    BY <2>1, <2>2
<1>5. \/ /\ marker[t] = None /\ SetMarker(t, w, LeaseFrom(pass[w].age)) /\ Goto(w, won)
         /\ UNCHANGED <<closed, local, faults, swept>>
      \/ Goto(w, next) /\ UNCHANGED <<marker, left, closed, local, faults, swept>>
      \/ /\ marker[t] = None /\ SetMarker(t, w, LeaseFrom(pass[w].age)) /\ Goto(w, Idle)
         /\ faults < MaxFaults /\ faults' = faults + 1
         /\ UNCHANGED <<closed, local, swept>>
  BY DEF ClaimOne, ClaimAnswerLost
<1> HIDE DEF t, won, next
<1>6. TypeOK'
  <2>1. pass' \in [Workers -> PassType]
    BY <1>0, <1>3, <1>4, <1>5, PassFacts DEF TypeOK, Goto
  <2>2. marker' \in [Tickets -> Workers \cup {None}] /\ left' \in [Tickets -> Instants]
    <3> DEFINE x == LeaseFrom(pass[w].age)
    <3>1. marker \in [Tickets -> Workers \cup {None}] /\ left \in [Tickets -> Instants]
      BY <1>0 DEF TypeOK
    <3>2. x \in Instants
      BY <1>0, PassFacts
    <3>3. SetMarker(t, w, x) \/ UNCHANGED <<marker, left>>
      BY <1>5
    <3> HIDE DEF x
    <3> QED
      BY <3>1, <3>2, <3>3 DEF SetMarker
  <2>3. faults' \in 0..MaxFaults
    BY <1>0, <1>5, DistAssumption DEF TypeOK
  <2> QED
    BY <1>0, <1>5, <2>1, <2>2, <2>3 DEF TypeOK
<1>7. Placed'
  BY <1>0, <1>1, <1>3, <1>4, <1>5 DEF TypeOK, Placed, Goto, Holding, Idle
<1>8. Owned'
  BY <1>0, <1>1, <1>2, <1>3, <1>4, <1>5
     DEF TypeOK, Placed, Owned, Goto, SetMarker, Holding, Idle
<1> QED
  BY <1>6, <1>7, <1>8 DEF IInv

\* A renewal replaces its own marker only.
LEMMA RenewInv ==
    ASSUME IInv, NEW w \in Workers, RenewLease(w)
    PROVE  IInv'
<1>0. TypeOK /\ Placed /\ Owned /\ pass[w].at = "renew" /\ pass[w].ticket \in Tickets
  BY DEF IInv, RenewLease, Placed, Holding
<1>1. /\ Goto(w, Idle) /\ UNCHANGED <<closed, faults, swept>> /\ marker' = marker
      /\ left' \in [Tickets -> Instants]
  BY <1>0, PassFacts DEF RenewLease, SetMarker, TypeOK
<1>2. local' \in [Workers -> [Tickets -> Instants]]
  BY <1>0, PassFacts, LocalFacts DEF RenewLease
<1>3. TypeOK'
  BY <1>0, <1>1, <1>2, PassFacts DEF TypeOK, Goto
<1> QED
  BY <1>0, <1>1, <1>3, MoveInv, PassFacts DEF Holding, Idle

\* A release deletes a marker: its own, unless a sweep came before.
LEMMA ReleaseInv ==
    ASSUME IInv, NEW w \in Workers, ReleaseMarker(w)
    PROVE  IInv'
<1> DEFINE p == [pass[w] EXCEPT !.at = "unrecord"]
<1>0. TypeOK /\ Placed /\ Owned /\ pass[w].at = "release" /\ pass[w].ticket \in Tickets
  BY DEF IInv, ReleaseMarker, Placed, Holding
<1>1. p \in PassType /\ p.at = "unrecord" /\ p.ticket = pass[w].ticket
  BY <1>0, PassFacts DEF PassType
<1>2. /\ Goto(w, p) /\ SetMarker(pass[w].ticket, None, Expired)
      /\ UNCHANGED <<closed, local, faults, swept>>
  BY DEF ReleaseMarker
<1> HIDE DEF p
<1>3. TypeOK'
  BY <1>0, <1>1, <1>2, PassFacts DEF TypeOK, Goto, SetMarker
<1>4. Placed'
  BY <1>0, <1>1, <1>2 DEF TypeOK, Placed, Goto, Holding
<1>5. Owned'
  BY <1>0, <1>1, <1>2 DEF TypeOK, Placed, Owned, Goto, SetMarker, Holding
<1> QED
  BY <1>3, <1>4, <1>5 DEF IInv

\* Time passes.
LEMMA TickInv ==
    ASSUME IInv, Tick
    PROVE  IInv'
<1>0. TypeOK /\ Placed /\ Owned
  BY DEF IInv
<1>1. \A x \in Instants : Later(x) \in Instants
  BY DistAssumption DEF Later, Instants, Expired
<1>2. \A w \in Workers : /\ pass'[w] \in PassType /\ pass'[w].at = pass[w].at
                         /\ pass'[w].todo = pass[w].todo /\ pass'[w].ticket = pass[w].ticket
  <2> SUFFICES ASSUME NEW w \in Workers
               PROVE  /\ pass'[w] \in PassType /\ pass'[w].at = pass[w].at
                      /\ pass'[w].todo = pass[w].todo /\ pass'[w].ticket = pass[w].ticket
    OBVIOUS
  <2>1. CASE pass[w].at = "idle"
    BY <1>0, <2>1, PassFacts DEF Tick
  <2>2. CASE pass[w].at # "idle"
    <3>1. pass'[w] = [pass[w] EXCEPT !.age = @ + 1] /\ pass[w].age < MaxPass
      BY <2>2 DEF Tick
    <3> QED
      BY <1>0, <3>1, PassFacts, DistAssumption DEF PassType
  <2> QED
    BY <2>1, <2>2
<1>3. pass' \in [Workers -> PassType]
  BY <1>2 DEF Tick
<1>4. TypeOK'
  BY <1>0, <1>1, <1>3 DEF TypeOK, Tick
<1>5. Placed' /\ Owned'
  BY <1>0, <1>2 DEF Placed, Owned, Tick
<1> QED
  BY <1>4, <1>5 DEF IInv

LEMMA StepInv == IInv /\ [Next]_vars => IInv'
<1> SUFFICES ASSUME IInv, [Next]_vars PROVE IInv'
  OBVIOUS
<1>1. ASSUME NEW w \in Workers, Step(w) \/ SweepFails(w) \/ ClaimAnswerLost(w) \/ Crash(w)
      PROVE  IInv'
  BY <1>1, LocalStepInv, SweepInv, ClaimInv, RenewInv, ReleaseInv DEF Step
<1>2. ASSUME NEW w \in Workers, NEW v \in Workers, NEW t \in Tickets, Sync(w, v, t)
      PROVE  IInv'
  <2>1. TypeOK'
    BY <1>2, PassFacts DEF IInv, TypeOK, Sync
  <2> QED
    BY <1>2, <2>1 DEF IInv, Placed, Owned, Sync
<1>3. CASE Tick
  BY <1>3, TickInv
<1>4. CASE UNCHANGED vars
  BY <1>4 DEF vars, IInv, TypeOK, Placed, Owned
<1> QED
  BY <1>1, <1>2, <1>3, <1>4 DEF Next

\* The inductive invariant holds in every reachable state.
THEOREM DistInvariance == Spec => []IInv
BY InitInv, StepInv, PTL DEF Spec

\* Markers, leases, clones and passes keep their types.
THEOREM DistTypeCorrect == Spec => []TypeOK
<1>1. IInv => TypeOK
  BY DEF IInv
<1> QED
  BY <1>1, DistInvariance, PTL

\* Push-CAS lets one worker start a ticket: two workers are on one ticket only
\* after a sweep took its marker for expired.
THEOREM StartedOnceTheorem == Spec => []StartedOnce
<1>1. IInv => StartedOnce
  BY DEF IInv, Owned, StartedOnce, Working, Holding
<1> QED
  BY <1>1, DistInvariance, PTL

\* A marker never passes from one worker to another without being absent in
\* between: claims create, renewals replace their own, releases delete.
THEOREM MarkerTheorem == Spec => MarkerNeverStolen
<1>1. ASSUME IInv, [Next]_vars
      PROVE  [\A t \in Tickets : marker[t] # None => marker'[t] \in {marker[t], None}]_vars
  <2> SUFFICES ASSUME NEW t \in Tickets, marker[t] # None
               PROVE  marker'[t] \in {marker[t], None}
    OBVIOUS
  <2>0. marker \in [Tickets -> Workers \cup {None}]
    BY <1>1 DEF IInv, TypeOK
  <2>1. ASSUME NEW w \in Workers, SweepOne(w) \/ ReleaseMarker(w)
        PROVE  marker'[t] \in {marker[t], None}
    BY <2>0, <2>1 DEF SweepOne, ReleaseMarker, SetMarker
  <2>2. ASSUME NEW w \in Workers, ClaimOne(w) \/ ClaimAnswerLost(w)
        PROVE  marker'[t] \in {marker[t], None}
    BY <2>0, <2>2 DEF ClaimOne, ClaimAnswerLost, SetMarker
  <2>3. ASSUME NEW w \in Workers, RenewLease(w)
        PROVE  marker'[t] \in {marker[t], None}
    BY <2>0, <2>3 DEF RenewLease, SetMarker
  <2>4. CASE UNCHANGED marker
    BY <2>4
  <2> QED
    BY <1>1, <2>1, <2>2, <2>3, <2>4
       DEF Next, Step, BeginPass, ListClaims, Select, RecordLocal, ReleaseLocal, Drive,
           SweepFails, Crash, Sync, Tick, vars
<1> QED
  BY <1>1, DistInvariance, PTL DEF Spec, MarkerNeverStolen
=============================================================================
