------------------------ MODULE ClaimNextAcrossProofs ------------------------
(***************************************************************************)
(* Theorems about ClaimNextAcross for every number of stores, every set of *)
(* tickets, any number of competing workers and every number of attempts.  *)
(*                                                                         *)
(* The scan compares copies: the candidate keeps the Up Next mark it was   *)
(* read with while the file may change.  Ranked says that this candidate   *)
(* precedes every ticket of the peeked stores that nobody touched, by the  *)
(* mark it was read with; the present mark is the same as long as nobody   *)
(* touched the candidate itself.                                           *)
(***************************************************************************)
EXTENDS ClaimNextAcross, TLAPS, NaturalsInduction, WellFoundedInduction

\* The untouched tickets of a running call can still be claimed.
Untouched(w) == Running(w) => \A t \in steady[w] : Eligible(t)

\* The candidate of the call, by the mark it was read with, comes no later
\* than u.
Leads(w, u) ==
    LET c == call[w] IN
    /\ c.best # None
    /\ c.best = u \/ Precedes(c.best, c.mark, u, upNext[u])

Ranked(w) ==
    LET c == call[w] IN
    /\ c.at = "peek" => \A u \in steady[w] : Home[u] < c.store => Leads(w, u)
    /\ c.at = "claim" => c.best # None /\ \A u \in steady[w] : Leads(w, u)
    /\ c.at \in {"peek", "claim"} /\ c.best \in steady[w] => c.mark = upNext[c.best]

\* The fallback has passed only stores without an untouched ticket, and a call
\* that found nothing passed all of them.
Passed(w) ==
    LET c == call[w] IN
    /\ c.at = "fallback" => \A u \in steady[w] : Home[u] >= c.store
    /\ c.at = "done" /\ c.got = None => steady[w] = {}
    /\ c.at # "done" => c.got = None
    /\ c.at \in {"peek", "claim"} => c.tries < Attempts

CallOK(w) == Untouched(w) /\ Ranked(w) /\ Passed(w)

IInv == TypeOK /\ \A w \in Workers : CallOK(w)

-----------------------------------------------------------------------------
(* The order of the queue.                                                 *)

\* A nonempty set of natural numbers has a least element.
LEMMA LeastOf ==
    ASSUME NEW S \in SUBSET Nat, S # {}
    PROVE  \E m \in S : \A n \in S : m <= n
<1> DEFINE R == OpToRel(<, Nat)
<1>1. IsWellFoundedOn(R, Nat)
  BY NatLessThanWellFounded
<1>2. PICK m \in S : \A n \in S : ~(<<n, m>> \in R)
  BY <1>1, WFMin
<1>3. \A n \in S : ~(n < m)
  BY <1>2 DEF OpToRel
<1> QED
  BY <1>3

LEMMA TicketFacts ==
    /\ \A t \in Tickets : /\ t \in Nat /\ t # None /\ Home[t] \in 1..Stores
                          /\ Priority[t] \in Nat
    /\ Stores \in Nat /\ Stores >= 1 /\ Attempts \in Nat /\ Attempts >= 1
    /\ Tickets \subseteq Nat
BY AcrossAssumption DEF None

\* Copies are totally ordered, and the order is transitive.
LEMMA PrecedesTransitive ==
    ASSUME NEW a \in Tickets, NEW b \in Tickets, NEW c \in Tickets,
           NEW ma \in BOOLEAN, NEW mb \in BOOLEAN, NEW mc \in BOOLEAN,
           Precedes(a, ma, b, mb), Precedes(b, mb, c, mc)
    PROVE  Precedes(a, ma, c, mc)
<1>1. /\ a \in Nat /\ b \in Nat /\ c \in Nat
      /\ Priority[a] \in Nat /\ Priority[b] \in Nat /\ Priority[c] \in Nat
  BY TicketFacts
<1> QED
  BY <1>1 DEF Precedes

LEMMA PrecedesTotal ==
    ASSUME NEW a \in Tickets, NEW b \in Tickets, NEW ma \in BOOLEAN, NEW mb \in BOOLEAN,
           ~Precedes(a, ma, b, mb)
    PROVE  a = b \/ Precedes(b, mb, a, ma)
<1>1. a \in Nat /\ b \in Nat /\ Priority[a] \in Nat /\ Priority[b] \in Nat
  BY TicketFacts
<1> QED
  BY <1>1 DEF Precedes

\* Every nonempty queue has a first ticket.
LEMMA FirstExists ==
    ASSUME upNext \in [Tickets -> BOOLEAN], NEW Q \in SUBSET Tickets, Q # {}
    PROVE  \E t \in Q : \A u \in Q \ {t} : Before(t, u)
<1> DEFINE M == IF \E t \in Q : upNext[t] THEN {t \in Q : upNext[t]} ELSE Q
           P == {Priority[t] : t \in M}
<1>1. M # {} /\ M \subseteq Q /\ \A t \in M, u \in Q : upNext[u] => upNext[t]
  OBVIOUS
<1>2. \A t \in M : \A u \in Q \ M : upNext[t] /\ ~upNext[u]
  OBVIOUS
<1>3. \A t, u \in M : upNext[t] = upNext[u]
  OBVIOUS
<1> HIDE DEF M
<1>4. P \in SUBSET Nat /\ P # {}
  <2>1. \A t \in M : Priority[t] \in Nat
    BY <1>1, TicketFacts
  <2>2. PICK t \in M : TRUE
    BY <1>1
  <2>3. Priority[t] \in P
    BY <2>2
  <2> QED
    BY <2>1, <2>3
<1>5. PICK p \in P : \A n \in P : p <= n
  BY <1>4, LeastOf
<1> DEFINE L == {t \in M : Priority[t] = p}
<1>6. L \in SUBSET Nat /\ L # {}
  BY <1>1, TicketFacts
<1>7. PICK t \in L : \A u \in L : t <= u
  BY <1>6, LeastOf
<1>8. ASSUME NEW u \in Q \ {t} PROVE Before(t, u)
  <2>0. t \in M /\ t \in Q /\ Priority[t] = p /\ t \in Nat /\ u \in Nat
        /\ Priority[u] \in Nat /\ Priority[t] \in Nat
    BY <1>1, TicketFacts
  <2>1. CASE u \notin M
    BY <1>2, <2>0, <2>1 DEF Before, Precedes
  <2>2. CASE u \in M
    <3>1. upNext[t] = upNext[u] /\ p <= Priority[u]
      BY <1>3, <1>5, <2>0, <2>2
    <3>2. CASE Priority[u] = p
      <4>1. t < u
        BY <1>7, <2>0, <2>2, <3>2
      <4> QED
        BY <2>0, <3>1, <3>2, <4>1 DEF Before, Precedes
    <3>3. CASE Priority[u] # p
      BY <2>0, <3>1, <3>3 DEF Before, Precedes
    <3> QED
      BY <3>2, <3>3
  <2> QED
    BY <2>1, <2>2
<1>9. t \in Q
  BY <1>1
<1> QED
  BY <1>8, <1>9

Queue(s) == {t \in Tickets : Home[t] = s /\ Eligible(t)}

\* peek_claim_next returns the first eligible ticket of its store.
LEMMA PeekFacts ==
    ASSUME TypeOK, NEW s
    PROVE  /\ Peek(s) = None => Queue(s) = {}
           /\ Peek(s) # None => /\ Peek(s) \in Queue(s)
                                /\ \A u \in Queue(s) \ {Peek(s)} : Before(Peek(s), u)
<1>1. Peek(s) = IF Queue(s) = {} THEN None
                ELSE CHOOSE t \in Queue(s) : \A u \in Queue(s) \ {t} : Before(t, u)
  BY DEF Peek, Queue
<1>2. CASE Queue(s) = {}
  BY <1>1, <1>2
<1>3. CASE Queue(s) # {}
  <2>0. Queue(s) \in SUBSET Tickets /\ upNext \in [Tickets -> BOOLEAN]
    BY DEF Queue, TypeOK
  <2>1. \E t \in Queue(s) : \A u \in Queue(s) \ {t} : Before(t, u)
    BY <1>3, <2>0, FirstExists
  <2>2. Peek(s) \in Queue(s) /\ \A u \in Queue(s) \ {Peek(s)} : Before(Peek(s), u)
    BY <1>1, <1>3, <2>1
  <2>3. Peek(s) # None
    BY <2>0, <2>2, TicketFacts
  <2> QED
    BY <2>2, <2>3
<1> QED
  BY <1>2, <1>3

-----------------------------------------------------------------------------
(* Preservation.                                                           *)

LEMMA InitInv == Init => IInv
<1> SUFFICES ASSUME Init PROVE IInv
  OBVIOUS
<1>1. Idle \in CallType
  BY TicketFacts DEF Idle, CallType, None
<1>2. TypeOK
  BY <1>1 DEF Init, TypeOK
<1>3. ASSUME NEW w \in Workers PROVE CallOK(w)
  BY DEF Init, Idle, CallOK, Untouched, Ranked, Passed, Running, None
<1> QED
  BY <1>2, <1>3 DEF IInv

\* A call is not disturbed by what happens to tickets it no longer counts as
\* untouched.
LEMMA Frame ==
    ASSUME IInv, NEW w \in Workers, call'[w] = call[w],
           steady'[w] \subseteq steady[w], ~Running(w) => steady'[w] = steady[w],
           Running(w) => \A t \in steady'[w] : Eligible(t)' /\ upNext'[t] = upNext[t]
    PROVE  CallOK(w)'
<1>0. CallOK(w)
  BY DEF IInv
<1>1. Untouched(w)'
  BY DEF Untouched, Running
<1>2. Passed(w)'
  BY <1>0 DEF CallOK, Passed
<1>3. ASSUME NEW u \in steady'[w], Leads(w, u), Running(w) PROVE Leads(w, u)'
  BY <1>3 DEF Leads, Precedes
<1>4. Ranked(w)'
  <2>1. CASE call[w].at \in {"peek", "claim"}
    <3>1. Running(w)
      BY <2>1 DEF Running
    <3>2. call[w].best \in steady'[w] => call[w].mark = upNext'[call[w].best]
      BY <1>0, <2>1, <3>1 DEF CallOK, Ranked
    <3>3. call[w].at = "peek" => \A u \in steady'[w] : Home[u] < call[w].store => Leads(w, u)'
      BY <1>0, <1>3, <3>1 DEF CallOK, Ranked
    <3>4. call[w].at = "claim" => call[w].best # None /\ \A u \in steady'[w] : Leads(w, u)'
      BY <1>0, <1>3, <3>1 DEF CallOK, Ranked
    <3> QED
      BY <3>2, <3>3, <3>4 DEF Ranked
  <2>2. CASE call[w].at \notin {"peek", "claim"}
    BY <2>2 DEF Ranked
  <2> QED
    BY <2>1, <2>2
<1> QED
  BY <1>1, <1>2, <1>4 DEF CallOK

\* A change of ticket t alone, which disturbs t, leaves every call in order.
LEMMA Disturbed ==
    ASSUME IInv, NEW t \in Tickets, Disturb(t),
           \A u \in Tickets \ {t} : /\ holder'[u] = holder[u] /\ ready'[u] = ready[u]
                                    /\ upNext'[u] = upNext[u]
    PROVE  /\ steady' \in [Workers -> SUBSET Tickets]
           /\ \A w \in Workers : call'[w] = call[w] => CallOK(w)'
<1>0. steady \in [Workers -> SUBSET Tickets]
  BY DEF IInv, TypeOK
<1>1. steady' \in [Workers -> SUBSET Tickets]
  BY <1>0 DEF Disturb
<1>2. ASSUME NEW w \in Workers, call'[w] = call[w] PROVE CallOK(w)'
  <2>1. steady'[w] = IF Running(w) THEN steady[w] \ {t} ELSE steady[w]
    BY DEF Disturb
  <2>2. ASSUME Running(w), NEW u \in steady'[w]
        PROVE  Eligible(u)' /\ upNext'[u] = upNext[u]
    <3>1. u \in steady[w] /\ u # t /\ u \in Tickets
      BY <1>0, <2>1, <2>2
    <3>2. Eligible(u)
      BY <2>2, <3>1 DEF IInv, CallOK, Untouched
    <3> QED
      BY <3>1, <3>2 DEF Eligible
  <2> QED
    BY <1>2, <2>1, <2>2, Frame
<1> QED
  BY <1>1, <1>2

\* A call takes an eligible ticket.
LEMMA TakeInv ==
    ASSUME IInv, NEW w \in Workers, NEW t \in Tickets, Take(w, t), UNCHANGED <<ready, upNext>>
    PROVE  IInv'
<1>0. /\ call \in [Workers -> CallType] /\ holder \in [Tickets -> Workers \cup Others \cup {NoWorker}]
      /\ ready \in [Tickets -> BOOLEAN] /\ upNext \in [Tickets -> BOOLEAN]
  BY DEF IInv, TypeOK
<1>1. /\ call'[w].at = "done" /\ call'[w].got = t /\ call' \in [Workers -> CallType]
      /\ \A v \in Workers \ {w} : call'[v] = call[v]
  BY <1>0 DEF Take, CallType
<1>2. /\ holder' \in [Tickets -> Workers \cup Others \cup {NoWorker}]
      /\ \A u \in Tickets \ {t} : holder'[u] = holder[u]
  BY <1>0 DEF Take
<1>3. /\ steady' \in [Workers -> SUBSET Tickets]
      /\ \A v \in Workers : call'[v] = call[v] => CallOK(v)'
  BY <1>2, Disturbed DEF Take
<1>4. CallOK(w)'
  BY <1>1, TicketFacts DEF CallOK, Untouched, Ranked, Passed, Running
<1>5. TypeOK'
  BY <1>0, <1>1, <1>2, <1>3 DEF TypeOK
<1> QED
  BY <1>1, <1>3, <1>4, <1>5 DEF IInv

\* A step of the call of w that leaves the tickets alone: the other calls are
\* as they were.
LEMMA CallStep ==
    ASSUME IInv, NEW w \in Workers, NEW c \in CallType, NEW S \in SUBSET Tickets,
           call' = [call EXCEPT ![w] = c], steady' = [steady EXCEPT ![w] = S],
           UNCHANGED <<holder, ready, upNext>>,
           call'[w] = c /\ steady'[w] = S => CallOK(w)'
    PROVE  IInv'
<1>0. call \in [Workers -> CallType] /\ steady \in [Workers -> SUBSET Tickets]
  BY DEF IInv, TypeOK
<1>1. /\ call' \in [Workers -> CallType] /\ steady' \in [Workers -> SUBSET Tickets]
      /\ call'[w] = c /\ steady'[w] = S
      /\ \A v \in Workers \ {w} : call'[v] = call[v] /\ steady'[v] = steady[v]
  BY <1>0
<1>2. ASSUME NEW v \in Workers \ {w} PROVE CallOK(v)'
  <2>1. Running(v) => \A t \in steady'[v] : Eligible(t)' /\ upNext'[t] = upNext[t]
    BY <1>1 DEF IInv, CallOK, Untouched, Eligible
  <2> QED
    BY <1>1, <2>1, Frame
<1>3. TypeOK'
  BY <1>1 DEF IInv, TypeOK
<1> QED
  BY <1>1, <1>2, <1>3 DEF IInv

\* A call that starts over, with n lost races.
Fresh(c, place, n) ==
    /\ c \in CallType /\ c.at = place /\ c.store = 1 /\ c.best = None
    /\ c.got = None /\ c.tries = n

LEMMA FreshFacts ==
    ASSUME NEW n \in 0..Attempts, NEW place \in {"idle", "peek", "fallback"}
    PROVE  /\ Fresh(Idle, "idle", 0)
           /\ Fresh([Idle EXCEPT !.at = place], place, 0)
           /\ Fresh([Idle EXCEPT !.at = place, !.tries = n], place, n)
<1>1. 1 \in 1..Stores /\ 0 \in 0..Attempts
  BY TicketFacts
<1>2. Idle \in CallType
  BY <1>1 DEF CallType, Idle
<1>3. Fresh(Idle, "idle", 0)
  BY <1>2 DEF Fresh, Idle
<1>4. Fresh([Idle EXCEPT !.at = place], place, 0)
  BY <1>3 DEF Fresh, CallType
<1>5. Fresh([Idle EXCEPT !.at = place, !.tries = n], place, n)
  BY <1>3 DEF Fresh, CallType
<1> QED
  BY <1>3, <1>4, <1>5

LEMMA RestartOK ==
    ASSUME NEW w \in Workers, steady'[w] \subseteq Tickets,
           NEW n \in 0..Attempts, NEW place \in {"idle", "peek", "fallback"},
           Fresh(call'[w], place, n), place = "peek" => n < Attempts,
           place # "idle" => \A t \in steady'[w] : Eligible(t)'
    PROVE  CallOK(w)'
<1>1. /\ call'[w].at = place /\ call'[w].store = 1 /\ call'[w].best = None
      /\ call'[w].got = None /\ call'[w].tries = n /\ call'[w] \in CallType
  BY DEF Fresh
<1>2. /\ \A u \in steady'[w] : Home[u] >= 1 /\ ~(Home[u] < 1)
      /\ None \notin steady'[w]
  <2>1. \A u \in Tickets : Home[u] \in 1..Stores /\ u # None
    BY TicketFacts
  <2>2. \A h \in 1..Stores : h >= 1 /\ ~(h < 1)
    BY TicketFacts
  <2> QED
    BY <2>1, <2>2
<1> QED
  BY <1>1, <1>2 DEF CallOK, Untouched, Ranked, Passed, Running

LEMMA BeginInv ==
    ASSUME IInv, NEW w \in Workers, Begin(w) \/ Return(w)
    PROVE  IInv'
<1>0. call \in [Workers -> CallType] /\ steady \in [Workers -> SUBSET Tickets] /\ 0 \in 0..Attempts
  BY TicketFacts DEF IInv, TypeOK
<1>1. CASE Begin(w)
  <2> DEFINE place == IF Stores = 1 THEN "fallback" ELSE "peek"
             c == [Idle EXCEPT !.at = place]
             S == {t \in Tickets : Eligible(t)}
  <2>1. /\ call' = [call EXCEPT ![w] = c] /\ steady' = [steady EXCEPT ![w] = S]
        /\ UNCHANGED <<holder, ready, upNext>>
    BY <1>1 DEF Begin
  <2>2. call'[w] = c /\ steady'[w] = S
    BY <1>0, <2>1
  <2>3. \A t \in S : Eligible(t)'
    BY <2>1 DEF Eligible
  <2>4. place \in {"idle", "peek", "fallback"} /\ S \in SUBSET Tickets /\ 0 < Attempts
    BY TicketFacts
  <2> HIDE DEF place, S
  <2>5. Fresh(c, place, 0)
    BY <1>0, <2>4, FreshFacts
  <2> HIDE DEF c
  <2>6. CallOK(w)' /\ c \in CallType
    BY <1>0, <2>2, <2>3, <2>4, <2>5, RestartOK DEF Fresh
  <2> QED
    BY <2>1, <2>4, <2>6, CallStep
<1>2. CASE Return(w)
  <2>1. /\ call' = [call EXCEPT ![w] = Idle] /\ steady' = [steady EXCEPT ![w] = {}]
        /\ UNCHANGED <<holder, ready, upNext>>
    BY <1>2 DEF Return
  <2>2. call'[w] = Idle /\ steady'[w] = {}
    BY <1>0, <2>1
  <2>3. "idle" \in {"idle", "peek", "fallback"} /\ {} \in SUBSET Tickets
        /\ steady'[w] \subseteq Tickets
    BY <2>2
  <2>4. CallOK(w)' /\ Idle \in CallType
    <3>1. Fresh(Idle, "idle", 0)
      BY <1>0, <2>3, FreshFacts
    <3>2. Fresh(call'[w], "idle", 0)
      BY <2>2, <3>1
    <3>3. CallOK(w)'
      BY <1>0, <2>3, <3>2, RestartOK
    <3> QED
      BY <3>1, <3>3 DEF Fresh
  <2> QED
    BY <2>1, <2>3, <2>4, CallStep
<1> QED
  BY <1>1, <1>2

\* A store is peeked: what is best now precedes the untouched tickets of this
\* store and, by transitivity, those of the earlier ones.
LEMMA PeekStoreInv ==
    ASSUME IInv, NEW w \in Workers, PeekStore(w)
    PROVE  IInv'
<1> DEFINE c == call[w]
           found == Peek(c.store)
           better == /\ found # None
                     /\ c.best = None \/ Precedes(found, upNext[found], c.best, c.mark)
           best == IF better THEN found ELSE c.best
           mark == IF better THEN upNext[found] ELSE c.mark
           d == IF c.store < Stores
                THEN [c EXCEPT !.store = c.store + 1, !.best = best, !.mark = mark]
                ELSE IF best = None THEN [c EXCEPT !.at = "done"]
                ELSE [c EXCEPT !.at = "claim", !.best = best, !.mark = mark]
<1>0. /\ c \in CallType /\ c.at = "peek" /\ c.store \in 1..Stores /\ c.got = None
      /\ c.best \in Tickets \cup {None} /\ c.mark \in BOOLEAN
      /\ call \in [Workers -> CallType] /\ steady \in [Workers -> SUBSET Tickets]
      /\ steady[w] \in SUBSET Tickets /\ upNext \in [Tickets -> BOOLEAN] /\ TypeOK
      /\ CallOK(w) /\ Stores \in Nat /\ c.tries < Attempts
  BY TicketFacts DEF IInv, TypeOK, CallType, PeekStore, Scanned, CallOK, Passed
<1>1. Scanned(w, best, mark)
  BY DEF PeekStore
<1>2. /\ found = None => Queue(c.store) = {}
      /\ found # None => /\ found \in Queue(c.store) /\ found \in Tickets
                         /\ \A u \in Queue(c.store) \ {found} : Before(found, u)
  BY <1>0, PeekFacts DEF Queue
<1>3. /\ \A u \in steady[w] : Eligible(u) /\ u \in Tickets
      /\ \A u \in steady[w] : Home[u] < c.store => Leads(w, u)
      /\ c.best \in steady[w] => c.mark = upNext[c.best]
  BY <1>0 DEF CallOK, Untouched, Ranked, Running
<1>4. best \in Tickets \cup {None} /\ mark \in BOOLEAN
  BY <1>0, <1>2
<1>5. best \in steady[w] => mark = upNext[best]
  BY <1>3
<1> HIDE DEF found
<1>6. ASSUME NEW u \in steady[w], Home[u] <= c.store
      PROVE  best # None /\ (best = u \/ Precedes(best, mark, u, upNext[u]))
  <2>0. u \in Tickets /\ Eligible(u) /\ Home[u] \in 1..Stores /\ upNext[u] \in BOOLEAN
    BY <1>0, <1>3, TicketFacts
  <2>1. CASE Home[u] < c.store
    <3>1. c.best # None /\ c.best \in Tickets
          /\ (c.best = u \/ Precedes(c.best, c.mark, u, upNext[u]))
      BY <1>0, <1>3, <2>1 DEF Leads
    <3>2. CASE ~better
      BY <3>1, <3>2
    <3>3. CASE better
      <4>1. found \in Tickets /\ found # None /\ Precedes(found, upNext[found], c.best, c.mark)
            /\ upNext[found] \in BOOLEAN
        BY <1>0, <1>2, <3>1, <3>3
      <4>2. CASE c.best = u
        <5>1. c.mark = upNext[u]
          BY <1>3, <4>2
        <5> QED
          BY <3>3, <4>1, <4>2, <5>1
      <4>3. CASE Precedes(c.best, c.mark, u, upNext[u])
        <5>1. Precedes(found, upNext[found], u, upNext[u])
          BY <1>0, <2>0, <3>1, <4>1, <4>3, PrecedesTransitive
        <5> QED
          BY <3>3, <4>1, <5>1
      <4> QED
        BY <3>1, <4>2, <4>3
    <3> QED
      BY <3>2, <3>3
  <2>2. CASE Home[u] = c.store
    <3>1. u \in Queue(c.store)
      BY <2>0, <2>2 DEF Queue
    <3>2. found # None /\ found \in Tickets /\ upNext[found] \in BOOLEAN
          /\ (found = u \/ Precedes(found, upNext[found], u, upNext[u]))
      BY <1>0, <1>2, <3>1 DEF Before
    <3>3. CASE better
      BY <3>2, <3>3
    <3>4. CASE ~better
      <4>1. c.best # None /\ c.best \in Tickets /\ ~Precedes(found, upNext[found], c.best, c.mark)
        BY <1>0, <3>2, <3>4
      <4>2. found = c.best \/ Precedes(c.best, c.mark, found, upNext[found])
        BY <1>0, <3>2, <4>1, PrecedesTotal
      <4>3. CASE Precedes(c.best, c.mark, found, upNext[found])
        <5>1. c.best = u \/ Precedes(c.best, c.mark, u, upNext[u])
          BY <1>0, <2>0, <3>2, <4>1, <4>3, PrecedesTransitive
        <5> QED
          BY <3>4, <4>1, <5>1
      <4>4. CASE found = c.best
        \* The candidate is met again, with a mark no better than its copy's.
        <5>1. c.mark = upNext[found] \/ (~c.mark /\ upNext[found]) \/ (c.mark /\ ~upNext[found])
          BY <1>0, <3>2
        <5> QED
          BY <3>2, <3>4, <4>1, <4>4, <5>1 DEF Precedes
      <4> QED
        BY <4>2, <4>3, <4>4
    <3> QED
      BY <3>3, <3>4
  <2> QED
    BY <1>0, <1>6, <2>0, <2>1, <2>2
<1>7. /\ call' = [call EXCEPT ![w] = d] /\ steady' = [steady EXCEPT ![w] = steady[w]]
      /\ UNCHANGED <<holder, ready, upNext>> /\ call'[w] = d /\ steady'[w] = steady[w]
  BY <1>0, <1>1 DEF Scanned
<1> HIDE DEF best, mark
<1>8. d \in CallType /\ CallOK(w)'
  <2>1. CASE c.store < Stores
    <3>1. d = [c EXCEPT !.store = c.store + 1, !.best = best, !.mark = mark]
      BY <2>1
    <3>2. /\ d.at = "peek" /\ d.store = c.store + 1 /\ d.best = best /\ d.mark = mark
          /\ d.got = None /\ d.tries = c.tries
      BY <1>0, <3>1 DEF CallType
    <3>3. d \in CallType
      <4>1. c.store + 1 \in 1..Stores
        BY <1>0, <2>1
      <4> QED
        BY <1>0, <1>4, <3>1, <4>1 DEF CallType
    <3> HIDE DEF d
    <3>4. \A u \in steady[w] : Home[u] < c.store + 1 => Home[u] <= c.store
      BY <1>0, <1>3, TicketFacts
    <3>5. \A u \in steady'[w] : Home[u] < d.store => Leads(w, u)'
      BY <1>6, <1>7, <3>2, <3>4 DEF Leads, Precedes
    <3>6. Untouched(w)'
      BY <1>3, <1>7 DEF Untouched, Eligible
    <3> QED
      BY <1>0, <1>5, <1>7, <3>2, <3>3, <3>5, <3>6 DEF CallOK, Ranked, Passed
  <2>2. CASE ~(c.store < Stores)
    <3>0. \A u \in steady[w] : Home[u] <= c.store
      BY <1>0, <1>3, <2>2, TicketFacts
    <3>1. CASE best = None
      <4>1. d = [c EXCEPT !.at = "done"]
        BY <2>2, <3>1
      <4>2. d.at = "done" /\ d \in CallType
        BY <1>0, <4>1 DEF CallType
      <4> HIDE DEF d
      <4>3. steady'[w] = {}
        BY <1>6, <1>7, <3>0, <3>1
      <4> QED
        BY <1>7, <4>2, <4>3 DEF CallOK, Untouched, Ranked, Passed, Running
    <3>2. CASE best # None
      <4>1. d = [c EXCEPT !.at = "claim", !.best = best, !.mark = mark]
        BY <2>2, <3>2
      <4>2. d.at = "claim" /\ d.best = best /\ d.mark = mark /\ d.got = None /\ d \in CallType
            /\ d.tries = c.tries
        BY <1>0, <1>4, <4>1 DEF CallType
      <4> HIDE DEF d
      <4>3. \A u \in steady'[w] : Leads(w, u)'
        BY <1>6, <1>7, <3>0, <4>2 DEF Leads, Precedes
      <4>4. Untouched(w)'
        BY <1>3, <1>7 DEF Untouched, Eligible
      <4> QED
        BY <1>0, <1>5, <1>7, <3>2, <4>2, <4>3, <4>4 DEF CallOK, Ranked, Passed
    <3> QED
      BY <3>1, <3>2
  <2> QED
    BY <2>1, <2>2
<1> HIDE DEF d
<1> QED
  BY <1>0, <1>7, <1>8, CallStep

\* The selected ticket is claimed, or the call selects again or falls back.
LEMMA ClaimCandidateInv ==
    ASSUME IInv, NEW w \in Workers, ClaimCandidate(w)
    PROVE  IInv' /\ \A t \in Tickets : holder[t] # NoWorker => holder'[t] = holder[t]
<1> DEFINE c == call[w]
<1>0. /\ c \in CallType /\ c.at = "claim" /\ c.tries \in 0..Attempts /\ c.best \in Tickets
      /\ c.tries < Attempts
      /\ call \in [Workers -> CallType] /\ steady \in [Workers -> SUBSET Tickets]
      /\ holder \in [Tickets -> Workers \cup Others \cup {NoWorker}]
      /\ steady[w] \in SUBSET Tickets /\ Attempts \in Nat
      /\ \A u \in steady[w] : Eligible(u)
  BY TicketFacts DEF IInv, TypeOK, CallType, ClaimCandidate, CallOK, Ranked, Untouched,
                     Running, Passed
<1>1. CASE Eligible(c.best)
  <2>1. Take(w, c.best) /\ UNCHANGED <<ready, upNext>>
    BY <1>1 DEF ClaimCandidate
  <2>2. IInv'
    BY <1>0, <2>1, TakeInv
  <2>3. \A t \in Tickets : holder[t] # NoWorker => holder'[t] = holder[t]
    BY <1>0, <1>1, <2>1 DEF Take, Eligible
  <2> QED
    BY <2>2, <2>3
<1>2. CASE ~Eligible(c.best)
  <2> DEFINE place == IF c.tries + 1 < Attempts THEN "peek" ELSE "fallback"
             n == c.tries + 1
             d == [Idle EXCEPT !.at = place, !.tries = n]
  <2>1. call' = [call EXCEPT ![w] = d] /\ UNCHANGED <<holder, ready, upNext, steady>>
    BY <1>2 DEF ClaimCandidate
  <2>2. steady' = [steady EXCEPT ![w] = steady[w]] /\ call'[w] = d /\ steady'[w] = steady[w]
    BY <1>0, <2>1
  <2>3. \A t \in steady'[w] : Eligible(t)'
    BY <1>0, <2>1 DEF Eligible
  <2>4. CASE n \in 0..Attempts
    <3>1. place \in {"idle", "peek", "fallback"} /\ (place = "peek" => n < Attempts)
      OBVIOUS
    <3> HIDE DEF place, n
    <3>2. Fresh(d, place, n)
      BY <2>4, <3>1, FreshFacts
    <3> HIDE DEF d
    <3>3. CallOK(w)' /\ d \in CallType
      BY <1>0, <2>2, <2>3, <2>4, <3>1, <3>2, RestartOK DEF Fresh
    <3>4. IInv'
      BY <1>0, <2>1, <2>2, <3>3, CallStep
    <3> QED
      BY <2>1, <3>4
  <2>5. n \in 0..Attempts
    BY <1>0
  <2> QED
    BY <2>4, <2>5
<1> QED
  BY <1>1, <1>2

\* The fallback takes the first ticket of a store or passes it.
LEMMA FallbackInv ==
    ASSUME IInv, NEW w \in Workers, Fallback(w)
    PROVE  IInv' /\ \A t \in Tickets : holder[t] # NoWorker => holder'[t] = holder[t]
<1> DEFINE c == call[w]
           found == Peek(c.store)
<1>0. /\ c \in CallType /\ c.at = "fallback" /\ c.store \in 1..Stores /\ c.got = None
      /\ call \in [Workers -> CallType] /\ steady \in [Workers -> SUBSET Tickets]
      /\ holder \in [Tickets -> Workers \cup Others \cup {NoWorker}]
      /\ steady[w] \in SUBSET Tickets /\ TypeOK /\ Stores \in Nat
      /\ \A u \in steady[w] : /\ Eligible(u) /\ Home[u] >= c.store /\ u \in Tickets
                              /\ Home[u] \in 1..Stores
  BY TicketFacts DEF IInv, TypeOK, CallType, Fallback, CallOK, Passed, Untouched, Running
<1>1. /\ found = None => Queue(c.store) = {}
      /\ found # None => found \in Queue(c.store)
  BY <1>0, PeekFacts
<1> HIDE DEF found
<1>2. CASE found # None
  <2>1. Take(w, found) /\ UNCHANGED <<ready, upNext>> /\ found \in Tickets /\ Eligible(found)
    BY <1>1, <1>2 DEF Fallback, Queue, found
  <2>2. IInv'
    BY <1>0, <2>1, TakeInv
  <2>3. \A t \in Tickets : holder[t] # NoWorker => holder'[t] = holder[t]
    BY <1>0, <2>1 DEF Take, Eligible
  <2> QED
    BY <2>2, <2>3
<1>3. CASE found = None
  <2> DEFINE d == IF c.store < Stores THEN [c EXCEPT !.store = c.store + 1]
                  ELSE [c EXCEPT !.at = "done"]
  <2>1. call' = [call EXCEPT ![w] = d] /\ UNCHANGED <<holder, ready, upNext, steady>>
    BY <1>3 DEF Fallback, found
  <2>2. steady' = [steady EXCEPT ![w] = steady[w]] /\ call'[w] = d /\ steady'[w] = steady[w]
    BY <1>0, <2>1
  <2>3. \A u \in steady[w] : Home[u] # c.store
    BY <1>0, <1>1, <1>3 DEF Queue
  <2>4. d \in CallType /\ CallOK(w)'
    <3>1. CASE c.store < Stores
      <4>1. d = [c EXCEPT !.store = c.store + 1] /\ c.store + 1 \in 1..Stores
        BY <1>0, <3>1
      <4>2. d \in CallType /\ d.at = "fallback" /\ d.store = c.store + 1 /\ d.got = None
        BY <1>0, <4>1 DEF CallType
      <4> HIDE DEF d
      <4>3. \A u \in steady'[w] : Home[u] >= d.store
        BY <1>0, <2>2, <2>3, <4>2
      <4>4. Untouched(w)'
        BY <1>0, <2>1, <2>2 DEF Untouched, Eligible
      <4> QED
        BY <2>2, <4>2, <4>3, <4>4 DEF CallOK, Ranked, Passed
    <3>2. CASE ~(c.store < Stores)
      <4>1. d = [c EXCEPT !.at = "done"]
        BY <3>2
      <4>2. d \in CallType /\ d.at = "done"
        BY <1>0, <4>1 DEF CallType
      <4> HIDE DEF d
      <4>3. steady'[w] = {}
        BY <1>0, <2>2, <2>3, <3>2
      <4> QED
        BY <2>2, <4>2, <4>3 DEF CallOK, Untouched, Ranked, Passed, Running
    <3> QED
      BY <3>1, <3>2
  <2> HIDE DEF d
  <2>5. IInv'
    BY <1>0, <2>1, <2>2, <2>4, CallStep
  <2> QED
    BY <2>1, <2>5
<1> QED
  BY <1>2, <1>3

\* What other processes do to a ticket.
LEMMA OthersInv ==
    ASSUME IInv, NEW t \in Tickets,
           \/ \E o \in Others : ClaimExact(o, t)
           \/ Release(t) \/ EditReady(t) \/ EditUpNext(t)
    PROVE  /\ IInv'
           /\ \A u \in Tickets : holder[u] # NoWorker => holder'[u] \in {holder[u], NoWorker}
<1>0. /\ call \in [Workers -> CallType] /\ steady \in [Workers -> SUBSET Tickets]
      /\ holder \in [Tickets -> Workers \cup Others \cup {NoWorker}]
      /\ ready \in [Tickets -> BOOLEAN] /\ upNext \in [Tickets -> BOOLEAN]
  BY DEF IInv, TypeOK
<1>1. /\ call' = call /\ holder' \in [Tickets -> Workers \cup Others \cup {NoWorker}]
      /\ ready' \in [Tickets -> BOOLEAN] /\ upNext' \in [Tickets -> BOOLEAN]
      /\ \A u \in Tickets \ {t} : /\ holder'[u] = holder[u] /\ ready'[u] = ready[u]
                                  /\ upNext'[u] = upNext[u]
  BY <1>0 DEF ClaimExact, Release, EditReady, EditUpNext
<1>2. \A u \in Tickets : holder[u] # NoWorker => holder'[u] \in {holder[u], NoWorker}
  BY <1>0 DEF ClaimExact, Release, EditReady, EditUpNext, Eligible
<1>3. CASE Disturb(t)
  BY <1>1, <1>2, <1>3, Disturbed DEF IInv, TypeOK
<1>4. CASE Release(t)
  <2>1. steady' = steady /\ upNext' = upNext /\ ready' = ready /\ holder[t] # NoWorker
    BY <1>4 DEF Release
  <2>2. ASSUME NEW w \in Workers PROVE CallOK(w)'
    <3>1. ASSUME Running(w), NEW u \in steady'[w] PROVE Eligible(u)' /\ upNext'[u] = upNext[u]
      <4>1. u \in Tickets /\ Eligible(u)
        BY <1>0, <2>1, <3>1 DEF IInv, CallOK, Untouched
      <4>2. u # t
        BY <2>1, <4>1 DEF Eligible
      <4> QED
        BY <1>1, <4>1, <4>2 DEF Eligible
    <3> QED
      BY <1>1, <2>1, <3>1, Frame
  <2> QED
    BY <1>0, <1>1, <1>2, <2>1, <2>2 DEF IInv, TypeOK
<1> QED
  BY <1>3, <1>4 DEF ClaimExact, EditReady, EditUpNext

LEMMA NextInv ==
    ASSUME IInv, [Next]_vars
    PROVE  /\ IInv'
           /\ \A u \in Tickets : holder[u] # NoWorker => holder'[u] \in {holder[u], NoWorker}
<1>1. ASSUME NEW w \in Workers, Begin(w) \/ Return(w)
      PROVE  IInv' /\ holder' = holder
  BY <1>1, BeginInv DEF Begin, Return
<1>2. ASSUME NEW w \in Workers, PeekStore(w) PROVE IInv' /\ holder' = holder
  BY <1>2, PeekStoreInv DEF PeekStore, Scanned
<1>3. ASSUME NEW w \in Workers, ClaimCandidate(w) \/ Fallback(w)
      PROVE  IInv' /\ \A u \in Tickets : holder[u] # NoWorker => holder'[u] = holder[u]
  BY <1>3, ClaimCandidateInv, FallbackInv
<1>4. CASE UNCHANGED vars
  <2>1. /\ call' = call /\ steady' = steady /\ holder' = holder /\ ready' = ready
        /\ upNext' = upNext
    BY <1>4 DEF vars
  <2>2. ASSUME NEW w \in Workers PROVE CallOK(w)'
    <3>1. Running(w) => \A t \in steady'[w] : Eligible(t)' /\ upNext'[t] = upNext[t]
      BY <2>1 DEF IInv, CallOK, Untouched, Eligible
    <3> QED
      BY <2>1, <3>1, Frame
  <2> QED
    BY <2>1, <2>2 DEF IInv, TypeOK
<1>5. CASE Next
  BY <1>1, <1>2, <1>3, <1>5, OthersInv DEF Next, Step
<1> QED
  BY <1>4, <1>5

-----------------------------------------------------------------------------
(* The theorems.                                                           *)

\* The inductive invariant holds in every reachable state.
THEOREM AcrossInvariance == Spec => []IInv
<1>1. IInv /\ [Next]_vars => IInv'
  BY NextInv
<1> QED
  BY <1>1, InitInv, PTL DEF Spec

\* Every variable keeps its type, for every instance.
THEOREM AcrossTypeCorrect == Spec => []TypeOK
<1>1. IInv => TypeOK
  BY DEF IInv
<1> QED
  BY <1>1, AcrossInvariance, PTL

\* However many stores there are and however many races a call loses, it comes
\* back empty only when no ticket was there for it from beginning to end.
THEOREM EmptyAnswerTheorem == Spec => []EmptyAnswerHonest
<1>1. IInv => EmptyAnswerHonest
  BY DEF IInv, CallOK, Passed, EmptyAnswerHonest
<1> QED
  BY <1>1, AcrossInvariance, PTL

\* The merged queue is claimed in its order: an untouched selection precedes
\* every ticket of every store that was eligible all along.
THEOREM MergedOrderTheorem == Spec => MergedOrder
<1>1. ASSUME IInv, NEW w \in Workers, call[w].at = "claim", call[w].best \in steady[w],
             NEW u \in steady[w] \ {call[w].best}
      PROVE  Before(call[w].best, u)
  BY <1>1 DEF IInv, CallOK, Ranked, Leads, Before
<1>2. IInv => \A w \in Workers :
                LET t == call[w].best IN
                (call[w].at = "claim" /\ call'[w].at = "done" /\ t \in steady[w])
                => \A u \in steady[w] \ {t} : Before(t, u)
  BY <1>1
<1> QED
  BY <1>2, AcrossInvariance, PTL DEF Spec, MergedOrder

\* No call and no exact claim ever displaces a holder.
THEOREM NeverDisplacedTheorem == Spec => NeverDisplaced
<1>1. IInv /\ [Next]_vars =>
        [\A t \in Tickets :
            holder[t] # NoWorker => holder'[t] \in {holder[t], NoWorker}]_vars
  BY NextInv
<1> QED
  BY <1>1, AcrossInvariance, PTL DEF Spec, NeverDisplaced
==============================================================================
