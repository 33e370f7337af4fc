---------------------------- MODULE OutboxProofs ----------------------------
(***************************************************************************)
(* Theorems about the provider outbox.                                     *)
(*                                                                         *)
(* ProviderOutbox, for every set of operations, tickets and batches, every *)
(* retry window and every bound on faults: writes reach the provider in    *)
(* the order of their ticket, a confirmation is never made up, and an      *)
(* intent is never overwritten by an earlier one.                          *)
(*                                                                         *)
(* OutboxRetention, for every set of operations, every retention period    *)
(* and every behaviour of the clock: the retry fence holds.                *)
(***************************************************************************)
EXTENDS ProviderOutbox, OutboxRetention, TLAPS, FiniteSetTheorems

\* A row is absent or numbered within its ticket; a row that is being sent is
\* pending and was claimed; a settled one is not pending.
RowOK(o) ==
    /\ row[o].seq <= sequence[TicketOf[o]]
    /\ row[o].seq = 0 => ~row[o].pending /\ row[o].attempts = 0
    /\ row[o] # NoRow => row[o].seq > 0
    /\ row[o].dispatch = "sending" => row[o].attempts > 0
    /\ row[o].dispatch \in {"confirmed", "discarded"} => ~row[o].pending

Rows == \A o \in Ops : RowOK(o)

\* A job sends a row that says so, and is the only one to do it.
Jobs == /\ \A j \in jobs : Sending(j.op)
        /\ \A j, k \in jobs : j.op = k.op => j = k

\* Once an operation was claimed, everything before it is settled.
Ordered == \A a, b \in Ops : Earlier(a, b) /\ row[b].attempts > 0 => ~row[a].pending

\* What the provider shows, and ever showed, was sent.
Sent == /\ \A o \in landed : row[o].attempts > 0
        /\ \A t \in Tickets : remote[t] # Elsewhere =>
              remote[t] \in landed /\ TicketOf[remote[t]] = t

\* What counts as applied has landed.
Applied == /\ ConfirmedReached
           /\ \A d \in discards : d.applied => d.op \in landed

\* Nothing that precedes a landed operation is shown.
Superseded == \A a \in Ops, b \in landed : Earlier(a, b) /\ row[a].seq > 0 => ~Holds(a)

IInv == TypeOK /\ Rows /\ Jobs /\ Ordered /\ Sent /\ Applied /\ Superseded

-----------------------------------------------------------------------------
(* What the steps have in common.                                          *)

\* A step that settles, delays or requeues a row: it neither numbers nor
\* claims it.
Kept(o) ==
    /\ row'[o].seq = row[o].seq /\ row'[o].attempts = row[o].attempts
    /\ row'[o].pending => row[o].pending
    /\ row'[o] # NoRow => row[o] # NoRow
    /\ row'[o].dispatch = "sending" => row[o].dispatch = "sending"
    /\ row'[o].dispatch \in {"confirmed", "discarded"} => ~row'[o].pending

LEMMA RowFacts ==
    ASSUME TypeOK, NEW o \in Ops
    PROVE  /\ row[o] \in RowType /\ row[o].seq \in Nat /\ row[o].attempts \in Nat
           /\ row[o].pending \in BOOLEAN /\ row[o].waits \in BOOLEAN
           /\ row[o].dispatch \in Dispatch \cup {"absent"}
           /\ TicketOf[o] \in Tickets /\ sequence[TicketOf[o]] \in Nat
BY OutboxAssumption DEF TypeOK, RowType

LEMMA KeptRows ==
    ASSUME IInv, TypeOK', UNCHANGED sequence, \A o \in Ops : Kept(o)
    PROVE  Rows' /\ Ordered'
<1>1. TypeOK /\ Rows /\ Ordered
  BY DEF IInv
<1>2. Rows'
  BY <1>1, RowFacts DEF Rows, RowOK, Kept
<1>3. Ordered'
  BY <1>1, RowFacts DEF Ordered, Earlier, Kept
<1> QED
  BY <1>2, <1>3

\* Numbers that stay and a provider that stays keep what was sent.
LEMMA SameRemote ==
    ASSUME IInv, UNCHANGED <<remote, landed>>,
           \A o \in Ops : row'[o].seq = row[o].seq /\ row'[o].attempts >= row[o].attempts,
           TypeOK'
    PROVE  Sent' /\ Superseded'
<1>1. TypeOK /\ Sent /\ Superseded /\ landed \subseteq Ops
  BY DEF IInv, TypeOK
<1>2. Sent'
  <2>1. \A o \in landed' : row'[o].attempts > 0
    BY <1>1, RowFacts DEF Sent, TypeOK, RowType
  <2> QED
    BY <1>1, <2>1 DEF Sent
<1>3. Superseded'
  BY <1>1 DEF Superseded, Earlier, Holds
<1> QED
  BY <1>2, <1>3

LEMMA JobFacts ==
    ASSUME TypeOK, NEW j \in jobs
    PROVE  j \in JobType /\ j.op \in Ops
BY DEF TypeOK, JobType

LEMMA DiscardFacts ==
    ASSUME TypeOK, NEW d \in discards
    PROVE  d \in DiscardType /\ d.op \in Ops
BY DEF TypeOK, DiscardType

\* Rows that change in no field but dispatch, pending and waits keep their type.
LEMMA SettleFacts ==
    ASSUME IInv, NEW o \in Ops, NEW how \in {"confirmed", "discarded"}, Settle(o, how),
           row[o].pending
    PROVE  /\ row' \in [Ops -> RowType] /\ \A p \in Ops : Kept(p)
           /\ \A p \in Ops \ {o} : row'[p] = row[p]
           /\ row'[o].dispatch = how
<1>1. row \in [Ops -> RowType] /\ row[o] \in RowType /\ how \in Dispatch
  BY DEF IInv, TypeOK, Dispatch
<1>2. row[o] # NoRow
  BY DEF NoRow
<1>3. row' = [row EXCEPT ![o] = [row[o] EXCEPT !.pending = FALSE, !.dispatch = how, !.waits = FALSE]]
  BY <1>1 DEF Settle
<1>4. [row[o] EXCEPT !.pending = FALSE, !.dispatch = how, !.waits = FALSE] \in RowType
  BY <1>1 DEF RowType
<1>5. \A p \in Ops \ {o} : row'[p] = row[p]
  BY <1>1, <1>3
<1>6. /\ row'[o].seq = row[o].seq /\ row'[o].attempts = row[o].attempts
      /\ ~row'[o].pending /\ row'[o].dispatch = how
  BY <1>1, <1>3 DEF RowType
<1>7. \A p \in Ops : Kept(p)
  <2>1. Kept(o)
    BY <1>2, <1>6 DEF Kept
  <2>2. ASSUME NEW p \in Ops \ {o} PROVE Kept(p)
    BY <1>5 DEF Kept, IInv, Rows, RowOK
  <2> QED
    BY <2>1, <2>2
<1> QED
  BY <1>1, <1>3, <1>4, <1>5, <1>6, <1>7

LEMMA InitInv == Init => IInv
<1> SUFFICES ASSUME Init PROVE IInv
  OBVIOUS
<1>1. NoRow \in RowType
  BY DEF NoRow, RowType
<1>2. TypeOK
  BY <1>1 DEF Init, TypeOK
<1>3. Rows /\ Ordered /\ Applied
  BY <1>2, OutboxAssumption
     DEF Init, Rows, RowOK, Ordered, Applied, ConfirmedReached, NoRow, TypeOK, RowType
<1>4. Jobs /\ Sent /\ Superseded
  BY DEF Init, Jobs, Sent, Superseded
<1> QED
  BY <1>2, <1>3, <1>4 DEF IInv

-----------------------------------------------------------------------------
(* Admission.                                                              *)

\* The new operations of a ticket in a batch are numbered from 1 up to their
\* count.
LEMMA PlaceFacts ==
    ASSUME NEW batch \in Batches, NEW S \in SUBSET (1..Len(batch)), NEW i \in S
    PROVE  /\ Cardinality(S) \in Nat
           /\ Cardinality({j \in S : j <= i}) \in 1..Cardinality(S)
<1>1. batch \in Seq(Ops) /\ Len(batch) \in Nat
  BY OutboxAssumption
<1>2. IsFiniteSet(1..Len(batch))
  BY <1>1, FS_Interval
<1>3. IsFiniteSet(S)
  BY <1>2, FS_Subset
<1> DEFINE P == {j \in S : j <= i}
<1>4. P \subseteq S /\ P # {}
  BY <1>1
<1>5. IsFiniteSet(P) /\ Cardinality(P) <= Cardinality(S)
  BY <1>3, <1>4, FS_Subset
<1>6. Cardinality(P) \in Nat /\ Cardinality(S) \in Nat /\ Cardinality(P) # 0
  BY <1>3, <1>4, <1>5, FS_CardinalityType, FS_EmptySet
<1> HIDE DEF P
<1>7. Cardinality(P) \in 1..Cardinality(S)
  BY <1>5, <1>6
<1> QED
  BY <1>6, <1>7 DEF P

\* An admission leaves known rows alone and numbers the new ones after them.
LEMMA AdmitFacts ==
    ASSUME IInv, NEW batch \in Batches, Admit(batch)
    PROVE  /\ sequence' \in [Tickets -> Nat]
           /\ \A t \in Tickets : sequence'[t] >= sequence[t]
           /\ row' \in [Ops -> RowType]
           /\ \A o \in Ops :
                 \/ row'[o] = row[o]
                 \/ /\ row[o] = NoRow
                    /\ row'[o].seq > sequence[TicketOf[o]]
                    /\ row'[o].seq <= sequence'[TicketOf[o]]
                    /\ row'[o].attempts = 0 /\ row'[o].pending /\ row'[o].dispatch = "queued"
<1> DEFINE new(t) == {i \in NewIn(batch) : TicketOf[batch[i]] = t}
           place(i) == Cardinality({j \in new(TicketOf[batch[i]]) : j <= i})
           fresh(o, n) == [NoRow EXCEPT !.pending = TRUE, !.dispatch = "queued",
                                        !.seq = sequence[TicketOf[o]] + n]
<1>0. TypeOK /\ batch \in Seq(Ops)
  BY OutboxAssumption DEF IInv
<1>1. \A t : new(t) \in SUBSET (1..Len(batch))
  BY DEF NewIn
<1>2. \A t \in Tickets : Cardinality(new(t)) \in Nat
  <2>1. Len(batch) \in Nat /\ IsFiniteSet(1..Len(batch))
    BY <1>0, FS_Interval
  <2>2. \A t : IsFiniteSet(new(t))
    BY <1>1, <2>1, FS_Subset
  <2> QED
    BY <2>2, FS_CardinalityType
<1>3. sequence' = [t \in Tickets |-> sequence[t] + Cardinality(new(t))]
  BY DEF Admit
<1>4. row' = [o \in Ops |->
                 IF \E i \in NewIn(batch) : batch[i] = o
                 THEN fresh(o, place(CHOOSE i \in NewIn(batch) : batch[i] = o))
                 ELSE row[o]]
  BY DEF Admit
<1>5. /\ sequence' \in [Tickets -> Nat]
      /\ \A t \in Tickets : sequence'[t] >= sequence[t]
  BY <1>0, <1>2, <1>3 DEF TypeOK
<1>6. ASSUME NEW o \in Ops, NEW n \in Nat
      PROVE  /\ fresh(o, n) \in RowType
             /\ fresh(o, n).seq = sequence[TicketOf[o]] + n /\ fresh(o, n).attempts = 0
             /\ fresh(o, n).pending /\ fresh(o, n).dispatch = "queued"
  <2>1. sequence[TicketOf[o]] + n \in Nat
    BY <1>0, RowFacts
  <2> QED
    BY <2>1 DEF NoRow, RowType, Dispatch
<1>7. ASSUME NEW i \in NewIn(batch)
      PROVE  /\ row[batch[i]] = NoRow
             /\ place(i) \in 1..Cardinality(new(TicketOf[batch[i]]))
             /\ place(i) \in Nat
  <2>1. i \in new(TicketOf[batch[i]])
    OBVIOUS
  <2>2. /\ Cardinality(new(TicketOf[batch[i]])) \in Nat
        /\ Cardinality({j \in new(TicketOf[batch[i]]) : j <= i})
             \in 1..Cardinality(new(TicketOf[batch[i]]))
    BY <1>1, <2>1, PlaceFacts
  <2>3. row[batch[i]] = NoRow
    BY DEF NewIn
  <2>4. /\ Cardinality(new(TicketOf[batch[i]])) \in Nat
        /\ place(i) \in 1..Cardinality(new(TicketOf[batch[i]]))
    BY <2>2
  <2> HIDE DEF place, new
  <2> QED
    BY <2>3, <2>4
<1> HIDE DEF fresh, place, new
<1>8. ASSUME NEW o \in Ops
      PROVE  /\ row'[o] \in RowType
             /\ \/ row'[o] = row[o]
                \/ /\ row[o] = NoRow
                   /\ row'[o].seq > sequence[TicketOf[o]]
                   /\ row'[o].seq <= sequence'[TicketOf[o]]
                   /\ row'[o].attempts = 0 /\ row'[o].pending /\ row'[o].dispatch = "queued"
  <2>1. CASE \E i \in NewIn(batch) : batch[i] = o
    <3>1. PICK i \in NewIn(batch) : batch[i] = o /\ row'[o] = fresh(o, place(i))
      <4> DEFINE c == CHOOSE i \in NewIn(batch) : batch[i] = o
      <4>1. c \in NewIn(batch) /\ batch[c] = o
        BY <2>1
      <4> QED
        BY <1>4, <2>1, <4>1
    <3>2. row[o] = NoRow /\ place(i) \in 1..Cardinality(new(TicketOf[o])) /\ place(i) \in Nat
      BY <1>7, <3>1
    <3>3. sequence'[TicketOf[o]] = sequence[TicketOf[o]] + Cardinality(new(TicketOf[o]))
      BY <1>0, <1>3, RowFacts
    <3>4. sequence[TicketOf[o]] \in Nat /\ Cardinality(new(TicketOf[o])) \in Nat
      BY <1>0, <1>2, RowFacts
    <3> QED
      BY <1>6, <3>1, <3>2, <3>3, <3>4
  <2>2. CASE ~\E i \in NewIn(batch) : batch[i] = o
    BY <1>0, <1>4, <2>2, RowFacts
  <2> QED
    BY <2>1, <2>2
<1>9. row' \in [Ops -> RowType]
  BY <1>4, <1>8
<1> QED
  BY <1>5, <1>8, <1>9

LEMMA AdmitInv ==
    ASSUME IInv, NEW batch \in Batches, Admit(batch)
    PROVE  IInv'
<1>0. TypeOK /\ Rows /\ Jobs /\ Ordered /\ Sent /\ Applied /\ Superseded
  BY DEF IInv
<1>1. UNCHANGED <<remote, jobs, discards, landed, used>>
  BY DEF Admit
<1>2. TypeOK'
  BY <1>0, <1>1, AdmitFacts DEF TypeOK
<1>3. \A o \in Ops : row[o].attempts > 0 => row'[o] = row[o]
  BY AdmitFacts DEF NoRow
<1>4. Rows'
  <2> SUFFICES ASSUME NEW o \in Ops PROVE RowOK(o)'
    BY DEF Rows
  <2>1. RowOK(o) /\ TicketOf[o] \in Tickets
    BY <1>0, RowFacts DEF Rows
  <2>2. /\ sequence[TicketOf[o]] \in Nat /\ sequence'[TicketOf[o]] \in Nat
        /\ sequence'[TicketOf[o]] >= sequence[TicketOf[o]]
        /\ row[o].seq \in Nat /\ row'[o].seq \in Nat
    BY <1>0, <1>2, <2>1, AdmitFacts, RowFacts DEF TypeOK, RowType
  <2>3. CASE row'[o] = row[o]
    BY <2>1, <2>2, <2>3 DEF RowOK
  <2>4. CASE row'[o] # row[o]
    <3>1. /\ row'[o].seq > sequence[TicketOf[o]] /\ row'[o].seq <= sequence'[TicketOf[o]]
          /\ row'[o].attempts = 0 /\ row'[o].pending /\ row'[o].dispatch = "queued"
      BY <2>4, AdmitFacts
    <3> QED
      BY <2>2, <3>1 DEF RowOK
  <2> QED
    BY <2>3, <2>4
<1>5. Jobs'
  <2>1. ASSUME NEW j \in jobs PROVE Sending(j.op)'
    <3>1. j.op \in Ops /\ Sending(j.op)
      BY <1>0, JobFacts DEF Jobs
    <3>2. row[j.op].attempts > 0
      BY <1>0, <3>1 DEF Sending, Rows, RowOK
    <3> QED
      BY <1>3, <3>1, <3>2 DEF Sending
  <2> QED
    BY <1>0, <1>1, <2>1 DEF Jobs
<1>6. Ordered'
  <2> SUFFICES ASSUME NEW a \in Ops, NEW b \in Ops, Earlier(a, b)', row'[b].attempts > 0
               PROVE  ~row'[a].pending
    BY DEF Ordered
  <2>1. row'[b] = row[b]
    BY AdmitFacts DEF NoRow
  <2>2. TicketOf[a] = TicketOf[b] /\ row'[a].seq < row[b].seq
    BY <2>1 DEF Earlier
  <2>3. row[b].seq <= sequence[TicketOf[b]]
    BY <1>0 DEF Rows, RowOK
  <2>4. row'[a] = row[a]
    BY <1>0, <1>2, <2>2, <2>3, AdmitFacts, RowFacts DEF TypeOK, RowType
  <2> QED
    BY <1>0, <2>1, <2>2, <2>4 DEF Ordered, Earlier
<1>7. Sent'
  BY <1>0, <1>1, <1>3 DEF Sent, TypeOK
<1>8. Applied'
  BY <1>0, <1>1, AdmitFacts DEF Applied, ConfirmedReached
<1>9. Superseded'
  <2> SUFFICES ASSUME NEW a \in Ops, NEW b \in landed, Earlier(a, b)', row'[a].seq > 0
               PROVE  ~Holds(a)'
    BY <1>1 DEF Superseded
  <2>1. b \in Ops /\ row[b].attempts > 0 /\ row'[b] = row[b]
    BY <1>0, <1>3 DEF Sent, TypeOK
  <2>2. TicketOf[a] = TicketOf[b] /\ row'[a].seq < row[b].seq
        /\ row[b].seq <= sequence[TicketOf[b]]
    BY <1>0, <2>1 DEF Earlier, Rows, RowOK
  <2>3. row'[a] = row[a]
    BY <1>0, <1>2, <2>1, <2>2, AdmitFacts, RowFacts DEF TypeOK, RowType
  <2> QED
    BY <1>0, <1>1, <2>1, <2>2, <2>3 DEF Superseded, Earlier, Holds
<1> QED
  BY <1>2, <1>4, <1>5, <1>6, <1>7, <1>8, <1>9 DEF IInv

-----------------------------------------------------------------------------
(* Dispatch.                                                               *)

\* A pass claims operations that nothing pending precedes.
LEMMA ClaimReadyInv ==
    ASSUME IInv, ClaimReady
    PROVE  IInv'
<1> DEFINE ready == {o \in Ops : Ready(o)}
           claimed(o) == [row[o] EXCEPT !.dispatch = "sending", !.attempts = @ + 1]
<1>0. TypeOK /\ Rows /\ Jobs /\ Ordered /\ Sent /\ Applied /\ Superseded
  BY DEF IInv
<1>1. /\ jobs = {} /\ UNCHANGED <<sequence, remote, discards, landed, used>>
      /\ row' = [o \in Ops |-> IF o \in ready THEN claimed(o) ELSE row[o]]
      /\ jobs' = {[op |-> o, at |-> "get", fresh |-> FALSE] : o \in ready}
  BY DEF ClaimReady
<1>2. ASSUME NEW o \in Ops
      PROVE  /\ claimed(o) \in RowType /\ claimed(o).seq = row[o].seq
             /\ claimed(o).attempts = row[o].attempts + 1
             /\ (claimed(o).pending <=> row[o].pending) /\ claimed(o).dispatch = "sending"
  <2>1. row[o] \in RowType /\ row[o].attempts + 1 \in Nat /\ "sending" \in Dispatch
    BY <1>0, RowFacts DEF Dispatch
  <2> QED
    BY <2>1 DEF RowType
<1> HIDE DEF claimed
<1>3. ASSUME NEW o \in Ops
      PROVE  /\ row'[o] \in RowType
             /\ o \in ready => row'[o] = claimed(o)
             /\ o \notin ready => row'[o] = row[o]
             /\ row'[o].seq = row[o].seq /\ row'[o].attempts >= row[o].attempts
             /\ row'[o].pending <=> row[o].pending
  BY <1>0, <1>1, <1>2, RowFacts
<1>4. TypeOK'
  <2>1. row' \in [Ops -> RowType]
    BY <1>1, <1>3
  <2>2. jobs' \subseteq JobType
    <3>1. ASSUME NEW o \in Ops
          PROVE  [op |-> o, at |-> "get", fresh |-> FALSE] \in JobType
      BY DEF JobType
    <3> QED
      BY <1>1, <3>1
  <2> QED
    BY <1>0, <1>1, <2>1, <2>2 DEF TypeOK
<1>5. Rows'
  <2> SUFFICES ASSUME NEW o \in Ops PROVE RowOK(o)'
    BY DEF Rows
  <2>1. CASE o \in ready
    BY <1>0, <1>1, <1>2, <1>3, <2>1, RowFacts DEF Rows, RowOK, Ready
  <2>2. CASE o \notin ready
    BY <1>0, <1>1, <1>3, <2>2 DEF Rows, RowOK
  <2> QED
    BY <2>1, <2>2
<1>6. Jobs'
  <2>1. ASSUME NEW o \in ready PROVE Sending(o)'
    BY <1>2, <1>3 DEF Sending, Ready
  <2>2. ASSUME NEW j \in jobs'
        PROVE  j.op \in ready /\ j = [op |-> j.op, at |-> "get", fresh |-> FALSE]
    BY <1>1
  <2> HIDE DEF ready
  <2> QED
    BY <2>1, <2>2 DEF Jobs
<1>7. Ordered'
  <2> SUFFICES ASSUME NEW a \in Ops, NEW b \in Ops, Earlier(a, b)', row'[b].attempts > 0
               PROVE  ~row'[a].pending
    BY DEF Ordered
  <2>1. Earlier(a, b)
    BY <1>3 DEF Earlier
  <2>2. CASE b \in ready
    BY <1>3, <2>1, <2>2 DEF Ready, Pending
  <2>3. CASE b \notin ready
    BY <1>0, <1>3, <2>1, <2>3 DEF Ordered
  <2> QED
    BY <2>2, <2>3
<1>8. Applied'
  BY <1>0, <1>1, <1>2, <1>3 DEF Applied, ConfirmedReached
<1> QED
  BY <1>1, <1>3, <1>4, <1>5, <1>6, <1>7, <1>8, SameRemote DEF IInv

\* A job that goes on to another place, the row and the provider as they are.
LEMMA AdvanceInv ==
    ASSUME IInv, NEW j \in jobs,
           NEW at \in {"get", "check", "put", "ack", "error"}, NEW fresh \in BOOLEAN,
           Advance(j, at, fresh), UNCHANGED <<row, sequence, remote, discards, landed>>
    PROVE  IInv'
<1> DEFINE k == [j EXCEPT !.at = at, !.fresh = fresh]
<1>1. TypeOK /\ Jobs /\ j \in JobType /\ j.op \in Ops
  BY JobFacts DEF IInv
<1>2. k \in JobType /\ k.op = j.op
  BY <1>1 DEF JobType
<1>3. jobs' = (jobs \ {j}) \cup {k}
  BY DEF Advance
<1> HIDE DEF k
<1>4. TypeOK'
  BY <1>1, <1>2, <1>3 DEF TypeOK
<1>5. Jobs'
  BY <1>1, <1>2, <1>3 DEF Jobs, Sending
<1> QED
  BY <1>4, <1>5
     DEF IInv, Rows, RowOK, Ordered, Earlier, Sent, Applied, ConfirmedReached, Superseded, Holds

\* A step that changes rows and starts no job: every remaining job still sends
\* its row, and what becomes confirmed has landed.
LEMMA RowInv ==
    ASSUME IInv, TypeOK', jobs' \subseteq jobs, UNCHANGED <<sequence, remote, landed>>,
           \A o \in Ops : Kept(o),
           \A j \in jobs' : Sending(j.op)',
           \A o \in Ops : row'[o].dispatch = "confirmed" =>
               row[o].dispatch = "confirmed" \/ o \in landed,
           \A d \in discards' : d.applied => d.op \in landed
    PROVE  IInv'
<1>0. TypeOK /\ Rows /\ Jobs /\ Ordered /\ Sent /\ Applied /\ Superseded
  BY DEF IInv
<1>1. Rows' /\ Ordered'
  BY KeptRows
<1>2. \A o \in Ops : row'[o].seq = row[o].seq /\ row'[o].attempts >= row[o].attempts
  BY <1>0, RowFacts DEF Kept
<1>3. Sent' /\ Superseded'
  BY <1>2, SameRemote
<1>4. Jobs' /\ Applied'
  BY <1>0 DEF Jobs, Applied, ConfirmedReached
<1> QED
  BY <1>1, <1>3, <1>4 DEF IInv

\* A job that ends, with what it does to its row and to rows not being sent.
LEMMA EndInv ==
    ASSUME IInv, NEW j \in jobs, jobs' = jobs \ {j},
           UNCHANGED <<sequence, remote, discards, landed>>,
           row' \in [Ops -> RowType], \A o \in Ops : Kept(o),
           \A o \in Ops \ {j.op} : Sending(o) => row'[o] = row[o],
           \A o \in Ops : row'[o].dispatch = "confirmed" =>
               row[o].dispatch = "confirmed" \/ o \in landed
    PROVE  IInv'
<1>1. TypeOK /\ Jobs /\ Applied
  BY DEF IInv
<1>2. TypeOK'
  BY <1>1 DEF TypeOK
<1>3. ASSUME NEW k \in jobs'
      PROVE  Sending(k.op)'
  <2>1. k.op # j.op /\ k.op \in Ops /\ Sending(k.op)
    BY <1>1, <1>3, JobFacts DEF Jobs
  <2>2. row'[k.op] = row[k.op]
    BY <2>1
  <2> QED
    BY <2>1, <2>2 DEF Sending
<1> QED
  BY <1>1, <1>2, <1>3, RowInv DEF Applied

\* What a provider shows has landed.
LEMMA HoldsLanded ==
    ASSUME IInv, NEW o \in Ops, Holds(o)
    PROVE  o \in landed
<1>1. TicketOf[o] \in Tickets /\ remote[TicketOf[o]] = o /\ o # Elsewhere
  BY OutboxAssumption DEF Holds
<1> QED
  BY <1>1 DEF IInv, Sent

\* A job that finds its edit confirms it.
LEMMA ConfirmInv ==
    ASSUME IInv, NEW j \in jobs, Holds(j.op), Confirm(j.op), jobs' = jobs \ {j},
           UNCHANGED <<sequence, remote, discards, landed>>
    PROVE  IInv'
<1>1. j.op \in Ops /\ Sending(j.op)
  BY JobFacts DEF IInv, Jobs
<1>2. Settle(j.op, "confirmed") /\ row[j.op].pending
  BY <1>1 DEF Confirm, Sending
<1>3. /\ row' \in [Ops -> RowType] /\ \A p \in Ops : Kept(p)
      /\ \A p \in Ops \ {j.op} : row'[p] = row[p]
  BY <1>1, <1>2, SettleFacts
<1>4. j.op \in landed
  BY <1>1, HoldsLanded
<1> QED
  BY <1>3, <1>4, EndInv

\* One row changes its dispatch state, without being settled or sent.
LEMMA DispatchFacts ==
    ASSUME IInv, NEW o \in Ops, row[o].pending, NEW waits \in BOOLEAN,
           NEW to \in {"queued", "rate_limited", "needs_attention"},
           row' = [row EXCEPT ![o] = [row[o] EXCEPT !.dispatch = to, !.waits = waits]]
    PROVE  /\ row' \in [Ops -> RowType] /\ \A p \in Ops : Kept(p)
           /\ \A p \in Ops \ {o} : row'[p] = row[p]
           /\ \A p \in Ops : row'[p].dispatch = "confirmed" => row[p].dispatch = "confirmed"
<1>1. row \in [Ops -> RowType] /\ row[o] \in RowType /\ to \in Dispatch /\ row[o] # NoRow
  BY DEF IInv, TypeOK, Dispatch, NoRow
<1> DEFINE r == [row[o] EXCEPT !.dispatch = to, !.waits = waits]
<1>2. /\ r \in RowType /\ r.seq = row[o].seq /\ r.attempts = row[o].attempts
      /\ r.dispatch = to
  BY <1>1 DEF RowType
<1> HIDE DEF r
<1>3. row'[o] = r /\ \A p \in Ops \ {o} : row'[p] = row[p]
  BY <1>1 DEF r
<1>4. Kept(o)
  BY <1>1, <1>2, <1>3 DEF Kept
<1>5. ASSUME NEW p \in Ops \ {o} PROVE Kept(p)
  BY <1>3 DEF Kept, IInv, Rows, RowOK
<1>6. row' \in [Ops -> RowType]
  BY <1>1, <1>2 DEF r
<1> QED
  BY <1>2, <1>3, <1>4, <1>5, <1>6

\* A job that ends in needs_attention.
LEMMA AttentionInv ==
    ASSUME IInv, NEW j \in jobs, row' = [row EXCEPT ![j.op].dispatch = "needs_attention"],
           jobs' = jobs \ {j}, UNCHANGED <<sequence, remote, discards, landed>>
    PROVE  IInv'
<1>1. j.op \in Ops /\ row[j.op].pending /\ TypeOK /\ row[j.op] \in RowType
  BY JobFacts, RowFacts DEF IInv, Jobs, Sending
<1>2. row[j.op].waits \in BOOLEAN
  BY <1>1, RowFacts
<1>3. [row[j.op] EXCEPT !.dispatch = "needs_attention"]
        = [row[j.op] EXCEPT !.dispatch = "needs_attention", !.waits = row[j.op].waits]
  BY <1>1, <1>2 DEF RowType
<1>4. row' = [row EXCEPT ![j.op] = [row[j.op] EXCEPT !.dispatch = "needs_attention",
                                                      !.waits = row[j.op].waits]]
  BY <1>1, <1>3
<1>5. /\ row' \in [Ops -> RowType] /\ \A p \in Ops : Kept(p)
      /\ \A p \in Ops \ {j.op} : row'[p] = row[p]
      /\ \A p \in Ops : row'[p].dispatch = "confirmed" => row[p].dispatch = "confirmed"
  BY <1>1, <1>2, <1>4, DispatchFacts
<1> QED
  BY <1>5, EndInv

\* A job that ends deferred, with the other rows a rate limit delays.
LEMMA DeferInv ==
    ASSUME IInv, NEW j \in jobs, NEW limited \in BOOLEAN, Defer(j, limited),
           jobs' = jobs \ {j}, UNCHANGED <<sequence, remote, discards, landed>>
    PROVE  IInv'
<1> DEFINE to == IF limited THEN "rate_limited" ELSE "queued"
           later(o) == limited /\ row[o].pending /\ row[o].dispatch \in {"queued", "rate_limited"}
<1>0. TypeOK /\ Rows /\ j.op \in Ops /\ row[j.op].pending
  BY JobFacts DEF IInv, Jobs, Sending
<1>1. ASSUME NEW o \in Ops, NEW d \in {"queued", "rate_limited"}, row[o].pending,
             row'[o] = [row[o] EXCEPT !.dispatch = d, !.waits = TRUE]
      PROVE  row'[o] \in RowType /\ Kept(o) /\ row'[o].dispatch # "confirmed"
  <2>1. row[o] \in RowType /\ d \in Dispatch /\ row[o] # NoRow
    BY <1>0, <1>1, RowFacts DEF Dispatch, NoRow
  <2>2. /\ row'[o] \in RowType /\ row'[o].seq = row[o].seq
        /\ row'[o].attempts = row[o].attempts /\ row'[o].dispatch = d
    BY <1>1, <2>1 DEF RowType
  <2> QED
    BY <1>1, <2>1, <2>2 DEF Kept
<1>2. ASSUME NEW o \in Ops
      PROVE  /\ row'[o] \in RowType /\ Kept(o)
             /\ row'[o].dispatch = "confirmed" => row[o].dispatch = "confirmed"
             /\ o # j.op /\ Sending(o) => row'[o] = row[o]
  <2>1. CASE o = j.op
    <3>1. row'[o] = [row[o] EXCEPT !.dispatch = to, !.waits = TRUE]
      BY <2>1 DEF Defer
    <3> QED
      BY <1>0, <1>1, <2>1, <3>1
  <2>2. CASE o # j.op /\ later(o)
    <3>1. row'[o] = [row[o] EXCEPT !.dispatch = "rate_limited", !.waits = TRUE]
      BY <2>2 DEF Defer
    <3> QED
      BY <1>1, <2>2, <3>1 DEF Sending
  <2>3. CASE o # j.op /\ ~later(o)
    <3>1. row'[o] = row[o]
      BY <2>3 DEF Defer
    <3> QED
      BY <1>0, <3>1, RowFacts DEF Kept, Rows, RowOK
  <2> QED
    BY <2>1, <2>2, <2>3
<1>3. row' \in [Ops -> RowType]
  BY <1>2 DEF Defer
<1> QED
  BY <1>2, <1>3, EndInv

\* The provider's ticket changes: what it shows has been sent, and nothing
\* that precedes it is pending.
LEMMA PutInv ==
    ASSUME IInv, NEW j \in jobs, NEW answered \in BOOLEAN, JobPut(j, answered)
    PROVE  IInv'
<1> DEFINE t == TicketOf[j.op]
           k == [j EXCEPT !.at = IF answered THEN "ack" ELSE "error"]
<1>0. TypeOK /\ Rows /\ Jobs /\ Ordered /\ Sent /\ Applied /\ Superseded
  BY DEF IInv
<1>1. j.op \in Ops /\ Sending(j.op) /\ j \in JobType /\ t \in Tickets
  BY <1>0, JobFacts, OutboxAssumption DEF Jobs
<1>2. /\ remote' = [remote EXCEPT ![t] = j.op] /\ landed' = landed \cup {j.op}
      /\ jobs' = Stale(jobs \ {j}, t) \cup {k}
      /\ UNCHANGED <<row, sequence, discards>>
  BY <1>1 DEF JobPut, SetRemote
<1>3. k \in JobType /\ k.op = j.op
  BY <1>1 DEF JobType
<1> HIDE DEF k
<1>4. ASSUME NEW i \in Stale(jobs \ {j}, t)
      PROVE  i \in JobType /\ \E h \in jobs \ {j} : h.op = i.op /\ h \in JobType
                              /\ i = IF TicketOf[h.op] = t THEN [h EXCEPT !.fresh = FALSE] ELSE h
  BY <1>0, JobFacts DEF Stale, JobType
<1>5. TypeOK'
  <2>1. jobs' \subseteq JobType
    BY <1>2, <1>3, <1>4
  <2> QED
    BY <1>0, <1>1, <1>2, <2>1 DEF TypeOK
<1>6. Jobs'
  <2>1. ASSUME NEW i \in jobs' PROVE Sending(i.op)'
    <3>1. CASE i = k
      BY <1>1, <1>2, <1>3, <3>1 DEF Sending
    <3>2. CASE i \in Stale(jobs \ {j}, t)
      <4>1. PICK h \in jobs : h.op = i.op
        BY <1>4, <3>2
      <4> QED
        BY <1>0, <1>2, <4>1 DEF Jobs, Sending
    <3> QED
      BY <1>2, <3>1, <3>2
  <2>2. ASSUME NEW i \in Stale(jobs \ {j}, t) PROVE i.op # k.op
    <3>1. PICK h \in jobs \ {j} : h.op = i.op
      BY <1>4
    <3> QED
      BY <1>0, <1>3, <3>1 DEF Jobs
  <2>3. ASSUME NEW i \in Stale(jobs \ {j}, t), NEW h \in Stale(jobs \ {j}, t), i.op = h.op
        PROVE  i = h
    <3>1. PICK i0 \in jobs \ {j} :
             /\ i0.op = i.op
             /\ i = IF TicketOf[i0.op] = t THEN [i0 EXCEPT !.fresh = FALSE] ELSE i0
      BY <1>4
    <3>2. PICK h0 \in jobs \ {j} :
             /\ h0.op = h.op
             /\ h = IF TicketOf[h0.op] = t THEN [h0 EXCEPT !.fresh = FALSE] ELSE h0
      BY <1>4
    <3>3. i0 = h0
      BY <1>0, <2>3, <3>1, <3>2 DEF Jobs
    <3> QED
      BY <3>1, <3>2, <3>3
  <2> QED
    BY <1>2, <2>1, <2>2, <2>3 DEF Jobs
<1>7. Rows' /\ Ordered'
  BY <1>0, <1>2 DEF Rows, RowOK, Ordered, Earlier
<1>8. row[j.op].attempts > 0
  BY <1>0, <1>1 DEF Sending, Rows, RowOK
<1>9. Sent'
  <2>1. \A o \in landed' : row'[o].attempts > 0
    BY <1>0, <1>2, <1>8 DEF Sent
  <2>2. \A u \in Tickets : remote'[u] # Elsewhere => remote'[u] \in landed' /\ TicketOf[remote'[u]] = u
    BY <1>0, <1>1, <1>2 DEF Sent, TypeOK
  <2> QED
    BY <2>1, <2>2 DEF Sent
<1>10. Applied'
  BY <1>0, <1>2 DEF Applied, ConfirmedReached
<1>11. Superseded'
  <2> SUFFICES ASSUME NEW a \in Ops, NEW b \in landed', Earlier(a, b), row[a].seq > 0, Holds(a)'
               PROVE  FALSE
    BY <1>2 DEF Superseded, Earlier
  <2>0. TicketOf[a] \in Tickets /\ TicketOf[a] = TicketOf[b] /\ b \in Ops
    BY <1>0, <1>1, <1>2, OutboxAssumption DEF Earlier, TypeOK
  <2>1. CASE TicketOf[a] = t
    <3>1. a = j.op
      BY <1>0, <1>2, <2>0, <2>1 DEF Holds, TypeOK
    <3>2. b # j.op
      BY <1>0, <1>1, <3>1, RowFacts DEF Earlier
    <3>3. row[b].attempts > 0
      BY <1>0, <1>2, <3>2 DEF Sent
    <3> QED
      BY <1>0, <1>1, <2>0, <3>1, <3>3 DEF Ordered, Sending
  <2>2. CASE TicketOf[a] # t
    <3>1. Holds(a) /\ b \in landed
      BY <1>0, <1>2, <2>0, <2>2 DEF Holds, TypeOK
    <3> QED
      BY <1>0, <3>1 DEF Superseded
  <2> QED
    BY <2>1, <2>2
<1> QED
  BY <1>5, <1>6, <1>7, <1>9, <1>10, <1>11 DEF IInv

\* Somebody else's edit of the ticket shows no operation at all.
LEMMA RemoteEditInv ==
    ASSUME IInv, NEW t \in Tickets, RemoteEdit(t)
    PROVE  IInv'
<1>0. TypeOK /\ Rows /\ Jobs /\ Ordered /\ Sent /\ Applied /\ Superseded
  BY DEF IInv
<1>1. /\ remote' = [remote EXCEPT ![t] = Elsewhere] /\ landed' = landed
      /\ jobs' = Stale(jobs, t) /\ UNCHANGED <<row, sequence, discards>>
  BY OutboxAssumption DEF RemoteEdit, SetRemote
<1>2. ASSUME NEW i \in jobs'
      PROVE  i \in JobType /\ \E h \in jobs : h.op = i.op /\ h \in JobType
                              /\ i = IF TicketOf[h.op] = t THEN [h EXCEPT !.fresh = FALSE] ELSE h
  BY <1>0, <1>1, JobFacts DEF Stale, JobType
<1>3. TypeOK'
  BY <1>0, <1>1, <1>2 DEF TypeOK
<1>4. Jobs'
  <2>1. ASSUME NEW i \in jobs' PROVE Sending(i.op)'
    BY <1>0, <1>1, <1>2, <2>1 DEF Jobs, Sending
  <2>2. ASSUME NEW i \in jobs', NEW h \in jobs', i.op = h.op PROVE i = h
    <3>1. PICK i0 \in jobs :
             /\ i0.op = i.op
             /\ i = IF TicketOf[i0.op] = t THEN [i0 EXCEPT !.fresh = FALSE] ELSE i0
      BY <1>2
    <3>2. PICK h0 \in jobs :
             /\ h0.op = h.op
             /\ h = IF TicketOf[h0.op] = t THEN [h0 EXCEPT !.fresh = FALSE] ELSE h0
      BY <1>2
    <3>3. i0 = h0
      BY <1>0, <2>2, <3>1, <3>2 DEF Jobs
    <3> QED
      BY <3>1, <3>2, <3>3
  <2> QED
    BY <2>1, <2>2 DEF Jobs
<1>5. Rows' /\ Ordered' /\ Applied'
  BY <1>0, <1>1 DEF Rows, RowOK, Ordered, Earlier, Applied, ConfirmedReached
<1>6. Sent'
  BY <1>0, <1>1 DEF Sent, TypeOK
<1>7. Superseded'
  <2> SUFFICES ASSUME NEW a \in Ops, NEW b \in landed, Earlier(a, b), row[a].seq > 0, Holds(a)'
               PROVE  FALSE
    BY <1>1 DEF Superseded, Earlier
  <2>1. TicketOf[a] \in Tickets /\ a # Elsewhere
    BY OutboxAssumption
  <2>2. Holds(a)
    BY <1>0, <1>1, <2>1 DEF Holds, TypeOK
  <2> QED
    BY <1>0, <2>2 DEF Superseded
<1> QED
  BY <1>3, <1>4, <1>5, <1>6, <1>7 DEF IInv

\* A row that is not being sent becomes due, or is queued again by the user.
LEMMA DueRetryInv ==
    ASSUME IInv, NEW o \in Ops, Due(o) \/ Retry(o)
    PROVE  IInv'
<1>0. TypeOK /\ Rows /\ Jobs /\ Applied /\ row[o] \in RowType
  BY RowFacts DEF IInv
<1>1. row[o].pending /\ UNCHANGED <<sequence, remote, jobs, discards, landed>>
  BY DEF Due, Retry
<1>2. CASE Due(o)
  <2> DEFINE r == [row[o] EXCEPT !.waits = FALSE]
  <2>1. /\ r \in RowType /\ r.seq = row[o].seq /\ r.attempts = row[o].attempts
        /\ r.dispatch = row[o].dispatch /\ (r.pending <=> row[o].pending)
    BY <1>0 DEF RowType
  <2> HIDE DEF r
  <2>2. row' = [row EXCEPT ![o] = r]
    BY <1>0, <1>2 DEF Due, r
  <2>3. row' \in [Ops -> RowType] /\ row'[o] = r /\ \A p \in Ops \ {o} : row'[p] = row[p]
    BY <1>0, <2>1, <2>2 DEF TypeOK
  <2>4. \A p \in Ops : Kept(p)
    <3>1. row[o] # NoRow
      BY <1>1 DEF NoRow
    <3>2. Kept(o)
      BY <1>0, <2>1, <2>3, <3>1 DEF Kept, Rows, RowOK
    <3>3. ASSUME NEW p \in Ops \ {o} PROVE Kept(p)
      BY <1>0, <2>3 DEF Kept, Rows, RowOK
    <3> QED
      BY <3>2, <3>3
  <2>5. ASSUME NEW p \in Ops
        PROVE  row'[p].dispatch = row[p].dispatch /\ (row'[p].pending <=> row[p].pending)
    BY <2>1, <2>3
  <2>6. TypeOK'
    BY <1>0, <1>1, <2>3 DEF TypeOK
  <2>7. \A k \in jobs' : Sending(k.op)'
    BY <1>0, <1>1, <2>5, JobFacts DEF Jobs, Sending
  <2> QED
    BY <1>0, <1>1, <2>4, <2>5, <2>6, <2>7, RowInv DEF Applied
<1>3. CASE Retry(o)
  <2>1. row' = [row EXCEPT ![o] = [row[o] EXCEPT !.dispatch = "queued", !.waits = FALSE]]
    BY <1>0, <1>3 DEF Retry
  <2>2. /\ row' \in [Ops -> RowType] /\ \A p \in Ops : Kept(p)
        /\ \A p \in Ops \ {o} : row'[p] = row[p]
        /\ \A p \in Ops : row'[p].dispatch = "confirmed" => row[p].dispatch = "confirmed"
    BY <1>1, <2>1, DispatchFacts
  <2>3. TypeOK'
    BY <1>0, <1>1, <2>2 DEF TypeOK
  <2>4. ASSUME NEW k \in jobs' PROVE Sending(k.op)'
    <3>1. k.op \in Ops /\ Sending(k.op) /\ k.op # o
      BY <1>0, <1>1, <1>3, <2>4, JobFacts DEF Jobs, Sending, Retry
    <3> QED
      BY <2>2, <3>1 DEF Sending
  <2> QED
    BY <1>0, <1>1, <2>2, <2>3, <2>4, RowInv DEF Applied
<1> QED
  BY <1>2, <1>3

\* Every step of a job.
LEMMA JobInv ==
    ASSUME IInv, NEW j \in jobs, Job(j) \/ JobPut(j, FALSE) \/ JobFault(j)
    PROVE  IInv'
<1>1. CASE JobGet(j)
  <2>1. CASE Holds(j.op)
    BY <1>1, <2>1, ConfirmInv DEF JobGet
  <2>2. CASE ~Holds(j.op)
    BY <1>1, <2>2, AdvanceInv DEF JobGet
  <2> QED
    BY <2>1, <2>2
<1>2. CASE JobCheck(j)
  BY <1>2, AdvanceInv DEF JobCheck
<1>3. CASE JobPut(j, TRUE) \/ JobPut(j, FALSE)
  BY <1>3, PutInv
<1>4. CASE JobAck(j)
  <2>1. CASE Holds(j.op)
    BY <1>4, <2>1, ConfirmInv DEF JobAck
  <2>2. CASE ~Holds(j.op)
    BY <1>4, <2>2, AttentionInv DEF JobAck
  <2> QED
    BY <2>1, <2>2
<1>5. ASSUME NEW kind \in {"fatal", "limited", "other"}, JobError(j, kind) PROVE IInv'
  <2>1. jobs' = jobs \ {j} /\ UNCHANGED <<sequence, remote, discards, landed>>
    BY <1>5 DEF JobError
  <2>2. CASE Attention(j)
    BY <2>1, <2>2, AttentionInv DEF Attention
  <2>3. CASE Defer(j, TRUE) \/ Defer(j, FALSE)
    BY <2>1, <2>3, DeferInv
  <2> QED
    BY <1>5, <2>2, <2>3 DEF JobError
<1>6. CASE JobFault(j)
  BY <1>6, AdvanceInv DEF JobFault
<1> QED
  BY <1>1, <1>2, <1>3, <1>4, <1>5, <1>6 DEF Job

-----------------------------------------------------------------------------
(* Discards and restarts.                                                  *)

\* The requests change, the rows do not.
LEMMA RequestsInv ==
    ASSUME IInv, discards' \subseteq DiscardType, \A d \in discards' : d.applied => d.op \in landed,
           UNCHANGED <<row, sequence, remote, jobs, landed>>
    PROVE  IInv'
<1>1. TypeOK'
  BY DEF IInv, TypeOK
<1> QED
  BY <1>1
     DEF IInv, Rows, RowOK, Ordered, Earlier, Sent, Applied, ConfirmedReached, Superseded,
         Holds, Jobs, Sending

LEMMA DiscardLookInv ==
    ASSUME IInv, NEW o \in Ops, DiscardLook(o)
    PROVE  IInv'
<1> DEFINE d0 == [op |-> o, applied |-> FALSE,
                  at |-> IF row[o].attempts = 0 THEN "settle" ELSE "readback"]
<1>1. d0 \in DiscardType /\ ~d0.applied
  BY DEF DiscardType
<1>2. discards' = discards \cup {d0} /\ UNCHANGED <<row, sequence, remote, jobs, landed>>
  BY DEF DiscardLook
<1> HIDE DEF d0
<1> QED
  BY <1>1, <1>2, RequestsInv DEF IInv, TypeOK, Applied

LEMMA DiscardReadbackInv ==
    ASSUME IInv, NEW d \in discards, NEW fails \in BOOLEAN, DiscardReadback(d, fails)
    PROVE  IInv'
<1>0. TypeOK /\ Applied /\ d \in DiscardType /\ d.op \in Ops
  BY DiscardFacts DEF IInv
<1>1. UNCHANGED <<row, sequence, remote, jobs, landed>>
  BY DEF DiscardReadback
<1>2. CASE discards' = discards \ {d}
  BY <1>0, <1>1, <1>2, RequestsInv DEF TypeOK, Applied
<1>3. CASE discards' # discards \ {d}
  <2> DEFINE e == [d EXCEPT !.at = "settle", !.applied = Holds(d.op)]
  <2>1. discards' = (discards \ {d}) \cup {e}
    BY <1>3 DEF DiscardReadback
  <2>2. Holds(d.op) \in BOOLEAN
    BY DEF Holds
  <2>3. e \in DiscardType /\ e.op = d.op /\ (e.applied <=> Holds(d.op))
    BY <1>0, <2>2 DEF DiscardType
  <2> HIDE DEF e
  <2>4. e.applied => e.op \in landed
    BY <1>0, <2>3, HoldsLanded
  <2> QED
    BY <1>0, <1>1, <2>1, <2>3, <2>4, RequestsInv DEF TypeOK, Applied
<1> QED
  BY <1>2, <1>3

LEMMA DiscardSettleInv ==
    ASSUME IInv, NEW d \in discards, DiscardSettle(d)
    PROVE  IInv'
<1>0. TypeOK /\ Jobs /\ Applied /\ d.op \in Ops
  BY DiscardFacts DEF IInv
<1>1. discards' = discards \ {d} /\ UNCHANGED <<sequence, remote, jobs, landed>>
  BY DEF DiscardSettle
<1>2. CASE ~MayDiscard(d.op)
  BY <1>0, <1>1, <1>2, RequestsInv DEF DiscardSettle, TypeOK, Applied
<1>3. CASE MayDiscard(d.op)
  <2> DEFINE how == IF d.applied THEN "confirmed" ELSE "discarded"
  <2>1. Settle(d.op, how) /\ row[d.op].pending /\ row[d.op].dispatch # "sending"
    BY <1>3 DEF DiscardSettle, MayDiscard
  <2>2. /\ row' \in [Ops -> RowType] /\ \A p \in Ops : Kept(p)
        /\ \A p \in Ops \ {d.op} : row'[p] = row[p]
        /\ row'[d.op].dispatch = how
    BY <1>0, <2>1, SettleFacts
  <2>3. how = "confirmed" => d.op \in landed
    BY <1>0 DEF Applied
  <2> HIDE DEF how
  <2>4. TypeOK'
    BY <1>0, <1>1, <2>2 DEF TypeOK
  <2>5. ASSUME NEW k \in jobs' PROVE Sending(k.op)'
    <3>1. k.op \in Ops /\ Sending(k.op) /\ k.op # d.op
      BY <1>0, <1>1, <2>1, <2>5, JobFacts DEF Jobs, Sending
    <3> QED
      BY <2>2, <3>1 DEF Sending
  <2>6. \A o \in Ops : row'[o].dispatch = "confirmed" =>
            row[o].dispatch = "confirmed" \/ o \in landed
    BY <2>2, <2>3
  <2> QED
    BY <1>0, <1>1, <2>2, <2>4, <2>5, <2>6, RowInv DEF Applied
<1> QED
  BY <1>2, <1>3

\* The outbox is opened again: no job is left, and nothing stays sending.
LEMMA RestartInv ==
    ASSUME IInv, Restart
    PROVE  IInv'
<1>0. TypeOK /\ Rows
  BY DEF IInv
<1>1. /\ jobs' = {} /\ discards' = {} /\ UNCHANGED <<sequence, remote, landed>>
      /\ row' = [o \in Ops |-> Reopened(o)]
  BY DEF Restart
<1>2. ASSUME NEW o \in Ops
      PROVE  /\ row'[o] \in RowType /\ Kept(o)
             /\ row'[o].dispatch = "confirmed" => row[o].dispatch = "confirmed"
  <2>1. CASE Sending(o)
    <3>1. row'[o] = [row[o] EXCEPT !.dispatch = "queued"] /\ row[o] \in RowType
          /\ row[o] # NoRow /\ row[o].pending
      BY <1>0, <1>1, <2>1, RowFacts DEF Reopened, Sending, NoRow
    <3>2. /\ row'[o] \in RowType /\ row'[o].seq = row[o].seq
          /\ row'[o].attempts = row[o].attempts /\ row'[o].dispatch = "queued"
      BY <3>1 DEF RowType, Dispatch
    <3> QED
      BY <3>1, <3>2 DEF Kept
  <2>2. CASE ~Sending(o)
    <3>1. row'[o] = row[o]
      BY <1>1, <2>2 DEF Reopened
    <3> QED
      BY <1>0, <3>1, RowFacts DEF Kept, Rows, RowOK
  <2> QED
    BY <2>1, <2>2
<1>3. TypeOK'
  BY <1>0, <1>1, <1>2 DEF TypeOK
<1> QED
  BY <1>1, <1>2, <1>3, RowInv

-----------------------------------------------------------------------------
(* The theorems.                                                           *)

LEMMA StepInv == IInv /\ [Next]_vars => IInv'
<1> SUFFICES ASSUME IInv, [Next]_vars PROVE IInv'
  OBVIOUS
<1>1. CASE UNCHANGED vars
  BY <1>1, RequestsInv DEF vars, IInv, TypeOK, Applied
<1>2. CASE ClaimReady
  BY <1>2, ClaimReadyInv
<1>3. ASSUME NEW j \in jobs, Job(j) \/ JobPut(j, FALSE) \/ JobFault(j) PROVE IInv'
  BY <1>3, JobInv
<1>4. ASSUME NEW d \in discards, NEW fails \in BOOLEAN, DiscardReadback(d, fails) PROVE IInv'
  BY <1>4, DiscardReadbackInv
<1>5. ASSUME NEW d \in discards, DiscardSettle(d) PROVE IInv'
  BY <1>5, DiscardSettleInv
<1>6. ASSUME NEW b \in Batches, Admit(b) PROVE IInv'
  BY <1>6, AdmitInv
<1>7. ASSUME NEW o \in Ops, Due(o) \/ Retry(o) \/ DiscardLook(o) PROVE IInv'
  BY <1>7, DueRetryInv, DiscardLookInv
<1>8. ASSUME NEW t \in Tickets, RemoteEdit(t) PROVE IInv'
  BY <1>8, RemoteEditInv
<1>9. CASE Restart
  BY <1>9, RestartInv
<1> QED
  BY <1>1, <1>2, <1>3, <1>4, <1>5, <1>6, <1>7, <1>8, <1>9 DEF Next, Server

\* The outbox's state keeps the inductive invariant, whatever faults, restarts,
\* retries and discards interleave.
THEOREM OutboxInvariance == Spec => []IInv
<1> QED
  BY InitInv, StepInv, PTL DEF Spec

\* Every variable of the outbox and its dispatcher keeps its type.
THEOREM OutboxTypeCorrect == Spec => []TypeOK
<1>1. IInv => TypeOK
  BY DEF IInv
<1> QED
  BY <1>1, OutboxInvariance, PTL

\* A row is confirmed, by its job or by a discard's readback, only if the
\* provider's ticket really had its value.
THEOREM ConfirmedReachedTheorem == Spec => []ConfirmedReached
<1>1. IInv => ConfirmedReached
  BY DEF IInv, Applied
<1> QED
  BY <1>1, OutboxInvariance, PTL

\* Once an operation is confirmed, no earlier operation of its ticket is shown
\* by the provider again.
THEOREM LaterIntentTheorem == Spec => []LaterIntentStays
<1>1. IInv => LaterIntentStays
  BY DEF IInv, Applied, ConfirmedReached, Superseded, LaterIntentStays
<1> QED
  BY <1>1, OutboxInvariance, PTL

\* A PUT is only ever made for a row that is still being sent, when nothing
\* before it in its ticket is pending: no restart, retry or discard lets a
\* dispatch overtake.
THEOREM WritesInOrderTheorem == Spec => WritesInOrder
<1> DEFINE A == \A j \in jobs :
          (j.at = "put" /\ remote' # remote /\ remote'[TicketOf[j.op]] = j.op)
          => Sending(j.op) /\ ~\E e \in Pending : Earlier(e, j.op)
<1>1. IInv => A
  <2> SUFFICES ASSUME IInv, NEW j \in jobs
               PROVE  Sending(j.op) /\ ~\E e \in Pending : Earlier(e, j.op)
    OBVIOUS
  <2>1. j.op \in Ops /\ Sending(j.op)
    BY JobFacts DEF IInv, Jobs
  <2>2. row[j.op].attempts > 0
    BY <2>1 DEF IInv, Rows, RowOK, Sending
  <2> QED
    BY <2>1, <2>2 DEF IInv, Ordered, Pending
<1>2. Spec => [][A]_vars
  BY <1>1, OutboxInvariance, PTL
<1> QED
  BY <1>2 DEF WritesInOrder

-----------------------------------------------------------------------------
(* OutboxRetention: the retry fence.                                       *)

\* Only admitted operations have rows; a dated operation that was admitted
\* and has no row any more lies below the floor; and no row, present or
\* deleted, is ordered after the high-water mark.
RowsAdmitted == \A o \in Ids : rowOf[o].state # "absent" => o \in ever
Fence == \A o \in Ids \ Legacy : o \in ever /\ rowOf[o].state = "absent" => IdTime[o] < floor
Marks == highest = lastSequence /\ \A o \in Ids : seq[o] <= lastSequence

RetentionInv == RetentionTypeOK /\ RowsAdmitted /\ Fence /\ Marks

\* The floor never retreats, and is a number.
LEMMA FloorAdvances ==
    ASSUME RetentionTypeOK
    PROVE  NewFloor \in Nat /\ NewFloor >= floor /\ NewFloor >= clock - Retention
BY RetentionAssumption DEF RetentionTypeOK, NewFloor, Larger

\* What compaction and pruning make of a row: it keeps its state, becomes
\* compact, or is deleted because its id can no longer be admitted.
LEMMA KeptRow ==
    ASSUME RetentionTypeOK, NEW o \in Ids
    PROVE  /\ AfterCleanup(o) \in FenceRow
           /\ AfterCleanup(o).state = "queued" <=> rowOf[o].state = "queued"
           /\ rowOf[o].state = "absent" => AfterCleanup(o).state = "absent"
           /\ (AfterCleanup(o).state = "absent" /\ rowOf[o].state # "absent")
              => Prunable(o)
<1>1. rowOf[o] \in FenceRow
  BY DEF RetentionTypeOK
<1>2. /\ Compacted(o) \in FenceRow
      /\ Compacted(o).state = "queued" <=> rowOf[o].state = "queued"
      /\ Compacted(o).state = "absent" <=> rowOf[o].state = "absent"
  BY <1>1 DEF Compacted, FenceRow
<1>3. Prunable(o) => Compacted(o).state = "compact"
  BY DEF Prunable
<1>4. Absent \in FenceRow /\ Absent.state = "absent"
  BY DEF Absent, FenceRow
<1>5. CASE Prunable(o)
  BY <1>2, <1>3, <1>4, <1>5 DEF AfterCleanup
<1>6. CASE ~Prunable(o)
  BY <1>2, <1>6 DEF AfterCleanup
<1> QED
  BY <1>5, <1>6

\* Pruning preserves the fence: a deleted dated row lies below the new floor.
LEMMA FenceKept ==
    ASSUME RetentionInv, NEW o \in Ids \ Legacy, o \in ever, AfterCleanup(o).state = "absent"
    PROVE  IdTime[o] < NewFloor
<1>1. RetentionTypeOK /\ Fence
  BY DEF RetentionInv
<1>2. IdTime[o] \in Nat /\ floor \in Nat /\ NewFloor \in Nat /\ floor <= NewFloor
  BY <1>1, FloorAdvances, RetentionAssumption DEF RetentionTypeOK
<1>3. CASE rowOf[o].state = "absent"
  <2>1. IdTime[o] < floor
    BY <1>1, <1>3 DEF Fence
  <2> QED
    BY <1>2, <2>1
<1>4. CASE rowOf[o].state # "absent"
  <2>1. Prunable(o)
    BY <1>1, <1>4, KeptRow
  <2> QED
    BY <2>1 DEF Prunable
<1> QED
  BY <1>3, <1>4

LEMMA RetentionInitInv == RetentionInit => RetentionInv
BY DEF RetentionInit, RetentionInv, RetentionTypeOK, RowsAdmitted, Fence, Marks, Absent, FenceRow

LEMMA OpenInv ==
    ASSUME RetentionInv, Open
    PROVE  RetentionInv'
<1>1. RetentionTypeOK /\ RowsAdmitted /\ Marks
  BY DEF RetentionInv
<1>2. floor' = NewFloor /\ rowOf' = [o \in Ids |-> AfterCleanup(o)]
      /\ UNCHANGED <<clock, seq, ever, highest>>
  BY DEF Open
<1>3. lastSequence' = lastSequence
  <2> DEFINE marks == {lastSequence} \cup {seq[o] : o \in {o \in Ids : rowOf[o] # Absent}}
  <2>1. lastSequence' = CHOOSE n \in marks : \A k \in marks : k <= n
    BY DEF Open
  <2>2. lastSequence \in marks /\ (\A k \in marks : k <= lastSequence /\ k \in Nat)
    BY <1>1 DEF Marks, RetentionTypeOK
  <2>3. \A n \in marks : (\A k \in marks : k <= n) => n = lastSequence
    BY <2>2
  <2> QED
    BY <2>1, <2>2, <2>3
<1>4. RetentionTypeOK'
  BY <1>1, <1>2, <1>3, KeptRow, FloorAdvances DEF RetentionTypeOK
<1>5. RowsAdmitted'
  BY <1>1, <1>2, KeptRow DEF RowsAdmitted
<1>6. Fence'
  BY <1>2, FenceKept DEF Fence
<1>7. Marks'
  BY <1>1, <1>2, <1>3 DEF Marks
<1> QED
  BY <1>4, <1>5, <1>6, <1>7 DEF RetentionInv

LEMMA SubmitInv ==
    ASSUME RetentionInv, NEW o \in Ids, Submit(o)
    PROVE  RetentionInv'
<1> DEFINE accepted == AfterCleanup(o) = Absent /\ Admissible(o)
<1>1. RetentionTypeOK /\ RowsAdmitted /\ Marks
  BY DEF RetentionInv
<1>2. /\ floor' = NewFloor
      /\ rowOf' = [p \in Ids |-> IF p = o /\ accepted THEN [Absent EXCEPT !.state = "queued"]
                               ELSE AfterCleanup(p)]
      /\ UNCHANGED clock
  BY DEF Submit
<1>3. /\ seq' = IF accepted THEN [seq EXCEPT ![o] = lastSequence + 1] ELSE seq
      /\ lastSequence' = IF accepted THEN lastSequence + 1 ELSE lastSequence
      /\ ever' = IF accepted THEN ever \cup {o} ELSE ever
      /\ highest' = IF accepted THEN Larger(highest, lastSequence + 1) ELSE highest
  BY DEF Submit, NextSequence
<1>4. [Absent EXCEPT !.state = "queued"] \in FenceRow
      /\ [Absent EXCEPT !.state = "queued"].state = "queued"
  BY DEF Absent, FenceRow
<1>5. \A p \in Ids : rowOf'[p] \in FenceRow
  BY <1>1, <1>2, <1>4, KeptRow
<1>6. rowOf' \in [Ids -> FenceRow]
  BY <1>2, <1>5
<1>7. RetentionTypeOK'
  <2>1. seq' \in [Ids -> Nat] /\ lastSequence' \in Nat
    BY <1>1, <1>3 DEF RetentionTypeOK
  <2>2. ever' \subseteq Ids /\ highest' \in Nat
    BY <1>1, <1>3 DEF RetentionTypeOK, Larger
  <2> QED
    BY <1>1, <1>2, <1>6, <2>1, <2>2, FloorAdvances DEF RetentionTypeOK
<1>8. RowsAdmitted'
  <2> SUFFICES ASSUME NEW p \in Ids, rowOf'[p].state # "absent"
               PROVE  p \in ever'
    BY DEF RowsAdmitted
  <2>1. CASE p = o /\ accepted
    BY <1>3, <2>1
  <2>2. CASE ~(p = o /\ accepted)
    <3>1. rowOf'[p] = AfterCleanup(p)
      BY <1>2, <2>2
    <3>2. rowOf[p].state # "absent"
      BY <1>1, <3>1, KeptRow
    <3> QED
      BY <1>1, <1>3, <3>2 DEF RowsAdmitted
  <2> QED
    BY <2>1, <2>2
<1>9. Fence'
  <2> SUFFICES ASSUME NEW p \in Ids \ Legacy, p \in ever', rowOf'[p].state = "absent"
               PROVE  IdTime[p] < floor'
    BY DEF Fence
  <2>1. ~(p = o /\ accepted)
    BY <1>2, <1>4
  <2>2. rowOf'[p] = AfterCleanup(p) /\ p \in ever
    BY <1>2, <1>3, <2>1
  <2> QED
    BY <1>2, <2>2, FenceKept
<1>10. Marks'
  BY <1>1, <1>3 DEF Marks, RetentionTypeOK, Larger
<1> QED
  BY <1>7, <1>8, <1>9, <1>10 DEF RetentionInv

LEMMA RetentionStepInv == RetentionInv /\ [RetentionNext]_retentionVars => RetentionInv'
<1> SUFFICES ASSUME RetentionInv, [RetentionNext]_retentionVars PROVE RetentionInv'
  OBVIOUS
<1>1. CASE Tick
  BY <1>1 DEF Tick, RetentionInv, RetentionTypeOK, RowsAdmitted, Fence, Marks
<1>2. CASE Open
  BY <1>2, OpenInv
<1>3. ASSUME NEW to \in 0..MaxTime, SetBack(to)
      PROVE  RetentionInv'
  BY <1>3 DEF SetBack, RetentionInv, RetentionTypeOK, RowsAdmitted, Fence, Marks
<1>4. ASSUME NEW o \in Ids, Submit(o)
      PROVE  RetentionInv'
  BY <1>4, SubmitInv
<1>5. ASSUME NEW o \in Ids, SettleId(o)
      PROVE  RetentionInv'
  BY <1>5 DEF SettleId, RetentionInv, RetentionTypeOK, FenceRow, RowsAdmitted, Fence, Marks
<1>6. CASE UNCHANGED retentionVars
  BY <1>6 DEF retentionVars, RetentionInv, RetentionTypeOK, RowsAdmitted, Fence, Marks
<1> QED
  BY <1>1, <1>2, <1>3, <1>4, <1>5, <1>6 DEF RetentionNext

\* The inductive invariant holds in every reachable state.
THEOREM RetentionInvariance == RetentionSpec => []RetentionInv
BY RetentionInitInv, RetentionStepInv, PTL DEF RetentionSpec

\* Every variable keeps its type.
THEOREM RetentionTypeCorrect == RetentionSpec => []RetentionTypeOK
<1>1. RetentionInv => RetentionTypeOK
  BY DEF RetentionInv
<1> QED
  BY <1>1, RetentionInvariance, PTL

\* Only a submission inserts a row, and only of an id it accepts.
LEMMA InsertedBySubmit ==
    ASSUME RetentionInv, [RetentionNext]_retentionVars, NEW o \in Ids, Inserted(o)
    PROVE  Submit(o) /\ AfterCleanup(o) = Absent /\ Admissible(o)
<1>1. RetentionTypeOK
  BY DEF RetentionInv
<1>2. ASSUME NEW p \in Ids, Submit(p)
      PROVE  p = o /\ AfterCleanup(o) = Absent /\ Admissible(o)
  <2>1. rowOf'[o] = IF o = p /\ AfterCleanup(p) = Absent /\ Admissible(p)
                  THEN [Absent EXCEPT !.state = "queued"] ELSE AfterCleanup(o)
    BY <1>2 DEF Submit
  <2>2. AfterCleanup(o).state # "queued"
    BY <1>1, KeptRow DEF Inserted
  <2> QED
    BY <2>1, <2>2 DEF Inserted
<1>3. ASSUME Open PROVE FALSE
  <2>1. rowOf'[o] = AfterCleanup(o)
    BY <1>3 DEF Open
  <2> QED
    BY <1>1, <2>1, KeptRow DEF Inserted
<1>4. ASSUME NEW p \in Ids, SettleId(p) PROVE FALSE
  BY <1>1, <1>4 DEF SettleId, Inserted, RetentionTypeOK, FenceRow
<1>5. ASSUME UNCHANGED rowOf PROVE FALSE
  BY <1>5 DEF Inserted
<1> QED
  BY <1>2, <1>3, <1>4, <1>5 DEF RetentionNext, Tick, SetBack, retentionVars

\* A dated operation is admitted at most once, however late it is resubmitted
\* and whatever the clock does.
THEOREM DatedAdmittedOnceTheorem == RetentionSpec => DatedAdmittedOnce
<1>1. ASSUME RetentionInv, [RetentionNext]_retentionVars
      PROVE  [\A o \in Ids \ Legacy : Inserted(o) => o \notin ever]_retentionVars
  <2> SUFFICES ASSUME NEW o \in Ids \ Legacy, Inserted(o), o \in ever
               PROVE  FALSE
    OBVIOUS
  <2>1. AfterCleanup(o) = Absent /\ Admissible(o)
    BY <1>1, InsertedBySubmit
  <2>2. IdTime[o] < NewFloor
    BY <1>1, <2>1, FenceKept DEF Absent
  <2>3. IdTime[o] >= NewFloor
    BY <2>1 DEF Admissible
  <2>4. IdTime[o] \in Nat /\ NewFloor \in Nat
    BY <1>1, FloorAdvances, RetentionAssumption DEF RetentionInv
  <2> QED
    BY <2>2, <2>3, <2>4
<1> QED
  BY <1>1, RetentionInvariance, PTL DEF RetentionSpec, DatedAdmittedOnce

\* Until the clock is set back, an id without a timestamp that was admitted
\* and has no row any more was deleted at or after the cutoff.
Undated ==
    /\ setBacks \in Nat
    /\ setBacks = 0 =>
         \A o \in Legacy : o \in ever /\ rowOf[o].state = "absent" => clock >= Cutoff

LEMMA UndatedKept ==
    ASSUME RetentionInv, Undated, setBacks = 0,
           NEW o \in Legacy, o \in ever, AfterCleanup(o).state = "absent"
    PROVE  clock >= Cutoff
<1>1. o \in Ids /\ RetentionTypeOK
  BY RetentionAssumption DEF RetentionInv
<1>2. CASE rowOf[o].state = "absent"
  BY <1>2 DEF Undated
<1>3. CASE rowOf[o].state # "absent"
  <2>1. Prunable(o)
    BY <1>1, <1>3, KeptRow
  <2> QED
    BY <2>1 DEF Prunable
<1> QED
  BY <1>2, <1>3

LEMMA UndatedStep == RetentionInv /\ Undated /\ [RetentionNext]_retentionVars => Undated'
<1> SUFFICES ASSUME RetentionInv, Undated, [RetentionNext]_retentionVars PROVE Undated'
  OBVIOUS
<1>1. clock \in Nat /\ Cutoff \in Nat /\ setBacks \in Nat /\ Legacy \subseteq Ids
  BY RetentionAssumption DEF RetentionInv, RetentionTypeOK, Undated
<1>2. CASE Tick
  BY <1>1, <1>2 DEF Tick, Undated
<1>3. CASE Open
  <2>1. UNCHANGED <<clock, ever, setBacks>> /\ \A o \in Legacy : rowOf'[o] = AfterCleanup(o)
    BY <1>1, <1>3 DEF Open
  <2>2. ASSUME setBacks = 0, NEW o \in Legacy, o \in ever, rowOf'[o].state = "absent"
        PROVE  clock >= Cutoff
    BY <2>1, <2>2, UndatedKept
  <2> QED
    BY <1>1, <2>1, <2>2 DEF Undated
<1>4. ASSUME NEW to \in 0..MaxTime, SetBack(to)
      PROVE  Undated'
  BY <1>1, <1>4 DEF SetBack, Undated
<1>5. ASSUME NEW p \in Ids, Submit(p)
      PROVE  Undated'
  <2>1. UNCHANGED <<clock, setBacks>>
    BY <1>5 DEF Submit
  <2>2. ASSUME setBacks = 0, NEW o \in Legacy, o \in ever', rowOf'[o].state = "absent"
        PROVE  clock >= Cutoff
    <3>1. CASE o = p /\ AfterCleanup(p) = Absent /\ Admissible(p)
      BY <1>1, <1>5, <2>2, <3>1 DEF Submit, Absent
    <3>2. CASE ~(o = p /\ AfterCleanup(p) = Absent /\ Admissible(p))
      <4>1. rowOf'[o] = AfterCleanup(o) /\ o \in ever
        BY <1>1, <1>5, <2>2, <3>2 DEF Submit
      <4> QED
        BY <2>2, <4>1, UndatedKept
    <3> QED
      BY <3>1, <3>2
  <2> QED
    BY <1>1, <2>1, <2>2 DEF Undated
<1>6. ASSUME NEW p \in Ids, SettleId(p)
      PROVE  Undated'
  <2>1. \A o \in Legacy : rowOf'[o].state = "absent" => rowOf[o].state = "absent"
    BY <1>1, <1>6 DEF SettleId, RetentionInv, RetentionTypeOK
  <2> QED
    BY <1>1, <1>6, <2>1 DEF SettleId, Undated
<1>7. CASE UNCHANGED retentionVars
  BY <1>7 DEF retentionVars, Undated
<1> QED
  BY <1>2, <1>3, <1>4, <1>5, <1>6, <1>7 DEF RetentionNext

\* Every operation, dated or not, is admitted at most once as long as the
\* clock is never set back.
THEOREM AdmittedOnceTheorem == RetentionSpec => AdmittedOnce
<1>1. RetentionInit => Undated
  BY DEF RetentionInit, Undated
<1>2. RetentionSpec => []Undated
  BY <1>1, UndatedStep, RetentionInvariance, PTL DEF RetentionSpec
<1>3. ASSUME RetentionInv, Undated, [RetentionNext]_retentionVars
      PROVE  [setBacks = 0 => \A o \in Ids : Inserted(o) => o \notin ever]_retentionVars
  <2> SUFFICES ASSUME setBacks = 0, NEW o \in Ids, Inserted(o), o \in ever
               PROVE  FALSE
    OBVIOUS
  <2>1. AfterCleanup(o) = Absent /\ Admissible(o)
    BY <1>3, InsertedBySubmit
  <2>2. AfterCleanup(o).state = "absent"
    BY <2>1 DEF Absent
  <2>3. CASE o \in Legacy
    <3>1. clock < Cutoff
      BY <2>1, <2>3 DEF Admissible
    <3>2. clock >= Cutoff
      BY <1>3, <2>2, <2>3, UndatedKept
    <3> QED
      BY <1>3, <3>1, <3>2, RetentionAssumption DEF RetentionInv, RetentionTypeOK
  <2>4. CASE o \notin Legacy
    <3>1. IdTime[o] < NewFloor /\ IdTime[o] >= NewFloor
      BY <1>3, <2>1, <2>2, <2>4, FenceKept DEF Admissible
    <3>2. IdTime[o] \in Nat /\ NewFloor \in Nat
      BY <1>3, <2>4, FloorAdvances, RetentionAssumption DEF RetentionInv
    <3> QED
      BY <3>1, <3>2
  <2> QED
    BY <2>3, <2>4
<1> QED
  BY <1>2, <1>3, RetentionInvariance, PTL DEF RetentionSpec, AdmittedOnce

\* A new row is ordered after every row the ticket ever had.
THEOREM SequenceTheorem == RetentionSpec => SequenceNeverReused
<1>1. ASSUME RetentionInv, [RetentionNext]_retentionVars
      PROVE  [\A o \in Ids : Inserted(o) => seq'[o] > highest]_retentionVars
  <2> SUFFICES ASSUME NEW o \in Ids, Inserted(o)
               PROVE  seq'[o] > highest
    OBVIOUS
  <2>1. Submit(o) /\ AfterCleanup(o) = Absent /\ Admissible(o)
    BY <1>1, InsertedBySubmit
  <2>2. seq' = [seq EXCEPT ![o] = lastSequence + 1]
    BY <2>1 DEF Submit, NextSequence
  <2>3. seq \in [Ids -> Nat] /\ lastSequence \in Nat /\ highest = lastSequence
    BY <1>1 DEF RetentionInv, RetentionTypeOK, Marks
  <2> QED
    BY <2>2, <2>3
<1> QED
  BY <1>1, RetentionInvariance, PTL DEF RetentionSpec, SequenceNeverReused
=============================================================================
