------------------------- MODULE TicketClaimsProofs -------------------------
(***************************************************************************)
(* Theorems about TicketClaims for every set of tickets and workers, every *)
(* lease length, every patch and every bound.                              *)
(*                                                                         *)
(* The in-memory revisions of ops.rs are functions from a ticket to a      *)
(* ticket.  Good(k) is what each of them preserves; it is proved once per  *)
(* revision, and the actions only have to name the revision they write.    *)
(***************************************************************************)
EXTENDS TicketClaims, TLAPS, FiniteSetTheorems

\* A non-empty history has a last claim event.
LastExists(h) ==
    \/ Len(h) = 0
    \/ \E i \in 1..Len(h) :
          /\ h[i].kind = "claim"
          /\ \A j \in 1..Len(h) : h[j].kind = "claim" => j <= i

Shape(h) == IntervalsOK(h) /\ LastExists(h)

Good(k) ==
    /\ k \in TicketType
    /\ LifecycleOK(k)
    /\ HistoryAgrees(k)
    /\ Shape(k.history)

\* A revision that touches neither the history nor the attempt counter.
Same(k, l) == l.history = k.history /\ l.count = k.count

-----------------------------------------------------------------------------
(* Appending one event.                                                    *)

\* What append_claim_event does to a history: one more event at the end, the
\* earlier ones untouched.
LEMMA AppendFacts ==
    ASSUME NEW h \in Seq(Event), NEW e \in Event
    PROVE  /\ Append(h, e) \in Seq(Event)
           /\ Len(Append(h, e)) = Len(h) + 1
           /\ Len(h) \in Nat
           /\ \A i \in 1..Len(h) : Append(h, e)[i] = h[i]
           /\ Append(h, e)[Len(h) + 1] = e
    OBVIOUS

\* A renewal or release keeps the intervals well formed when it continues the
\* open interval of its worker; a claim always does.
LEMMA AppendIntervals ==
    ASSUME NEW h \in Seq(Event), NEW e \in Event, IntervalsOK(h),
           e.kind # "claim" => /\ Len(h) > 0
                               /\ h[Len(h)].kind # "release"
                               /\ h[Len(h)].worker = e.worker
    PROVE  IntervalsOK(Append(h, e))
<1> DEFINE g == Append(h, e)
<1>0. /\ Len(g) = Len(h) + 1 /\ Len(h) \in Nat
      /\ \A i \in 1..Len(h) : g[i] = h[i]
      /\ g[Len(h) + 1] = e
  BY AppendFacts
<1> HIDE DEF g
<1>1. ASSUME NEW i \in 1..Len(g), g[i].kind # "claim"
      PROVE  i > 1 /\ g[i-1].kind # "release"
  <2>1. CASE i \in 1..Len(h)
    <3>1. i > 1 /\ h[i-1].kind # "release"
      BY <1>0, <1>1, <2>1 DEF IntervalsOK
    <3>2. i - 1 \in 1..Len(h)
      BY <1>0, <2>1, <3>1
    <3> QED BY <1>0, <3>1, <3>2
  <2>2. CASE i = Len(h) + 1
    <3>1. Len(h) > 0 /\ h[Len(h)].kind # "release" /\ g[Len(h)] = h[Len(h)]
      BY <1>0, <1>1, <2>2
    <3> QED BY <1>0, <2>2, <3>1
  <2> QED BY <1>0, <2>1, <2>2
<1>2. ASSUME NEW i \in 1..Len(g), NEW j \in 1..Len(g), i < j,
             \A n \in (i+1)..j : g[n].kind # "claim"
      PROVE  g[j].worker = g[i].worker
  <2>1. i \in 1..Len(h) /\ g[i] = h[i]
    BY <1>0, <1>2
  <2>2. CASE j \in 1..Len(h)
    <3>1. \A n \in (i+1)..j : h[n].kind # "claim"
      BY <1>0, <1>2, <2>1, <2>2
    <3>2. h[j].worker = h[i].worker
      BY <1>2, <2>1, <2>2, <3>1 DEF IntervalsOK
    <3> QED BY <1>0, <2>1, <2>2, <3>2
  <2>3. CASE j = Len(h) + 1
    <3>1. g[j] = e /\ e.kind # "claim"
      BY <1>0, <1>2, <2>3
    <3>2. Len(h) > 0 /\ h[Len(h)].worker = e.worker
      BY <3>1
    <3>3. CASE i = Len(h)
      BY <2>1, <3>1, <3>2, <3>3
    <3>4. CASE i < Len(h)
      <4>1. \A n \in (i+1)..Len(h) : h[n].kind # "claim"
        BY <1>0, <1>2, <2>1, <2>3
      <4>2. Len(h) \in 1..Len(h)
        BY <1>0, <3>2
      <4>3. h[Len(h)].worker = h[i].worker
        BY <2>1, <3>4, <4>1, <4>2 DEF IntervalsOK
      <4> QED BY <2>1, <3>1, <3>2, <4>3
    <3> QED BY <1>0, <2>1, <3>3, <3>4
  <2> QED BY <1>0, <2>2, <2>3
<1>3. IntervalsOK(g)
  BY <1>1, <1>2 DEF IntervalsOK
<1> QED BY <1>3 DEF g

\* The same for the last claim event of a history.
LEMMA AppendShape ==
    ASSUME NEW h \in Seq(Event), NEW e \in Event, Shape(h),
           e.kind # "claim" => /\ Len(h) > 0
                               /\ h[Len(h)].kind # "release"
                               /\ h[Len(h)].worker = e.worker
    PROVE  Shape(Append(h, e))
<1> DEFINE g == Append(h, e)
<1>0. /\ Len(g) = Len(h) + 1 /\ Len(h) \in Nat
      /\ \A i \in 1..Len(h) : g[i] = h[i]
      /\ g[Len(h) + 1] = e
  BY AppendFacts
<1>1. IntervalsOK(g)
  BY AppendIntervals DEF Shape
<1> HIDE DEF g
<1>2. CASE e.kind = "claim"
  <2>1. Len(g) \in 1..Len(g) /\ g[Len(g)].kind = "claim"
        /\ \A j \in 1..Len(g) : j <= Len(g)
    BY <1>0, <1>2
  <2> QED BY <1>1, <2>1 DEF Shape, LastExists, g
<1>3. CASE e.kind # "claim"
  <2>1. PICK i \in 1..Len(h) :
           h[i].kind = "claim" /\ \A j \in 1..Len(h) : h[j].kind = "claim" => j <= i
    BY <1>0, <1>3 DEF Shape, LastExists
  <2>2. i \in 1..Len(g) /\ g[i].kind = "claim"
    BY <1>0, <2>1
  <2>3. \A j \in 1..Len(g) : g[j].kind = "claim" => j <= i
    BY <1>0, <1>3, <2>1
  <2> QED BY <1>1, <2>2, <2>3 DEF Shape, LastExists, g
<1> QED BY <1>2, <1>3

\* What the reverse search for the last claim event finds.
LEMMA LastClaimFacts ==
    ASSUME NEW h \in Seq(Event), Shape(h), Len(h) > 0
    PROVE  /\ LastClaim(h) \in 1..Len(h)
           /\ h[LastClaim(h)].kind = "claim"
           /\ \A j \in 1..Len(h) : h[j].kind = "claim" => j <= LastClaim(h)
<1>1. \E i \in 1..Len(h) :
         h[i].kind = "claim" /\ \A j \in 1..Len(h) : h[j].kind = "claim" => j <= i
  BY DEF Shape, LastExists
<1> QED BY <1>1 DEF LastClaim

-----------------------------------------------------------------------------
(* Each revision preserves Good.                                           *)

\* create_by yields a consistent unclaimed ticket.
LEMMA NewTicketGood ==
    ASSUME NEW s \in Statuses, NEW u \in BOOLEAN
    PROVE  Good(NewTicket(s, u))
<1> DEFINE k == NewTicket(s, u)
<1>1. k \in TicketType
  <2>1. <<>> \in Seq(Event) /\ (u /\ s \in Active) \in BOOLEAN
    OBVIOUS
  <2>2. (IF s = "started" THEN "analyzing" ELSE "none") \in Phases
    BY DEF Phases
  <2> QED BY <2>1, <2>2 DEF NewTicket, TicketType, Unknown
<1>2. /\ k.status = s /\ k.phase = (IF s = "started" THEN "analyzing" ELSE "none")
      /\ (k.upNext <=> u /\ s \in Active) /\ ~k.closed
      /\ k.claimedBy = NoWorker /\ k.history = <<>>
  BY DEF NewTicket
<1> HIDE DEF k
<1>3. LifecycleOK(k)
  BY <1>2 DEF LifecycleOK
<1>4. HistoryAgrees(k) /\ Shape(k.history)
  BY <1>2 DEF HistoryAgrees, Shape, IntervalsOK, LastExists
<1> QED BY <1>1, <1>3, <1>4 DEF Good, k

\* Two tickets that differ in their claim only.
SameButClaim(k, l) ==
    /\ l.status = k.status /\ l.phase = k.phase
    /\ l.upNext = k.upNext /\ l.closed = k.closed

\* The part of Good that ending a claim needs: the claim implications are
\* what EndClaim establishes.
Endable(k) ==
    /\ k \in TicketType
    /\ k.phase # "none" => k.status = "started"
    /\ k.upNext => k.status \in Active
    /\ k.closed => k.status \notin Active
    /\ HistoryAgrees(k)
    /\ Shape(k.history)

\* end_claim leaves an unclaimed ticket whose history ends in a release.
LEMMA EndClaimGood ==
    ASSUME NEW k, Endable(k)
    PROVE  Good(EndClaim(k)) /\ EndClaim(k).claimedBy = NoWorker
<1>0. k \in TicketType /\ k.history \in Seq(Event)
  BY DEF Endable, TicketType
<1>1. CASE k.claimedBy = NoWorker
  <2>1. EndClaim(k) = [k EXCEPT !.history = k.history, !.claimedBy = NoWorker, !.lease = 0]
    BY <1>1 DEF EndClaim
  <2>2. k.lease \in Nat /\ 0 \in Nat /\ NoWorker \in Workers \cup {NoWorker}
    BY <1>0 DEF TicketType
  <2>3. EndClaim(k) \in TicketType
    BY <1>0, <2>1, <2>2 DEF TicketType
  <2>4. SameButClaim(k, EndClaim(k)) /\ EndClaim(k).claimedBy = NoWorker
        /\ EndClaim(k).history = k.history
    BY <1>0, <2>1 DEF TicketType, SameButClaim
  <2> QED BY <1>1, <2>3, <2>4
          DEF Endable, Good, LifecycleOK, HistoryAgrees, SameButClaim
<1>2. CASE k.claimedBy # NoWorker
  <2> DEFINE e == [kind |-> "release", worker |-> k.claimedBy, lease |-> 0]
             h == Append(k.history, e)
  <2>1. EndClaim(k) = [k EXCEPT !.history = h, !.claimedBy = NoWorker, !.lease = 0]
    BY <1>2 DEF EndClaim, AppendClaimEvent
  <2>2. e \in Event
    BY <1>0, <1>2 DEF TicketType, Event, Kinds
  <2>3. h \in Seq(Event) /\ Len(h) = Len(k.history) + 1 /\ h[Len(h)] = e /\ Len(h) > 0
    BY <1>0, <2>2, AppendFacts
  <2>4. Shape(h)
    <3>1. /\ Len(k.history) > 0
          /\ k.history[Len(k.history)].kind # "release"
          /\ k.history[Len(k.history)].worker = e.worker
      BY <1>2 DEF Endable, HistoryAgrees
    <3> QED BY <1>0, <2>2, <3>1, AppendShape DEF Endable
  <2>5. h[Len(h)].kind = "release"
    BY <2>3
  <2> HIDE DEF h
  <2>6. EndClaim(k) \in TicketType
    <3>1. NoWorker \in Workers \cup {NoWorker} /\ 0 \in Nat /\ h \in Seq(Event)
      BY <2>3
    <3> QED BY <1>0, <2>1, <3>1 DEF TicketType
  <2>7. SameButClaim(k, EndClaim(k)) /\ EndClaim(k).claimedBy = NoWorker
        /\ EndClaim(k).history = h
    BY <1>0, <2>1 DEF TicketType, SameButClaim
  <2> QED BY <2>4, <2>5, <2>6, <2>7
          DEF Endable, Good, LifecycleOK, HistoryAgrees, SameButClaim
<1> QED BY <1>1, <1>2

\* start_claimed_ticket keeps the claim and moves Not Started to Started.
LEMMA StartClaimedGood ==
    ASSUME NEW k, Good(k)
    PROVE  Good(StartClaimed(k))
BY DEF Good, StartClaimed, TicketType, LifecycleOK, HistoryAgrees, Statuses,
       Phases, Active, Open

\* A new acquisition of an open ticket.
LEMMA AcquiredGood ==
    ASSUME NEW k, Good(k), k.status \in Open, NEW w \in Workers, NEW lease \in Nat
    PROVE  Good(Acquired(k, w, lease))
<1> DEFINE e == [kind |-> "claim", worker |-> w, lease |-> lease]
           h == Append(k.history, e)
<1>0. k \in TicketType /\ k.history \in Seq(Event) /\ e \in Event /\ Shape(k.history)
  BY DEF Good, TicketType, Event, Kinds
<1>1. h \in Seq(Event) /\ Len(h) = Len(k.history) + 1 /\ h[Len(h)] = e /\ Len(h) > 0
  BY <1>0, AppendFacts
<1>2. Shape(h)
  BY <1>0, AppendShape
<1>3. Acquired(k, w, lease) =
        [k EXCEPT !.claimedBy = w, !.lease = lease, !.count = k.count + 1, !.history = h]
  BY DEF Acquired, AppendClaimEvent
<1>4. /\ h[Len(h)].kind = "claim" /\ h[Len(h)].worker = w /\ h[Len(h)].lease = lease
  BY <1>1
<1>5. w # NoWorker
  BY ConstantsAssumption
<1> HIDE DEF h
<1>6. Acquired(k, w, lease) \in TicketType
  <2>1. k.count + 1 \in Nat /\ w \in Workers \cup {NoWorker} /\ h \in Seq(Event)
    BY <1>0, <1>1 DEF TicketType
  <2> QED BY <1>0, <1>3, <2>1 DEF TicketType
<1>7. /\ SameButClaim(k, Acquired(k, w, lease))
      /\ Acquired(k, w, lease).claimedBy = w /\ Acquired(k, w, lease).lease = lease
      /\ Acquired(k, w, lease).history = h
  BY <1>0, <1>3 DEF TicketType, SameButClaim
<1> QED BY <1>1, <1>2, <1>4, <1>5, <1>6, <1>7
        DEF Good, LifecycleOK, HistoryAgrees, SameButClaim

\* A renewal by the holder.
LEMMA ExtendedGood ==
    ASSUME NEW k, Good(k), NEW w \in Workers, k.claimedBy = w, NEW lease \in Nat
    PROVE  Good(Extended(k, w, lease))
<1> DEFINE e == [kind |-> "renew", worker |-> w, lease |-> lease]
           h == Append(k.history, e)
<1>0. k \in TicketType /\ k.history \in Seq(Event) /\ e \in Event /\ w # NoWorker
  BY ConstantsAssumption DEF Good, TicketType, Event, Kinds
<1>1. h \in Seq(Event) /\ Len(h) = Len(k.history) + 1 /\ h[Len(h)] = e /\ Len(h) > 0
  BY <1>0, AppendFacts
<1>2. Shape(h)
  <2>1. /\ Len(k.history) > 0
        /\ k.history[Len(k.history)].kind # "release"
        /\ k.history[Len(k.history)].worker = e.worker
    BY <1>0 DEF Good, HistoryAgrees
  <2> QED BY <1>0, <2>1, AppendShape DEF Good
<1>3. Extended(k, w, lease) = [k EXCEPT !.lease = lease, !.history = h]
  BY DEF Extended, AppendClaimEvent
<1>4. h[Len(h)].kind = "renew" /\ h[Len(h)].worker = w /\ h[Len(h)].lease = lease
  BY <1>1
<1> HIDE DEF h
<1> QED BY <1>0, <1>1, <1>2, <1>3, <1>4
        DEF Good, TicketType, LifecycleOK, HistoryAgrees

\* A claim retry by the holder.
LEMMA ReclaimedGood ==
    ASSUME NEW k, Good(k), NEW w \in Workers, k.claimedBy = w, NEW lease \in Nat,
           NEW estimate \in BOOLEAN
    PROVE  Good(Reclaimed(k, w, lease, estimate))
<1>1. k.lease \in Nat
  BY DEF Good, TicketType
<1> QED BY <1>1, ExtendedGood DEF Reclaimed

\* update keeps a ticket consistent for every patch.
LEMMA PatchedGood ==
    ASSUME NEW k, Good(k), NEW p \in PatchType
    PROVE  /\ Good(Patched(k, p))
           /\ \E c \in TicketType :
                 Same(k, c) /\ Patched(k, p) \in {c, EndClaim(c)}
<1> DEFINE status == IF p.status = Keep THEN k.status ELSE p.status
           phase0 == IF p.status = Keep THEN k.phase
                     ELSE IF status # "started" THEN "none"
                     ELSE IF k.status # "started" /\ p.phase = Keep THEN "analyzing"
                     ELSE k.phase
           phase == IF p.phase # Keep /\ status = "started" THEN p.phase ELSE phase0
           upNext == Set(p.upNext, k.upNext) /\ status \in Active
           blocked == Set(p.blocked, k.blocked)
           closed == k.closed /\ (p.status = Keep \/ status \notin Active)
           trashed == IF status # "deleted" THEN Unknown
                      ELSE IF k.status # "deleted" THEN k.status ELSE k.trashedFrom
           revised == [k EXCEPT !.status = status, !.phase = phase,
                                !.upNext = upNext, !.blocked = blocked,
                                !.closed = closed, !.trashedFrom = trashed]
<1>1. /\ k.status \in Statuses /\ k.phase \in Phases /\ k.upNext \in BOOLEAN
      /\ k.blocked \in BOOLEAN /\ k.closed \in BOOLEAN
      /\ k.trashedFrom \in Statuses \cup {Unknown}
      /\ p.status \in Statuses \cup {Keep} /\ p.phase \in Phases \cup {Keep}
  BY DEF Good, TicketType, PatchType
<1>2. status \in Statuses
  BY <1>1
<1>3. phase \in Phases
  <2>1. {"none", "analyzing"} \subseteq Phases
    BY DEF Phases
  <2> QED BY <1>1, <2>1
<1>4. upNext \in BOOLEAN /\ closed \in BOOLEAN
  OBVIOUS
<1>5. blocked \in BOOLEAN
  BY <1>1 DEF Set
<1>6. trashed \in Statuses \cup {Unknown}
  BY <1>1
<1>7. phase # "none" => status = "started"
  <2>1. k.phase # "none" => k.status = "started"
    BY DEF Good, LifecycleOK
  <2> QED BY <2>1
<1>8. upNext => status \in Active
  OBVIOUS
<1>9. closed => status \notin Active
  <2>1. k.closed => k.status \notin Active
    BY DEF Good, LifecycleOK
  <2> QED BY <2>1
<1>10. Patched(k, p) =
          IF status \notin Active \/ (p.status # Keep /\ k.status \notin Active)
          THEN EndClaim(revised) ELSE revised
  BY DEF Patched
<1> HIDE DEF status, phase0, phase, upNext, blocked, closed, trashed
<1>11. k \in TicketType
  BY DEF Good
<1>12. revised \in TicketType
  BY <1>2, <1>3, <1>4, <1>5, <1>6, <1>11 DEF TicketType
<1>13. /\ revised.status = status /\ revised.phase = phase
       /\ revised.upNext = upNext /\ revised.closed = closed
       /\ revised.claimedBy = k.claimedBy /\ revised.lease = k.lease
       /\ revised.history = k.history /\ revised.count = k.count
  BY <1>11 DEF TicketType
<1> HIDE DEF revised
<1>14. HistoryAgrees(revised) /\ Shape(revised.history)
  BY <1>13 DEF Good, HistoryAgrees
<1>15. Endable(revised)
  BY <1>7, <1>8, <1>9, <1>12, <1>13, <1>14 DEF Endable
<1>16. status \in Active => Good(revised)
  BY <1>12, <1>13, <1>14, <1>15 DEF Endable, Good, LifecycleOK, Open
<1>17. Same(k, revised) /\ Patched(k, p) \in {revised, EndClaim(revised)}
  BY <1>10, <1>13 DEF Same
<1> QED BY <1>10, <1>12, <1>15, <1>16, <1>17, EndClaimGood

\* close_as keeps a ticket consistent: an active one settles to completed.
LEMMA ClosedGood ==
    ASSUME NEW k, Good(k)
    PROVE  /\ Good(Closed(k)) /\ Closed(k).claimedBy = NoWorker
           /\ \E c \in TicketType : Same(k, c) /\ Closed(k) = EndClaim(c)
<1> DEFINE status == IF k.status \in Active THEN "completed" ELSE k.status
           phase == IF k.status \in Active THEN "none" ELSE k.phase
           settled == IF k.status \in Active
                      THEN [k EXCEPT !.status = "completed", !.phase = "none"] ELSE k
           c == [settled EXCEPT !.closed = TRUE, !.upNext = FALSE]
<1>1. k \in TicketType
  BY DEF Good
<1>2. settled \in TicketType /\ settled.history = k.history /\ settled.count = k.count
      /\ settled.claimedBy = k.claimedBy /\ settled.lease = k.lease
      /\ settled.status = status /\ settled.phase = phase
  <2>1. CASE k.status \in Active
    <3>1. settled = [k EXCEPT !.status = "completed", !.phase = "none"]
      BY <2>1
    <3>2. "completed" \in Statuses /\ "none" \in Phases
      BY DEF Statuses, Phases
    <3> HIDE DEF settled
    <3> QED BY <1>1, <2>1, <3>1, <3>2 DEF TicketType
  <2>2. CASE k.status \notin Active
    BY <1>1, <2>2
  <2> QED BY <2>1, <2>2
<1>3. status \notin Active /\ (phase # "none" => status = "started")
  BY DEF Good, LifecycleOK, Active
<1> HIDE DEF settled, status, phase
<1>4. c \in TicketType /\ Same(k, c) /\ c.history = k.history /\ c.claimedBy = k.claimedBy
      /\ c.lease = k.lease /\ c.status = status /\ c.phase = phase /\ ~c.upNext
  BY <1>2 DEF TicketType, Same
<1>5. Closed(k) = EndClaim(c)
  BY DEF Closed, settled
<1> HIDE DEF c
<1>6. Endable(c)
  BY <1>3, <1>4 DEF Endable, Good, HistoryAgrees
<1> QED BY <1>4, <1>5, <1>6, EndClaimGood

\* Reporting a finished ticket as not working reopens it unclaimed.
LEMMA NotWorkingGood ==
    ASSUME NEW k, Good(k)
    PROVE  /\ Good(NotWorking(k)) /\ NotWorking(k).claimedBy = NoWorker
           /\ \E c \in TicketType : Same(k, c) /\ NotWorking(k) = EndClaim(c)
<1> DEFINE c == [k EXCEPT !.status = "not_started", !.phase = "none",
                          !.upNext = TRUE, !.closed = FALSE]
<1>1. k \in TicketType
  BY DEF Good
<1>2. c \in TicketType /\ Same(k, c) /\ c.history = k.history /\ c.claimedBy = k.claimedBy
      /\ c.lease = k.lease /\ c.status = "not_started" /\ c.phase = "none" /\ ~c.closed
  BY <1>1 DEF TicketType, Statuses, Phases, Same
<1>3. NotWorking(k) = EndClaim(c)
  BY DEF NotWorking
<1> HIDE DEF c
<1>4. Endable(c)
  BY <1>2 DEF Endable, Good, HistoryAgrees, Active
<1> QED BY <1>2, <1>3, <1>4, EndClaimGood

-----------------------------------------------------------------------------
(* The inductive invariant.                                                *)

IInv == TypeOK /\ \A t \in Tickets : Good(ticket[t])

\* What a write of a consistent ticket leaves behind.
Written == /\ ticket' \in [Tickets -> TicketType]
           /\ \A u \in Tickets : Good(ticket'[u])

LEMMA WriteGood ==
    ASSUME IInv, NEW t \in Tickets, NEW k, Good(k),
           ticket' = [ticket EXCEPT ![t] = k]
    PROVE  Written
BY DEF IInv, TypeOK, Written, Good

\* Stamping updated_at only clears the `current` mark of reviews.
LEMMA StampType ==
    ASSUME reviews \subseteq ReviewType, NEW t, Stamp(t)
    PROVE  reviews' \subseteq ReviewType
<1>1. ASSUME NEW r \in ReviewType
      PROVE  [r EXCEPT !.current = FALSE] \in ReviewType
  BY DEF ReviewType
<1> QED BY <1>1 DEF Stamp

LEMMA InitIInv == Init => IInv
<1> SUFFICES ASSUME Init PROVE IInv
  OBVIOUS
<1>1. \A t \in Tickets : Good(ticket[t])
  <2> TAKE t \in Tickets
  <2>1. PICK s \in NewStatuses, u \in BOOLEAN : ticket[t] = NewTicket(s, u)
    BY DEF Init
  <2> QED BY <2>1, NewTicketGood, ConstantsAssumption
<1>2. ticket \in [Tickets -> TicketType]
  <2>1. ticket = [t \in Tickets |-> ticket[t]]
    BY DEF Init
  <2> QED BY <1>1, <2>1 DEF Good
<1>3. clock \in Nat /\ restoring \subseteq RestoreType /\ guards \subseteq GuardType
      /\ reviews \subseteq ReviewType
  BY DEF Init
<1> QED BY <1>1, <1>2, <1>3 DEF IInv, TypeOK

\* The claim operations: every one writes one revision of a Good ticket.
LEMMA ClaimStep ==
    ASSUME IInv, NEW w \in Workers, NEW t \in Tickets, NEW now \in 0..clock,
           NEW len \in Leases, NEW estimate \in BOOLEAN,
           Claim(w, t, now, len, estimate) \/ ClaimNext(w, t, now, len)
           \/ Renew(w, t, now, len)
    PROVE  IInv'
<1>0. /\ Good(ticket[t]) /\ clock \in Nat /\ now + len \in Nat
      /\ reviews \subseteq ReviewType
  BY ConstantsAssumption DEF IInv, TypeOK
<1> DEFINE k == ticket[t]
<1>1. CASE Claim(w, t, now, len, estimate)
  <2> DEFINE c == IF ClaimAvailable(k, now) THEN Acquired(k, w, now + len)
                  ELSE Reclaimed(k, w, now + len, estimate)
  <2>1. Good(c)
    BY <1>0, <1>1, AcquiredGood, ReclaimedGood DEF Claim
  <2>2. Good(StartClaimed(c))
    BY <2>1, StartClaimedGood
  <2>3. Write(t, StartClaimed(c)) /\ UNCHANGED <<clock, restoring, guards>>
    BY <1>1 DEF Claim
  <2> HIDE DEF c
  <2> QED BY <1>0, <2>2, <2>3, WriteGood, StampType DEF Write, Written, IInv, TypeOK
<1>2. CASE ClaimNext(w, t, now, len)
  <2>1. Good(StartClaimed(Acquired(k, w, now + len)))
    BY <1>0, <1>2, AcquiredGood, StartClaimedGood DEF ClaimNext, ClaimNextEligible
  <2> QED BY <1>0, <1>2, <2>1, WriteGood, StampType
          DEF ClaimNext, Write, Written, IInv, TypeOK
<1>3. CASE Renew(w, t, now, len)
  <2>1. Good(Extended(k, w, now + len))
    BY <1>0, <1>3, ExtendedGood DEF Renew
  <2> QED BY <1>0, <1>3, <2>1, WriteGood, StampType
          DEF Renew, Write, Written, IInv, TypeOK
<1> QED BY <1>1, <1>2, <1>3

\* A Good ticket is one whose claim can be ended.
LEMMA GoodEndable ==
    ASSUME NEW k, Good(k) PROVE Endable(k)
BY DEF Good, Endable, LifecycleOK

\* update's transaction, shared by edits and by restore.
LEMMA UpdateTicketStep ==
    ASSUME IInv, NEW t \in Tickets, NEW p \in PatchType, UpdateTicket(t, p)
    PROVE  Written /\ reviews' \subseteq ReviewType /\ clock' = clock
<1>1. Good(Patched(ticket[t], p))
  BY PatchedGood DEF IInv
<1>2. reviews \subseteq ReviewType
  BY DEF IInv, TypeOK
<1> QED BY <1>1, <1>2, WriteGood, StampType DEF UpdateTicket, Write

\* The edits of people and tools.
LEMMA EditStep ==
    ASSUME IInv, NEW t \in Tickets,
           \/ \E w \in Workers, force \in BOOLEAN : Release(w, t, force)
           \/ \E p \in Patches : Update(t, p)
           \/ Close(t) \/ ReportNotWorking(t) \/ AddNote(t)
    PROVE  IInv'
<1>0. /\ Good(ticket[t]) /\ reviews \subseteq ReviewType
  BY DEF IInv, TypeOK
<1>1. CASE \E w \in Workers, force \in BOOLEAN : Release(w, t, force)
  <2>1. Good(EndClaim(ticket[t]))
    BY <1>0, GoodEndable, EndClaimGood
  <2>2. Write(t, EndClaim(ticket[t])) /\ UNCHANGED <<clock, restoring, guards>>
    BY <1>1 DEF Release
  <2> QED BY <1>0, <2>1, <2>2, WriteGood, StampType DEF Write, Written, IInv, TypeOK
<1>2. CASE \E p \in Patches : Update(t, p)
  <2>1. PICK p \in Patches : Update(t, p)
    BY <1>2
  <2>2. p \in PatchType
    BY ConstantsAssumption
  <2> QED BY <2>1, <2>2, UpdateTicketStep DEF Update, Written, IInv, TypeOK
<1>3. CASE Close(t)
  BY <1>0, <1>3, ClosedGood, WriteGood, StampType DEF Close, Write, Written, IInv, TypeOK
<1>4. CASE ReportNotWorking(t)
  BY <1>0, <1>4, NotWorkingGood, WriteGood, StampType
     DEF ReportNotWorking, Write, Written, IInv, TypeOK
<1>5. CASE AddNote(t)
  BY <1>0, <1>5, StampType DEF AddNote, IInv, TypeOK
<1> QED BY <1>1, <1>2, <1>3, <1>4, <1>5

\* restore: what it read is a status, and its update is an ordinary one.
LEMMA RestoreStep ==
    ASSUME IInv,
           \/ \E e \in Editors, t \in Tickets : RestoreRead(e, t)
           \/ \E r \in restoring : RestoreUpdate(r)
    PROVE  IInv'
<1>1. CASE \E e \in Editors, t \in Tickets : RestoreRead(e, t)
  <2>1. PICK e \in Editors, t \in Tickets : RestoreRead(e, t)
    BY <1>1
  <2> DEFINE target == IF ticket[t].trashedFrom = Unknown THEN "not_started"
                       ELSE ticket[t].trashedFrom
  <2>2. target \in Statuses
    BY DEF IInv, Good, TicketType, Statuses
  <2>3. [editor |-> e, ticket |-> t, target |-> target] \in RestoreType
    BY <2>2 DEF RestoreType
  <2>4. restoring' \subseteq RestoreType /\ UNCHANGED <<clock, ticket, guards, reviews>>
    BY <2>1, <2>3 DEF RestoreRead, IInv, TypeOK
  <2> QED BY <2>4 DEF IInv, TypeOK
<1>2. CASE \E r \in restoring : RestoreUpdate(r)
  <2>1. PICK r \in restoring : RestoreUpdate(r)
    BY <1>2
  <2>2. r.ticket \in Tickets /\ StatusPatch(r.target) \in PatchType
    BY DEF IInv, TypeOK, RestoreType, StatusPatch, PatchType, Flags
  <2>3. restoring' \subseteq RestoreType /\ guards' = guards
    BY <2>1 DEF RestoreUpdate, IInv, TypeOK
  <2>4. CASE UpdateTicket(r.ticket, StatusPatch(r.target))
    BY <2>2, <2>3, <2>4, UpdateTicketStep DEF Written, IInv, TypeOK
  <2>5. CASE UNCHANGED <<clock, ticket, reviews>>
    BY <2>3, <2>5 DEF IInv, TypeOK
  <2> QED BY <2>1, <2>4, <2>5 DEF RestoreUpdate
<1> QED BY <1>1, <1>2

\* LastClaim is a position of the history, or 0.
LEMMA LastClaimType ==
    ASSUME NEW k, Good(k) PROVE LastClaim(k.history) \in Nat
<1>1. k.history \in Seq(Event) /\ Shape(k.history) /\ Len(k.history) \in Nat
  BY DEF Good, TicketType
<1>2. CASE Len(k.history) > 0
  BY <1>1, <1>2, LastClaimFacts
<1>3. CASE Len(k.history) = 0
  BY <1>1, <1>3 DEF LastClaim
<1> QED BY <1>1, <1>2, <1>3

\* A renewal of the remembered attempt by a guard.
LEMMA RenewAttemptStep ==
    ASSUME IInv, NEW g \in guards, NEW len \in Leases, RenewAttempt(g, len)
    PROVE  Written /\ reviews' \subseteq ReviewType
<1>1. g.ticket \in Tickets /\ g.worker \in Workers /\ clock + len \in Nat
      /\ reviews \subseteq ReviewType
  BY ConstantsAssumption DEF IInv, TypeOK, GuardType
<1>2. Good(Extended(ticket[g.ticket], g.worker, clock + len))
  BY <1>1, ExtendedGood DEF RenewAttempt, AttemptLive, IInv
<1> QED BY <1>1, <1>2, WriteGood, StampType DEF RenewAttempt, Write

\* The claim guard.
LEMMA GuardStep ==
    ASSUME IInv,
           \/ \E w \in Guarders, t \in Tickets : GuardRead(w, t)
           \/ \E g \in guards, len \in Leases :
                 GuardPreflight(g, len) \/ GuardRenew(g, len) \/ GuardFinish(g, len)
           \/ \E g \in guards : GuardReceive(g) \/ GuardStop(g) \/ GuardExit(g)
    PROVE  IInv'
<1>1. CASE \E w \in Guarders, t \in Tickets : GuardRead(w, t)
  <2>1. PICK w \in Guarders, t \in Tickets : GuardRead(w, t)
    BY <1>1
  <2>2. w \in Workers /\ LastClaim(ticket[t].history) \in Nat
    BY ConstantsAssumption, LastClaimType DEF IInv
  <2>3. [worker |-> w, ticket |-> t, attempt |-> LastClaim(ticket[t].history),
         held |-> 0, answer |-> 0, state |-> "preflight"] \in GuardType
    BY <2>2 DEF GuardType
  <2>4. guards' \subseteq GuardType /\ UNCHANGED <<clock, ticket, restoring, reviews>>
    BY <2>1, <2>3 DEF GuardRead, IInv, TypeOK
  <2> QED BY <2>4 DEF IInv, TypeOK
<1>2. ASSUME NEW g \in guards, NEW len \in Leases,
             GuardPreflight(g, len) \/ GuardRenew(g, len) \/ GuardFinish(g, len)
      PROVE  IInv'
  <2>1. Written /\ reviews' \subseteq ReviewType /\ clock' = clock /\ restoring' = restoring
    BY <1>2, RenewAttemptStep DEF GuardPreflight, GuardRenew, GuardFinish
  <2>2. g \in GuardType /\ guards \subseteq GuardType /\ clock + len \in Nat
    BY ConstantsAssumption DEF IInv, TypeOK
  <2>3. /\ [g EXCEPT !.held = clock + len, !.state = "running"] \in GuardType
        /\ [g EXCEPT !.answer = clock + len] \in GuardType
        /\ [g EXCEPT !.state = "succeeded"] \in GuardType
    BY <2>2 DEF GuardType
  <2>4. guards' \subseteq GuardType
    BY <1>2, <2>2, <2>3 DEF GuardPreflight, GuardRenew, GuardFinish, Becomes
  <2> QED BY <2>1, <2>4 DEF IInv, TypeOK, Written
<1>3. ASSUME NEW g \in guards, GuardReceive(g) \/ GuardStop(g) \/ GuardExit(g)
      PROVE  IInv'
  <2>1. g \in GuardType /\ guards \subseteq GuardType
    BY DEF IInv, TypeOK
  <2>2. [g EXCEPT !.held = g.answer, !.answer = 0] \in GuardType
    BY <2>1 DEF GuardType
  <2>3. guards' \subseteq GuardType /\ UNCHANGED <<clock, ticket, restoring, reviews>>
    BY <1>3, <2>1, <2>2 DEF GuardReceive, GuardStop, GuardExit, Becomes
  <2> QED BY <2>3 DEF IInv, TypeOK
<1> QED BY <1>1, <1>2, <1>3

\* The worker handoff.
LEMMA HandoffStep ==
    ASSUME IInv,
           \/ \E w \in Reviewers, t \in Tickets : Review(w, t)
           \/ \E r \in reviews, now \in 0..clock :
                 PublishHandoff(r, now) \/ RefuseHandoff(r, now)
    PROVE  IInv'
<1>1. CASE \E w \in Reviewers, t \in Tickets : Review(w, t)
  <2>1. PICK w \in Reviewers, t \in Tickets : Review(w, t)
    BY <1>1
  <2>2. w \in Workers /\ LastClaim(ticket[t].history) \in Nat /\ Len(ticket[t].history) \in Nat
    BY ConstantsAssumption, LastClaimType DEF IInv, Good, TicketType
  <2>3. [worker |-> w, ticket |-> t, current |-> TRUE,
         attempt |-> LastClaim(ticket[t].history),
         events |-> Len(ticket[t].history)] \in ReviewType
    BY <2>2 DEF ReviewType
  <2>4. reviews' \subseteq ReviewType /\ UNCHANGED <<clock, ticket, restoring, guards>>
    BY <2>1, <2>3 DEF Review, IInv, TypeOK
  <2> QED BY <2>4 DEF IInv, TypeOK
<1>2. ASSUME NEW r \in reviews, NEW now \in 0..clock, PublishHandoff(r, now)
      PROVE  IInv'
  <2>1. r.ticket \in Tickets /\ reviews \subseteq ReviewType
    BY DEF IInv, TypeOK, ReviewType
  <2>2. Good(EndClaim(ticket[r.ticket]))
    BY <2>1, GoodEndable, EndClaimGood DEF IInv
  <2>3. Written
    BY <1>2, <2>1, <2>2, WriteGood DEF PublishHandoff
  <2>4. \A q \in ReviewType : [q EXCEPT !.current = FALSE] \in ReviewType
    BY DEF ReviewType
  <2>5. reviews' \subseteq ReviewType /\ UNCHANGED <<clock, restoring, guards>>
    BY <1>2, <2>1, <2>4 DEF PublishHandoff
  <2> QED BY <2>3, <2>5 DEF IInv, TypeOK, Written
<1>3. ASSUME NEW r \in reviews, NEW now \in 0..clock, RefuseHandoff(r, now)
      PROVE  IInv'
  BY <1>3 DEF RefuseHandoff, IInv, TypeOK
<1> QED BY <1>1, <1>2, <1>3

LEMMA NextIInv == IInv /\ [Next]_vars => IInv'
<1> SUFFICES ASSUME IInv, [Next]_vars PROVE IInv'
  OBVIOUS
<1>1. CASE UNCHANGED vars
  BY <1>1 DEF vars, IInv, TypeOK
<1>2. CASE Tick
  BY <1>2 DEF Tick, IInv, TypeOK
<1>3. ASSUME NEW w \in Workers, NEW t \in Tickets, NEW now \in 0..clock,
             NEW len \in Leases,
             \/ ClaimNext(w, t, now, len) \/ Renew(w, t, now, len)
             \/ \E estimate \in BOOLEAN : Claim(w, t, now, len, estimate)
      PROVE  IInv'
  BY <1>3, ClaimStep
<1>4. ASSUME NEW t \in Tickets,
             \/ \E w \in Workers, force \in BOOLEAN : Release(w, t, force)
             \/ \E p \in Patches : Update(t, p)
             \/ Close(t) \/ ReportNotWorking(t) \/ AddNote(t)
      PROVE  IInv'
  BY <1>4, EditStep
<1> QED BY <1>1, <1>2, <1>3, <1>4, RestoreStep, GuardStep, HandoffStep DEF Next

-----------------------------------------------------------------------------
(* The theorems.                                                           *)

\* The inductive invariant holds in every reachable state.
THEOREM Invariance == Spec => []IInv
BY InitIInv, NextIInv, PTL DEF Spec

\* Every variable keeps its type, for every instance.
THEOREM TypeCorrect == Spec => []TypeOK
<1>1. IInv => TypeOK
  BY DEF IInv
<1> QED BY <1>1, Invariance, PTL

\* No sequence of claims, edits, closes, reopens, restores and handoffs makes
\* a ticket's fields contradict its status.
THEOREM LifecycleCorrect == Spec => []LifecycleConsistent
<1>1. IInv => LifecycleConsistent
  BY DEF IInv, Good, LifecycleConsistent
<1> QED BY <1>1, Invariance, PTL

\* The claim history always derives the current claim, and its intervals
\* belong to one worker each.
THEOREM HistoryCorrect == Spec => [](HistoryMatchesClaim /\ HistoryWellFormed)
<1>1. IInv => HistoryMatchesClaim /\ HistoryWellFormed
  BY DEF IInv, Good, Shape, HistoryMatchesClaim, HistoryWellFormed
<1> QED BY <1>1, Invariance, PTL

-----------------------------------------------------------------------------
(* Who holds a ticket after a revision.                                    *)

Keeps(k, l) == l.claimedBy \in {NoWorker, k.claimedBy}

\* The claim of a ticket passes to another worker only after its lease.
Handover(k, l) ==
    (k.claimedBy # NoWorker /\ l.claimedBy \notin {NoWorker, k.claimedBy})
    => k.lease <= clock

LEMMA NextHandover ==
    ASSUME IInv, [Next]_vars, NEW t \in Tickets
    PROVE  Handover(ticket[t], ticket'[t])
<1>0. /\ ticket \in [Tickets -> TicketType] /\ \A u \in Tickets : Good(ticket[u])
      /\ clock \in Nat /\ Leases \subseteq Nat
  BY ConstantsAssumption DEF IInv, TypeOK
<1>1. ASSUME ticket' = ticket PROVE Handover(ticket[t], ticket'[t])
  BY <1>1 DEF Handover
<1>2. ASSUME NEW u \in Tickets, NEW l, ticket' = [ticket EXCEPT ![u] = l],
             Keeps(ticket[u], l)
      PROVE  Handover(ticket[t], ticket'[t])
  BY <1>0, <1>2 DEF Handover, Keeps
<1>3. ASSUME NEW u \in Tickets, NEW l, NEW now \in 0..clock,
             ticket' = [ticket EXCEPT ![u] = l], ClaimAvailable(ticket[u], now)
      PROVE  Handover(ticket[t], ticket'[t])
  <2>1. ticket[u].lease \in Nat
    BY <1>0 DEF TicketType
  <2> QED BY <1>0, <1>3, <2>1 DEF Handover, ClaimAvailable
<1>4. ASSUME NEW w \in Workers, NEW u \in Tickets, NEW now \in 0..clock,
             NEW len \in Leases,
             \/ ClaimNext(w, u, now, len) \/ Renew(w, u, now, len)
             \/ \E estimate \in BOOLEAN : Claim(w, u, now, len, estimate)
      PROVE  Handover(ticket[t], ticket'[t])
  <2>0. now + len \in Nat
    BY <1>0
  <2>1. CASE ClaimNext(w, u, now, len)
    BY <1>3, <2>1 DEF ClaimNext, ClaimNextEligible, Write
  <2>2. CASE Renew(w, u, now, len)
    <3>1. Keeps(ticket[u], Extended(ticket[u], w, now + len))
      BY <1>0 DEF Keeps, Extended, TicketType
    <3> QED BY <1>2, <2>2, <3>1 DEF Renew, Write
  <2>3. ASSUME NEW estimate \in BOOLEAN, Claim(w, u, now, len, estimate)
        PROVE  Handover(ticket[t], ticket'[t])
    <3>1. CASE ClaimAvailable(ticket[u], now)
      BY <1>3, <2>3, <3>1 DEF Claim, Write
    <3>2. CASE ~ClaimAvailable(ticket[u], now)
      <4>1. Keeps(ticket[u], StartClaimed(Reclaimed(ticket[u], w, now + len, estimate)))
        BY <1>0 DEF Keeps, StartClaimed, Reclaimed, Extended, TicketType
      <4> QED BY <1>2, <2>3, <3>2, <4>1 DEF Claim, Write
    <3> QED BY <3>1, <3>2
  <2> QED BY <1>4, <2>1, <2>2, <2>3
<1>5. ASSUME NEW u \in Tickets, ticket' = [ticket EXCEPT ![u] = EndClaim(ticket[u])]
      PROVE  Handover(ticket[t], ticket'[t])
  <2>1. Keeps(ticket[u], EndClaim(ticket[u]))
    BY <1>0, GoodEndable, EndClaimGood DEF Keeps
  <2> QED BY <1>2, <1>5, <2>1
<1>6. ASSUME NEW u \in Tickets, NEW p \in PatchType, UpdateTicket(u, p)
      PROVE  Handover(ticket[t], ticket'[t])
  <2>1. Keeps(ticket[u], Patched(ticket[u], p))
    BY <1>0 DEF Keeps, Patched, EndClaim, TicketType
  <2> QED BY <1>2, <1>6, <2>1 DEF UpdateTicket, Write
<1>7. ASSUME NEW u \in Tickets, Close(u) \/ ReportNotWorking(u)
      PROVE  Handover(ticket[t], ticket'[t])
  <2>1. Keeps(ticket[u], Closed(ticket[u])) /\ Keeps(ticket[u], NotWorking(ticket[u]))
    BY <1>0, ClosedGood, NotWorkingGood DEF Keeps
  <2> QED BY <1>2, <1>7, <2>1 DEF Close, ReportNotWorking, Write
<1>8. CASE \E r \in restoring : RestoreUpdate(r)
  <2>1. PICK r \in restoring : RestoreUpdate(r)
    BY <1>8
  <2>2. r.ticket \in Tickets /\ StatusPatch(r.target) \in PatchType
    BY DEF IInv, TypeOK, RestoreType, StatusPatch, PatchType, Flags
  <2> QED BY <1>1, <1>6, <2>1, <2>2 DEF RestoreUpdate
<1>9. ASSUME NEW g \in guards, NEW len \in Leases, RenewAttempt(g, len)
      PROVE  Handover(ticket[t], ticket'[t])
  <2>1. g.ticket \in Tickets
    BY DEF IInv, TypeOK, GuardType
  <2>2. Keeps(ticket[g.ticket], Extended(ticket[g.ticket], g.worker, clock + len))
    BY <1>0, <2>1 DEF Keeps, Extended, TicketType
  <2> QED BY <1>2, <1>9, <2>1, <2>2 DEF RenewAttempt, Write
<1>10. ASSUME NEW r \in reviews, NEW now \in 0..clock, PublishHandoff(r, now)
       PROVE  Handover(ticket[t], ticket'[t])
  <2>1. r.ticket \in Tickets
    BY DEF IInv, TypeOK, ReviewType
  <2> QED BY <1>5, <1>10, <2>1 DEF PublishHandoff
<1>11. CASE UNCHANGED vars
  BY <1>1, <1>11 DEF vars
<1>12. CASE Next
  <2>1. CASE \E u \in Tickets, p \in Patches : Update(u, p)
    BY <1>6, <2>1, ConstantsAssumption DEF Update
  <2>2. CASE \E w \in Workers, u \in Tickets, force \in BOOLEAN : Release(w, u, force)
    BY <1>5, <2>2 DEF Release, Write
  <2>3. CASE \/ Tick
             \/ \E u \in Tickets : AddNote(u)
             \/ \E e \in Editors, u \in Tickets : RestoreRead(e, u)
             \/ \E w \in Guarders, u \in Tickets : GuardRead(w, u)
             \/ \E w \in Reviewers, u \in Tickets : Review(w, u)
             \/ \E g \in guards : GuardReceive(g) \/ GuardStop(g) \/ GuardExit(g)
             \/ \E r \in reviews, now \in 0..clock : RefuseHandoff(r, now)
    BY <1>1, <2>3 DEF Tick, AddNote, RestoreRead, GuardRead, Review, GuardReceive,
                      GuardStop, GuardExit, RefuseHandoff
  <2>4. CASE \E g \in guards, len \in Leases :
               GuardPreflight(g, len) \/ GuardRenew(g, len) \/ GuardFinish(g, len)
    BY <1>9, <2>4 DEF GuardPreflight, GuardRenew, GuardFinish
  <2> QED BY <1>4, <1>7, <1>8, <1>10, <1>12, <2>1, <2>2, <2>3, <2>4 DEF Next
<1> QED BY <1>11, <1>12

\* A live lease is never taken over, although every operation decides with an
\* instant captured before it had the store lock: that instant is never ahead
\* of the clock, so what it sees as expired has expired.
THEOREM LiveLeaseTheorem == Spec => LiveLeaseRespected
<1>1. IInv /\ [Next]_vars =>
        [\A t \in Tickets :
            (/\ ticket[t].claimedBy # NoWorker
             /\ ticket'[t].claimedBy \notin {NoWorker, ticket[t].claimedBy})
            => ticket[t].lease <= clock]_vars
  BY NextHandover DEF Handover
<1> QED BY <1>1, Invariance, PTL DEF Spec, LiveLeaseRespected

-----------------------------------------------------------------------------
(* The claim guard.                                                        *)

\* While a ticket is claimed, everything after its last claim event is a
\* renewal by its holder: this is what makes the attempt a fence.
LEMMA SinceLastClaim ==
    ASSUME NEW k, Good(k), k.claimedBy # NoWorker
    PROVE  LET h == k.history
               a == LastClaim(h) IN
           /\ a \in 1..Len(h) /\ h[a].kind = "claim" /\ h[a].worker = k.claimedBy
           /\ \A i \in (a + 1)..Len(h) : h[i].kind = "renew" /\ h[i].worker = k.claimedBy
<1> DEFINE h == k.history
           a == LastClaim(h)
           n == Len(h)
<1>1. /\ h \in Seq(Event) /\ n \in Nat /\ n > 0 /\ Shape(h)
      /\ h[n].kind # "release" /\ h[n].worker = k.claimedBy
  BY DEF Good, TicketType, HistoryAgrees
<1>2. /\ a \in 1..n /\ h[a].kind = "claim"
      /\ \A j \in 1..n : h[j].kind = "claim" => j <= a
  BY <1>1, LastClaimFacts
<1>3. \A i \in 1..n : h[i].kind \in Kinds
  <2> TAKE i \in 1..n
  <2>1. h[i] \in Event
    BY <1>1
  <2> QED BY <2>1 DEF Event
<1> HIDE DEF h, a, n
<1>4. \A i \in (a + 1)..n : i \in 1..n /\ h[i].kind # "claim"
  BY <1>1, <1>2
<1>5. \A i \in a..n : h[i].worker = k.claimedBy
  <2> TAKE i \in a..n
  <2>1. CASE i = n
    BY <1>1, <2>1
  <2>2. CASE i < n
    <3>1. \A m \in (i + 1)..n : h[m].kind # "claim"
      BY <1>1, <1>2, <1>4, <2>2
    <3>2. i \in 1..n /\ n \in 1..n
      BY <1>1, <1>2
    <3>3. h[n].worker = h[i].worker
      BY <2>2, <3>1, <3>2, <1>1 DEF Shape, IntervalsOK, n
    <3> QED BY <1>1, <3>3
  <2> QED BY <1>1, <1>2, <2>1, <2>2
<1>6. \A i \in (a + 1)..n : h[i].kind # "release"
  <2> TAKE i \in (a + 1)..n
  <2>1. CASE i = n
    BY <1>1, <2>1
  <2>2. CASE i < n
    <3>1. i + 1 \in (a + 1)..n /\ i + 1 \in 1..n /\ (i + 1) - 1 = i
      BY <1>1, <1>2, <2>2
    <3>2. h[i + 1].kind # "claim"
      BY <1>4, <3>1
    <3>3. h[(i + 1) - 1].kind # "release"
      BY <1>1, <3>1, <3>2 DEF Shape, IntervalsOK, n
    <3> QED BY <3>1, <3>3
  <2> QED BY <1>1, <1>2, <2>1, <2>2
<1>7. \A i \in (a + 1)..n : h[i].kind = "renew" /\ h[i].worker = k.claimedBy
  <2> TAKE i \in (a + 1)..n
  <2>1. i \in 1..n /\ i \in a..n
    BY <1>1, <1>2
  <2> QED BY <1>3, <1>4, <1>5, <1>6, <2>1 DEF Kinds
<1>8. h[a].worker = k.claimedBy
  BY <1>1, <1>2, <1>5
<1> QED BY <1>2, <1>7, <1>8 DEF h, a, n

Uninterrupted(g, h) ==
    /\ g.attempt \in 1..Len(h)
    /\ h[g.attempt].kind = "claim" /\ h[g.attempt].worker = g.worker
    /\ \A i \in (g.attempt + 1)..Len(h) : h[i].kind = "renew" /\ h[i].worker = g.worker

\* The final renewal of a guard finds its attempt uninterrupted.
LEMMA FinishUninterrupted ==
    ASSUME IInv, NEW g \in guards, NEW len \in Leases, GuardFinish(g, len)
    PROVE  Uninterrupted(g, ticket'[g.ticket].history)
<1> DEFINE k == ticket[g.ticket]
           e == [kind |-> "renew", worker |-> g.worker, lease |-> clock + len]
           h == Append(k.history, e)
<1>1. /\ g.ticket \in Tickets /\ g.worker \in Workers /\ clock + len \in Nat
      /\ Good(k) /\ k \in TicketType /\ k.history \in Seq(Event)
      /\ ticket \in [Tickets -> TicketType]
  BY ConstantsAssumption DEF IInv, TypeOK, GuardType, Good, TicketType
<1>2. e \in Event
  BY <1>1 DEF Event, Kinds
<1>3. k.claimedBy = g.worker /\ k.claimedBy # NoWorker /\ LastClaim(k.history) = g.attempt
  BY <1>1, ConstantsAssumption DEF GuardFinish, RenewAttempt, AttemptLive
<1>4. ticket'[g.ticket].history = h
  BY <1>1 DEF GuardFinish, RenewAttempt, Write, Extended, AppendClaimEvent, TicketType
<1>5. /\ Len(h) = Len(k.history) + 1 /\ Len(k.history) \in Nat
      /\ \A i \in 1..Len(k.history) : h[i] = k.history[i]
      /\ h[Len(k.history) + 1] = e
  BY <1>1, <1>2, AppendFacts
<1>6. Uninterrupted(g, k.history)
  BY <1>1, <1>3, SinceLastClaim DEF Uninterrupted
<1> HIDE DEF h, k
<1>7. Uninterrupted(g, h)
  <2>1. /\ g.attempt \in 1..Len(k.history) /\ k.history[g.attempt].kind = "claim"
        /\ k.history[g.attempt].worker = g.worker
        /\ \A i \in (g.attempt + 1)..Len(k.history) :
              k.history[i].kind = "renew" /\ k.history[i].worker = g.worker
    BY <1>6 DEF Uninterrupted
  <2>2. g.attempt \in 1..Len(h) /\ h[g.attempt] = k.history[g.attempt]
    BY <1>5, <2>1
  <2>3. ASSUME NEW i \in (g.attempt + 1)..Len(h)
        PROVE  h[i].kind = "renew" /\ h[i].worker = g.worker
    <3>1. CASE i = Len(k.history) + 1
      BY <1>5, <3>1
    <3>2. CASE i <= Len(k.history)
      BY <1>5, <2>1, <2>3, <3>2
    <3> QED BY <1>5, <2>1, <2>3, <3>1, <3>2
  <2> QED BY <2>1, <2>2, <2>3 DEF Uninterrupted
<1> QED BY <1>4, <1>7

LEMMA NextGuard ==
    ASSUME IInv, [Next]_vars, NEW g \in guards' \ guards, g.state = "succeeded"
    PROVE  Uninterrupted(g, ticket'[g.ticket].history)
<1>0. guards \subseteq GuardType
  BY DEF IInv, TypeOK
<1>1. CASE guards' = guards
  BY <1>1
<1>2. ASSUME NEW f \in guards, NEW len \in Leases, GuardFinish(f, len)
      PROVE  Uninterrupted(g, ticket'[g.ticket].history)
  <2>1. g = [f EXCEPT !.state = "succeeded"]
    BY <1>2 DEF GuardFinish, Becomes
  <2>2. g.attempt = f.attempt /\ g.worker = f.worker /\ g.ticket = f.ticket
    BY <1>0, <2>1 DEF GuardType
  <2>3. Uninterrupted(f, ticket'[f.ticket].history)
    BY <1>2, FinishUninterrupted
  <2> QED BY <2>2, <2>3 DEF Uninterrupted
<1>3. ASSUME NEW f \in guards, NEW len \in Leases,
             GuardPreflight(f, len) \/ GuardRenew(f, len)
      PROVE  FALSE
  BY <1>0, <1>3 DEF GuardPreflight, GuardRenew, Becomes, GuardType
<1>4. ASSUME NEW f \in guards, GuardReceive(f) \/ GuardStop(f) \/ GuardExit(f)
      PROVE  FALSE
  BY <1>0, <1>4 DEF GuardReceive, GuardStop, GuardExit, Becomes, GuardType
<1>5. ASSUME NEW w \in Guarders, NEW t \in Tickets, GuardRead(w, t) PROVE FALSE
  BY <1>5 DEF GuardRead
<1>6. CASE UNCHANGED vars
  BY <1>1, <1>6 DEF vars
<1>7. CASE Next
  BY <1>1, <1>2, <1>3, <1>4, <1>5, <1>7
     DEF Next, Tick, ClaimNext, Renew, Claim, Release, Update, Close, ReportNotWorking,
         AddNote, RestoreRead, RestoreUpdate, Review, PublishHandoff, RefuseHandoff
<1> QED BY <1>6, <1>7

\* claim-run reports success only for an attempt that was never interrupted.
THEOREM GuardTheorem == Spec => GuardOwnedThroughout
<1>1. IInv /\ [Next]_vars =>
        [\A g \in guards' \ guards :
            g.state = "succeeded" =>
               LET h == ticket'[g.ticket].history IN
               /\ g.attempt \in 1..Len(h)
               /\ h[g.attempt].kind = "claim" /\ h[g.attempt].worker = g.worker
               /\ \A i \in (g.attempt + 1)..Len(h) :
                      h[i].kind = "renew" /\ h[i].worker = g.worker]_vars
  BY NextGuard DEF Uninterrupted
<1> QED BY <1>1, Invariance, PTL DEF Spec, GuardOwnedThroughout

-----------------------------------------------------------------------------
(* What a step records.                                                    *)

\* The history and the attempt counter move together: a revision leaves both
\* alone, or appends one event and counts it when it is a claim.
Recorded(k, l) ==
    \/ Same(k, l)
    \/ \E e \in Event : /\ l.history = Append(k.history, e)
                        /\ l.count = IF e.kind = "claim" THEN k.count + 1 ELSE k.count

\* A write of ticket u as l: updated_at is stamped whenever the history moves.
Wrote(u, l) ==
    /\ ticket' = [ticket EXCEPT ![u] = l] /\ l \in TicketType
    /\ Recorded(ticket[u], l)
    /\ \/ Stamp(u)
       \/ l.history = ticket[u].history /\ reviews' = reviews

Published(r) ==
    /\ r.current
    /\ ticket' = [ticket EXCEPT ![r.ticket] = EndClaim(ticket[r.ticket])]
    /\ reviews' = {IF q.ticket = r.ticket THEN [q EXCEPT !.current = FALSE] ELSE q :
                      q \in reviews \ {r}}

\* Ending the claim of a ticket that was edited in other fields first.
LEMMA EndClaimRecorded ==
    ASSUME NEW k, NEW c \in TicketType, Same(k, c)
    PROVE  Recorded(k, EndClaim(c))
<1>1. CASE c.claimedBy = NoWorker
  BY <1>1 DEF EndClaim, Recorded, Same, TicketType
<1>2. CASE c.claimedBy # NoWorker
  <2> DEFINE e == [kind |-> "release", worker |-> c.claimedBy, lease |-> 0]
  <2>1. e \in Event /\ e.kind # "claim"
    BY <1>2 DEF TicketType, Event, Kinds
  <2>2. EndClaim(c).history = Append(k.history, e) /\ EndClaim(c).count = k.count
    BY <1>2 DEF EndClaim, AppendClaimEvent, Same, TicketType
  <2> HIDE DEF e
  <2> QED BY <2>1, <2>2 DEF Recorded
<1> QED BY <1>1, <1>2

LEMMA AcquiredRecorded ==
    ASSUME NEW k \in TicketType, NEW w \in Workers, NEW lease \in Nat
    PROVE  Recorded(k, StartClaimed(Acquired(k, w, lease)))
<1> DEFINE e == [kind |-> "claim", worker |-> w, lease |-> lease]
           c == Acquired(k, w, lease)
<1>1. e \in Event /\ e.kind = "claim"
  BY DEF Event, Kinds
<1>2. /\ c.history = Append(k.history, e) /\ c.count = k.count + 1
      /\ c.status = k.status
  BY DEF Acquired, AppendClaimEvent, TicketType
<1>3. Same(c, StartClaimed(c))
  BY DEF StartClaimed, Same, Acquired, TicketType
<1> HIDE DEF e, c
<1> QED BY <1>1, <1>2, <1>3 DEF Recorded, Same, c

LEMMA ExtendedRecorded ==
    ASSUME NEW k \in TicketType, NEW w \in Workers, NEW lease \in Nat
    PROVE  /\ Recorded(k, Extended(k, w, lease))
           /\ Recorded(k, StartClaimed(Extended(k, w, lease)))
<1> DEFINE e == [kind |-> "renew", worker |-> w, lease |-> lease]
           c == Extended(k, w, lease)
<1>1. e \in Event /\ e.kind # "claim"
  BY DEF Event, Kinds
<1>2. c.history = Append(k.history, e) /\ c.count = k.count
  BY DEF Extended, AppendClaimEvent, TicketType
<1>3. Same(c, StartClaimed(c))
  BY DEF StartClaimed, Same, Extended, TicketType
<1> HIDE DEF e, c
<1> QED BY <1>1, <1>2, <1>3 DEF Recorded, Same, c

LEMMA ReclaimedRecorded ==
    ASSUME NEW k \in TicketType, NEW w \in Workers, NEW lease \in Nat, NEW estimate \in BOOLEAN
    PROVE  Recorded(k, StartClaimed(Reclaimed(k, w, lease, estimate)))
<1>1. k.lease \in Nat /\ Same(k, StartClaimed(k))
  BY DEF TicketType, StartClaimed, Same
<1>2. Recorded(k, StartClaimed(k))
  BY <1>1 DEF Recorded
<1> QED BY <1>1, <1>2, ExtendedRecorded DEF Reclaimed

LEMMA PatchedRecorded ==
    ASSUME NEW k, Good(k), NEW p \in PatchType
    PROVE  /\ Recorded(k, Patched(k, p))
           /\ ~Substantive(k, Patched(k, p)) => Patched(k, p).history = k.history
<1>1. k \in TicketType
  BY DEF Good
<1>2. PICK c \in TicketType : Same(k, c) /\ Patched(k, p) \in {c, EndClaim(c)}
  BY PatchedGood
<1>3. Recorded(k, c) /\ Recorded(k, EndClaim(c))
  BY <1>2, EndClaimRecorded DEF Recorded
<1>4. ASSUME NEW l, ~Substantive(k, l) PROVE l.history = k.history
  BY <1>1, <1>4 DEF Substantive, TicketType
<1> QED BY <1>2, <1>3, <1>4

\* Every step leaves the tickets alone, writes one of them, or publishes.
StepShape ==
    \/ /\ ticket' = ticket
       /\ \/ reviews' = reviews
          \/ \E u \in Tickets : Stamp(u)
          \/ \E w \in Reviewers, t \in Tickets : Review(w, t)
          \/ \E r \in reviews : reviews' = reviews \ {r}
    \/ \E u \in Tickets : Wrote(u, ticket'[u])
    \/ \E r \in reviews : Published(r)

LEMMA NextShape ==
    ASSUME IInv, [Next]_vars
    PROVE  StepShape
<1>0. /\ ticket \in [Tickets -> TicketType] /\ \A u \in Tickets : Good(ticket[u])
      /\ clock \in Nat /\ Leases \subseteq Nat
      /\ \A u \in Tickets : ticket[u] \in TicketType
  BY ConstantsAssumption DEF IInv, TypeOK
<1>1. ASSUME NEW u \in Tickets, NEW l, Good(l), Recorded(ticket[u], l), Write(u, l)
      PROVE  StepShape
  <2>1. ticket'[u] = l /\ ticket' = [ticket EXCEPT ![u] = l] /\ Stamp(u)
    BY <1>0, <1>1 DEF Write
  <2>2. Wrote(u, ticket'[u])
    BY <1>1, <2>1 DEF Wrote, Good
  <2> QED BY <2>2 DEF StepShape
<1>2. ASSUME NEW w \in Workers, NEW u \in Tickets, NEW now \in 0..clock, NEW len \in Leases,
             \/ ClaimNext(w, u, now, len) \/ Renew(w, u, now, len)
             \/ \E estimate \in BOOLEAN : Claim(w, u, now, len, estimate)
      PROVE  StepShape
  <2>0. now + len \in Nat /\ Good(ticket[u]) /\ ticket[u] \in TicketType
    BY <1>0
  <2>1. CASE ClaimNext(w, u, now, len)
    <3>1. Good(StartClaimed(Acquired(ticket[u], w, now + len)))
      BY <2>0, <2>1, AcquiredGood, StartClaimedGood DEF ClaimNext, ClaimNextEligible
    <3> QED BY <1>1, <2>0, <2>1, <3>1, AcquiredRecorded DEF ClaimNext
  <2>2. CASE Renew(w, u, now, len)
    BY <1>1, <2>0, <2>2, ExtendedGood, ExtendedRecorded DEF Renew
  <2>3. ASSUME NEW estimate \in BOOLEAN, Claim(w, u, now, len, estimate)
        PROVE  StepShape
    <3>1. CASE ClaimAvailable(ticket[u], now)
      <4>1. Good(StartClaimed(Acquired(ticket[u], w, now + len)))
        BY <2>0, <2>3, AcquiredGood, StartClaimedGood DEF Claim
      <4> QED BY <1>1, <2>0, <2>3, <3>1, <4>1, AcquiredRecorded DEF Claim
    <3>2. CASE ~ClaimAvailable(ticket[u], now)
      <4>1. Good(StartClaimed(Reclaimed(ticket[u], w, now + len, estimate)))
        BY <2>0, <2>3, <3>2, ReclaimedGood, StartClaimedGood DEF Claim
      <4> QED BY <1>1, <2>0, <2>3, <3>2, <4>1, ReclaimedRecorded DEF Claim
    <3> QED BY <3>1, <3>2
  <2> QED BY <1>2, <2>1, <2>2, <2>3
<1>3. ASSUME NEW w \in Workers, NEW u \in Tickets, NEW force \in BOOLEAN, Release(w, u, force)
      PROVE  StepShape
  <2>1. Good(EndClaim(ticket[u])) /\ Recorded(ticket[u], EndClaim(ticket[u]))
    BY <1>0, GoodEndable, EndClaimGood, EndClaimRecorded DEF Same
  <2> QED BY <1>1, <1>3, <2>1 DEF Release
<1>4. ASSUME NEW u \in Tickets, NEW p \in PatchType, UpdateTicket(u, p)
      PROVE  StepShape
  <2> DEFINE after == Patched(ticket[u], p)
  <2>1. /\ Good(after) /\ Recorded(ticket[u], after)
        /\ ~Substantive(ticket[u], after) => after.history = ticket[u].history
    BY <1>0, PatchedGood, PatchedRecorded
  <2>2. CASE Write(u, after)
    BY <1>1, <2>1, <2>2
  <2>3. CASE /\ ~Substantive(ticket[u], after) /\ ticket' = [ticket EXCEPT ![u] = after]
             /\ reviews' = reviews
    <3>1. ticket'[u] = after
      BY <1>0, <2>3
    <3>2. Wrote(u, ticket'[u])
      BY <2>1, <2>3, <3>1 DEF Wrote, Good
    <3> QED BY <3>2 DEF StepShape
  <2> QED BY <1>4, <2>2, <2>3 DEF UpdateTicket
<1>5. ASSUME NEW u \in Tickets, Close(u) \/ ReportNotWorking(u)
      PROVE  StepShape
  <2>1. /\ Good(Closed(ticket[u])) /\ Recorded(ticket[u], Closed(ticket[u]))
        /\ Good(NotWorking(ticket[u])) /\ Recorded(ticket[u], NotWorking(ticket[u]))
    BY <1>0, ClosedGood, NotWorkingGood, EndClaimRecorded
  <2> QED BY <1>1, <1>5, <2>1 DEF Close, ReportNotWorking
<1>6. CASE \E r \in restoring : RestoreUpdate(r)
  <2>1. PICK r \in restoring : RestoreUpdate(r)
    BY <1>6
  <2>2. r.ticket \in Tickets /\ StatusPatch(r.target) \in PatchType
    BY DEF IInv, TypeOK, RestoreType, StatusPatch, PatchType, Flags
  <2>3. CASE UpdateTicket(r.ticket, StatusPatch(r.target))
    BY <1>4, <2>2, <2>3
  <2>4. CASE UNCHANGED <<clock, ticket, reviews>>
    BY <2>4 DEF StepShape
  <2> QED BY <2>1, <2>3, <2>4 DEF RestoreUpdate
<1>7. ASSUME NEW g \in guards, NEW len \in Leases, RenewAttempt(g, len)
      PROVE  StepShape
  <2>1. g.ticket \in Tickets /\ g.worker \in Workers /\ clock + len \in Nat
    BY <1>0 DEF IInv, TypeOK, GuardType
  <2>2. Good(Extended(ticket[g.ticket], g.worker, clock + len))
    BY <1>0, <1>7, <2>1, ExtendedGood DEF RenewAttempt, AttemptLive
  <2> QED BY <1>0, <1>1, <1>7, <2>1, <2>2, ExtendedRecorded DEF RenewAttempt
<1>8. ASSUME NEW r \in reviews, NEW now \in 0..clock, PublishHandoff(r, now)
      PROVE  StepShape
  BY <1>8 DEF PublishHandoff, Publishable, Published, StepShape
<1>9. CASE \/ UNCHANGED vars
           \/ Tick
           \/ \E u \in Tickets : AddNote(u)
           \/ \E e \in Editors, u \in Tickets : RestoreRead(e, u)
           \/ \E w \in Guarders, u \in Tickets : GuardRead(w, u)
           \/ \E g \in guards : GuardReceive(g) \/ GuardStop(g) \/ GuardExit(g)
           \/ \E r \in reviews, now \in 0..clock : RefuseHandoff(r, now)
  BY <1>9 DEF vars, Tick, AddNote, RestoreRead, GuardRead, GuardReceive, GuardStop,
              GuardExit, RefuseHandoff, StepShape
<1>10. CASE \E w \in Reviewers, u \in Tickets : Review(w, u)
  <2>1. ticket' = ticket
    BY <1>10 DEF Review
  <2> QED BY <1>10, <2>1 DEF StepShape
<1>11. CASE Next
  <2>1. CASE \E u \in Tickets, p \in Patches : Update(u, p)
    BY <1>4, <2>1, ConstantsAssumption DEF Update
  <2>2. CASE \E g \in guards, len \in Leases :
               GuardPreflight(g, len) \/ GuardRenew(g, len) \/ GuardFinish(g, len)
    BY <1>7, <2>2 DEF GuardPreflight, GuardRenew, GuardFinish
  <2> QED BY <1>2, <1>3, <1>5, <1>6, <1>8, <1>9, <1>10, <1>11, <2>1, <2>2 DEF Next
<1> QED BY <1>9, <1>11

-----------------------------------------------------------------------------
(* The attempt counter and the handoff.                                    *)

Claims(h) == {i \in 1..Len(h) : h[i].kind = "claim"}

\* A review whose updated_at still matches has seen every event, and a worker
\* has one review at a time.
Reviewed ==
    /\ \A r \in reviews : r.current => r.events = Len(ticket[r.ticket].history)
    /\ \A q, r \in reviews : q.worker = r.worker => q = r

AInv == IInv /\ CountIsAttempts /\ Reviewed

\* One more event changes the number of claim events by what the counter adds.
LEMMA RecordedCount ==
    ASSUME NEW k \in TicketType, NEW l \in TicketType, Recorded(k, l),
           k.count = Cardinality(Claims(k.history))
    PROVE  l.count = Cardinality(Claims(l.history))
<1>1. CASE Same(k, l)
  BY <1>1 DEF Same
<1>2. ASSUME NEW e \in Event, l.history = Append(k.history, e),
             l.count = IF e.kind = "claim" THEN k.count + 1 ELSE k.count
      PROVE  l.count = Cardinality(Claims(l.history))
  <2> DEFINE h == k.history
             g == Append(h, e)
             n == Len(h)
  <2>1. h \in Seq(Event)
    BY DEF TicketType
  <2>2. /\ Len(g) = n + 1 /\ n \in Nat
        /\ \A i \in 1..n : g[i] = h[i]
        /\ g[n + 1] = e
    BY <2>1, AppendFacts
  <2> HIDE DEF g, h, n
  <2>3. IsFiniteSet(Claims(h)) /\ n + 1 \notin Claims(h)
    <3>1. IsFiniteSet(1..n)
      BY <2>2, FS_Interval
    <3>2. Claims(h) \subseteq 1..n
      BY DEF Claims, n
    <3> QED BY <2>2, <3>1, <3>2, FS_Subset
  <2>4. CASE e.kind = "claim"
    <3>1. Claims(g) = Claims(h) \cup {n + 1}
      BY <2>2, <2>4 DEF Claims, n
    <3>2. Cardinality(Claims(g)) = Cardinality(Claims(h)) + 1
      BY <2>3, <3>1, FS_AddElement
    <3> QED BY <1>2, <2>4, <3>2 DEF g, h
  <2>5. CASE e.kind # "claim"
    <3>1. Claims(g) = Claims(h)
      BY <2>2, <2>5 DEF Claims, n
    <3> QED BY <1>2, <2>5, <3>1 DEF g, h
  <2> QED BY <2>4, <2>5
<1> QED BY <1>1, <1>2 DEF Recorded

LEMMA CountInit == Init => CountIsAttempts
<1> SUFFICES ASSUME Init, NEW t \in Tickets
             PROVE  ticket[t].count = Cardinality(Claims(ticket[t].history))
  BY DEF CountIsAttempts, Claims
<1>1. ticket[t].count = 0 /\ ticket[t].history = <<>>
  BY DEF Init, NewTicket
<1>2. Claims(ticket[t].history) = {}
  BY <1>1 DEF Claims
<1> QED BY <1>1, <1>2, FS_EmptySet

LEMMA CountStep ==
    ASSUME IInv, CountIsAttempts, [Next]_vars
    PROVE  CountIsAttempts'
<1> SUFFICES ASSUME NEW t \in Tickets
             PROVE  ticket'[t].count = Cardinality(Claims(ticket'[t].history))
  BY DEF CountIsAttempts, Claims
<1>0. /\ ticket \in [Tickets -> TicketType] /\ ticket[t] \in TicketType
      /\ ticket[t].count = Cardinality(Claims(ticket[t].history))
  BY DEF IInv, TypeOK, CountIsAttempts, Claims
<1>1. CASE ticket' = ticket
  BY <1>0, <1>1
<1>2. ASSUME NEW u \in Tickets, Wrote(u, ticket'[u])
      PROVE  ticket'[t].count = Cardinality(Claims(ticket'[t].history))
  <2>1. CASE t = u
    BY <1>0, <1>2, <2>1, RecordedCount DEF Wrote
  <2>2. CASE t # u
    <3>1. ticket'[t] = ticket[t]
      BY <1>0, <1>2, <2>2 DEF Wrote
    <3> QED BY <1>0, <3>1
  <2> QED BY <2>1, <2>2
<1>3. ASSUME NEW r \in reviews, Published(r)
      PROVE  ticket'[t].count = Cardinality(Claims(ticket'[t].history))
  <2>0. r.ticket \in Tickets
    BY DEF IInv, TypeOK, ReviewType
  <2>1. CASE t = r.ticket
    <3>1. ticket'[t] = EndClaim(ticket[t])
      BY <1>0, <1>3, <2>1 DEF Published
    <3>2. Recorded(ticket[t], EndClaim(ticket[t])) /\ EndClaim(ticket[t]) \in TicketType
      BY <1>0, GoodEndable, EndClaimGood, EndClaimRecorded DEF IInv, Same, Good
    <3> QED BY <1>0, <3>1, <3>2, RecordedCount
  <2>2. CASE t # r.ticket
    <3>1. ticket'[t] = ticket[t]
      BY <1>0, <1>3, <2>2 DEF Published
    <3> QED BY <1>0, <3>1
  <2> QED BY <2>1, <2>2
<1> QED BY <1>1, <1>2, <1>3, NextShape DEF StepShape

\* What stamping ticket u leaves of the reviews in a set R.
Aged(q, u) == IF q.ticket = u THEN [q EXCEPT !.current = FALSE] ELSE q
AllAged(R, u) == {Aged(q, u) : q \in R}

LEMMA StampedReviews ==
    ASSUME NEW R \in SUBSET ReviewType, NEW u,
           reviews' = AllAged(R, u)
    PROVE  \A r \in reviews' : \E q \in R :
              /\ r.worker = q.worker /\ r.ticket = q.ticket /\ r.events = q.events
              /\ r = Aged(q, u)
              /\ (r.current => q.current /\ q.ticket # u)
<1> TAKE r \in reviews'
<1>1. PICK q \in R : r = Aged(q, u)
  BY DEF AllAged
<1>2. q \in ReviewType
  OBVIOUS
<1>3. CASE q.ticket = u
  BY <1>1, <1>2, <1>3 DEF ReviewType, Aged
<1>4. CASE q.ticket # u
  BY <1>1, <1>2, <1>4 DEF ReviewType, Aged
<1> QED BY <1>3, <1>4

\* Stamping the written ticket keeps what is known of the reviews.
LEMMA StampReviewed ==
    ASSUME IInv, Reviewed, NEW R \in SUBSET reviews, NEW u,
           reviews' = AllAged(R, u),
           \A t \in Tickets : t # u => ticket'[t].history = ticket[t].history
    PROVE  Reviewed'
<1>0. R \in SUBSET ReviewType
  BY DEF IInv, TypeOK
<1>1. \A r \in reviews' : \E q \in R :
         /\ r.worker = q.worker /\ r.ticket = q.ticket /\ r.events = q.events
         /\ r = Aged(q, u)
         /\ (r.current => q.current /\ q.ticket # u)
  BY <1>0, StampedReviews
<1>2. ASSUME NEW r \in reviews', r.current
      PROVE  r.events = Len(ticket'[r.ticket].history)
  <2>1. PICK q \in R : r.ticket = q.ticket /\ r.events = q.events /\ q.current /\ q.ticket # u
    BY <1>1, <1>2
  <2>2. q.ticket \in Tickets
    BY <1>0 DEF ReviewType
  <2> QED BY <2>1, <2>2 DEF Reviewed
<1>3. ASSUME NEW q \in reviews', NEW r \in reviews', q.worker = r.worker
      PROVE  q = r
  <2>1. PICK a \in R : q.worker = a.worker /\ q = Aged(a, u)
    BY <1>1
  <2>2. PICK b \in R : r.worker = b.worker /\ r = Aged(b, u)
    BY <1>1
  <2>3. a = b
    BY <1>3, <2>1, <2>2 DEF Reviewed
  <2> QED BY <2>1, <2>2, <2>3
<1> QED BY <1>2, <1>3 DEF Reviewed

LEMMA ReviewedStep ==
    ASSUME IInv, Reviewed, [Next]_vars
    PROVE  Reviewed'
<1>0. ticket \in [Tickets -> TicketType] /\ reviews \subseteq ReviewType
  BY DEF IInv, TypeOK
<1>1. CASE ticket' = ticket /\ reviews' = reviews
  BY <1>1 DEF Reviewed
<1>2. ASSUME NEW u \in Tickets, ticket' = ticket, Stamp(u) PROVE Reviewed'
  <2>1. reviews' = AllAged(reviews, u)
    BY <1>2 DEF Stamp, AllAged, Aged
  <2> QED BY <1>2, <2>1, StampReviewed
<1>3. ASSUME NEW w \in Reviewers, NEW t \in Tickets, Review(w, t) PROVE Reviewed'
  <2> DEFINE new == [worker |-> w, ticket |-> t, current |-> TRUE,
                     attempt |-> LastClaim(ticket[t].history),
                     events |-> Len(ticket[t].history)]
  <2>1. /\ \A r \in reviews : r.worker # w
        /\ reviews' = reviews \cup {new} /\ ticket' = ticket
    BY <1>3 DEF Review
  <2>2. new.worker = w /\ new.ticket = t /\ new.events = Len(ticket[t].history)
    OBVIOUS
  <2> HIDE DEF new
  <2> QED BY <2>1, <2>2 DEF Reviewed
<1>4. ASSUME NEW r \in reviews, ticket' = ticket, reviews' = reviews \ {r} PROVE Reviewed'
  BY <1>4 DEF Reviewed
<1>5. ASSUME NEW u \in Tickets, Wrote(u, ticket'[u]) PROVE Reviewed'
  <2>1. \A t \in Tickets : t # u => ticket'[t].history = ticket[t].history
    BY <1>0, <1>5 DEF Wrote
  <2>2. CASE Stamp(u)
    <3>1. reviews' = AllAged(reviews, u)
      BY <2>2 DEF Stamp, AllAged, Aged
    <3> QED BY <2>1, <3>1, StampReviewed
  <2>3. CASE ticket'[u].history = ticket[u].history /\ reviews' = reviews
    <3>1. \A t \in Tickets : ticket'[t].history = ticket[t].history
      BY <2>1, <2>3
    <3>2. \A r \in reviews : r.ticket \in Tickets
      BY <1>0 DEF ReviewType
    <3> QED BY <2>3, <3>1, <3>2 DEF Reviewed
  <2> QED BY <1>5, <2>2, <2>3 DEF Wrote
<1>6. ASSUME NEW r \in reviews, Published(r) PROVE Reviewed'
  <2>1. \A t \in Tickets : t # r.ticket => ticket'[t].history = ticket[t].history
    BY <1>0, <1>6 DEF Published
  <2>2. reviews \ {r} \in SUBSET reviews /\ reviews' = AllAged(reviews \ {r}, r.ticket)
    BY <1>6 DEF Published, AllAged, Aged
  <2> QED BY <2>1, <2>2, StampReviewed
<1> QED BY <1>1, <1>2, <1>3, <1>4, <1>5, <1>6, NextShape DEF StepShape

\* A worker's review disappears together with a write only in its own
\* publication, and that one was current.
LEMMA HandoffShape ==
    ASSUME AInv, [Next]_vars, NEW r \in reviews,
           \A q \in reviews' : q.worker # r.worker, ticket' # ticket
    PROVE  Len(ticket[r.ticket].history) = r.events
<1>0. reviews \subseteq ReviewType
  BY DEF AInv, IInv, TypeOK
<1>1. \A q \in ReviewType : [q EXCEPT !.current = FALSE].worker = q.worker
  BY DEF ReviewType
<1>2. ASSUME NEW u \in Tickets, Wrote(u, ticket'[u]) PROVE FALSE
  <2>1. CASE reviews' = reviews
    BY <2>1
  <2>2. CASE Stamp(u)
    <3> DEFINE q == IF r.ticket = u THEN [r EXCEPT !.current = FALSE] ELSE r
    <3>1. q \in reviews' /\ q.worker = r.worker
      BY <1>0, <1>1, <2>2 DEF Stamp
    <3> QED BY <3>1
  <2> QED BY <1>2, <2>1, <2>2 DEF Wrote
<1>3. ASSUME NEW p \in reviews, Published(p)
      PROVE  Len(ticket[r.ticket].history) = r.events
  <2>1. CASE p = r
    BY <1>3, <2>1 DEF Published, AInv, Reviewed
  <2>2. CASE p # r
    <3> DEFINE q == IF r.ticket = p.ticket THEN [r EXCEPT !.current = FALSE] ELSE r
    <3>1. q \in reviews' /\ q.worker = r.worker
      BY <1>0, <1>1, <1>3, <2>2 DEF Published
    <3> QED BY <3>1
  <2> QED BY <2>1, <2>2
<1> QED BY <1>2, <1>3, NextShape DEF StepShape, AInv

LEMMA AttemptInvariance == Spec => []AInv
<1>1. Init => AInv
  <2>1. Init => Reviewed
    BY DEF Init, Reviewed
  <2> QED BY <2>1, InitIInv, CountInit DEF AInv
<1>2. AInv /\ [Next]_vars => AInv'
  BY NextIInv, CountStep, ReviewedStep DEF AInv
<1> QED BY <1>1, <1>2, PTL DEF Spec

\* claim_count is the number of claim events in the history, whatever retries,
\* takeovers, edits and renewals led to it.
THEOREM CountTheorem == Spec => []CountIsAttempts
<1>1. AInv => CountIsAttempts
  BY DEF AInv
<1> QED BY <1>1, AttemptInvariance, PTL

\* A handoff is published only on the claim its worker reviewed: the fence on
\* updated_at excludes every claim event since the preflight.
THEOREM HandoffTheorem == Spec => HandoffUntouched
<1>1. AInv /\ [Next]_vars =>
        [\A r \in reviews :
            (/\ \A q \in reviews' : q.worker # r.worker
             /\ ticket' # ticket)
            => Len(ticket[r.ticket].history) = r.events]_vars
  BY HandoffShape
<1> QED BY <1>1, AttemptInvariance, PTL DEF Spec, HandoffUntouched
=============================================================================
