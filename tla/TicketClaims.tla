---------------------------- MODULE TicketClaims ----------------------------
(***************************************************************************)
(* The claim life cycle of the tickets of one store: hotsheet-ticketing's  *)
(* ops.rs, the claim guard of `hotsheet-cli claim-run` and the worker      *)
(* handoff.  Every operation runs as one store transaction (a lock on the  *)
(* store file), so an operation is one action; what is NOT atomic is shown *)
(* as such:                                                                *)
(*   - the caller captures `now`, and computes the lease end from it,      *)
(*     BEFORE it waits for the lock.  An operation therefore runs with any *)
(*     instant `now` up to the present one;                                *)
(*   - restore, the claim guard and the handoff read the ticket in one     *)
(*     step and act on what they read in a later one.                      *)
(* Timestamps have nanosecond resolution, so two operations never stamp    *)
(* `updated_at` with the same instant.                                     *)
(***************************************************************************)
EXTENDS Integers, Sequences, FiniteSets

CONSTANTS
    Tickets,      \* ticket ids
    Workers,      \* worker ids a claim can name
    NoWorker,     \* an unset claimed_by
    Editors,      \* callers of restore
    Guarders,     \* the workers that run commands under a claim guard
    Reviewers,    \* the workers that hand their work off
    Leases,       \* the lease lengths callers ask for
    Patches,      \* the patches callers pass to update
    NewStatuses,  \* the statuses tickets are created with
    MaxTime,      \* bound on the clock
    MaxHistory    \* bound on the length of a claim history

Keep == "keep"    \* a field a patch leaves alone (None)
Flags == {"on", "off", Keep}
Set(flag, old) == IF flag = Keep THEN old ELSE flag = "on"

Unknown == "unknown"  \* no recorded move into Trash
Statuses == {"not_started", "started", "completed", "verified",
             "backlog", "archive", "deleted"}
Active == {"not_started", "started"}
Open == Active \cup {"backlog"}
Phases == {"none", "analyzing", "initial_testing", "final_testing"}
Kinds == {"claim", "renew", "release"}

PatchType == [status : Statuses \cup {Keep}, phase : Phases \cup {Keep},
              upNext : Flags, blocked : Flags, content : BOOLEAN]

ASSUME ConstantsAssumption ==
    /\ NoWorker \notin Workers
    /\ Guarders \subseteq Workers /\ Reviewers \subseteq Workers
    /\ Leases \subseteq Nat
    /\ Patches \subseteq PatchType
    /\ NewStatuses \subseteq Statuses
    /\ MaxTime \in Nat /\ MaxHistory \in Nat

VARIABLES
    clock,      \* the wall clock
    ticket,     \* the ticket files
    restoring,  \* restores between their read and their update
    guards,     \* claim-run guards between their first read and their exit
    reviews     \* handoffs between their preflight and their publication

vars == <<clock, ticket, restoring, guards, reviews>>

Event == [kind : Kinds, worker : Workers, lease : Nat]

TicketType == [status : Statuses, phase : Phases, upNext : BOOLEAN,
               blocked : BOOLEAN, closed : BOOLEAN,
               trashedFrom : Statuses \cup {Unknown},
               claimedBy : Workers \cup {NoWorker}, lease : Nat,
               count : Nat, history : Seq(Event)]

RestoreType == [editor : Editors, ticket : Tickets, target : Statuses]

GuardType == [worker : Workers, ticket : Tickets, attempt : Nat, held : Nat,
              answer : Nat, state : {"preflight", "running", "succeeded"}]

ReviewType == [worker : Workers, ticket : Tickets, attempt : Nat,
               events : Nat, current : BOOLEAN]

-----------------------------------------------------------------------------
(* Ticket values and the helpers of ops.rs that revise one in memory.      *)

NewTicket(status, upNext) ==
    [status |-> status,
     phase |-> IF status = "started" THEN "analyzing" ELSE "none",
     upNext |-> upNext /\ status \in Active,
     blocked |-> FALSE, closed |-> FALSE, trashedFrom |-> Unknown,
     claimedBy |-> NoWorker, lease |-> 0, count |-> 0, history |-> <<>>]

\* Mutant of ClaimAvailable: the lease is offered one unit early.
ClaimAvailableEarly(k, now) == k.claimedBy = NoWorker \/ k.lease <= now + 1

\* An unclaimed ticket, or one whose lease ended at or before now.
ClaimAvailable(k, now) == k.claimedBy = NoWorker \/ k.lease <= now

AppendClaimEvent(k, kind, w, lease) ==
    Append(k.history, [kind |-> kind, worker |-> w, lease |-> lease])

\* The position of the last Claim event, which stands for its id: the id is
\* a hash over the position, so it is unique in a history.  0 when absent.
LastClaim(h) ==
    IF \E i \in 1..Len(h) : h[i].kind = "claim"
    THEN CHOOSE i \in 1..Len(h) :
            /\ h[i].kind = "claim"
            /\ \A j \in 1..Len(h) : h[j].kind = "claim" => j <= i
    ELSE 0

\* Mutant of EndClaim: the claim ends without a release event.
EndClaimUnrecorded(k) == [k EXCEPT !.claimedBy = NoWorker, !.lease = 0]

EndClaim(k) ==
    [k EXCEPT !.history = IF k.claimedBy = NoWorker THEN k.history
                          ELSE AppendClaimEvent(k, "release", k.claimedBy, 0),
              !.claimedBy = NoWorker, !.lease = 0]

StartClaimed(k) ==
    IF k.status # "not_started" THEN k
    ELSE [k EXCEPT !.status = "started", !.phase = "analyzing"]

Acquired(k, w, lease) ==
    [k EXCEPT !.claimedBy = w, !.lease = lease, !.count = k.count + 1,
              !.history = AppendClaimEvent(k, "claim", w, lease)]

Extended(k, w, lease) ==
    [k EXCEPT !.lease = lease,
              !.history = AppendClaimEvent(k, "renew", w, lease)]

\* Mutant of Reclaimed: a retry counts as an attempt.
ReclaimedCounts(k, w, lease, estimate) ==
    [Extended(k, w, lease) EXCEPT !.count = k.count + 1]

\* The live holder claims again: a longer lease or a new estimate is recorded
\* as a renewal, and nothing else of the claim changes.
Reclaimed(k, w, lease, estimate) ==
    IF k.lease < lease THEN Extended(k, w, lease)
    ELSE IF estimate THEN Extended(k, w, k.lease)
    ELSE k

\* update: the patch, then the rules that tie the fields to the status.
Patched(k, p) ==
    LET status == IF p.status = Keep THEN k.status ELSE p.status
        phase == IF p.status = Keep THEN k.phase
                 ELSE IF status # "started" THEN "none"
                 ELSE IF k.status # "started" /\ p.phase = Keep THEN "analyzing"
                 ELSE k.phase
        revised ==
          [k EXCEPT
             !.status = status,
             !.phase = IF p.phase # Keep /\ status = "started"
                       THEN p.phase ELSE phase,
             !.upNext = Set(p.upNext, k.upNext) /\ status \in Active,
             !.blocked = Set(p.blocked, k.blocked),
             !.closed = k.closed /\ (p.status = Keep \/ status \notin Active),
             !.trashedFrom = IF status # "deleted" THEN Unknown
                             ELSE IF k.status # "deleted" THEN k.status
                             ELSE k.trashedFrom]
    IN  IF status \notin Active \/ (p.status # Keep /\ k.status \notin Active)
        THEN EndClaim(revised) ELSE revised

\* Mutant of Closed: the status stays.
ClosedInPlace(k) == EndClaim([k EXCEPT !.closed = TRUE, !.upNext = FALSE])

\* close_as: an active ticket settles to completed, any other status stays.
Closed(k) ==
    LET settled == IF k.status \in Active
                   THEN [k EXCEPT !.status = "completed", !.phase = "none"]
                   ELSE k
    IN  EndClaim([settled EXCEPT !.closed = TRUE, !.upNext = FALSE])

NotWorking(k) ==
    EndClaim([k EXCEPT !.status = "not_started", !.phase = "none",
                       !.upNext = TRUE, !.closed = FALSE])

\* Whether a write moves updated_at: Up Next alone does not.
Substantive(before, after) == [before EXCEPT !.upNext = after.upNext] # after

\* Room for one more event and the release that may follow it.
HasRoom(k) == Len(k.history) + 2 <= MaxHistory

-----------------------------------------------------------------------------
(* The operations.                                                         *)

Init ==
    /\ clock = 0
    /\ ticket \in [Tickets -> {NewTicket(s, u) : s \in NewStatuses, u \in BOOLEAN}]
    /\ restoring = {}
    /\ guards = {}
    /\ reviews = {}

\* Mutant of Stamp: updated_at stays.
StampMissing(t) == UNCHANGED reviews

\* A reviewed updated_at no longer matches once the ticket is stamped again.
Stamp(t) ==
    reviews' = {IF r.ticket = t THEN [r EXCEPT !.current = FALSE] ELSE r :
                    r \in reviews}

Write(t, k) == ticket' = [ticket EXCEPT ![t] = k] /\ Stamp(t)

Tick ==
    /\ clock < MaxTime
    /\ clock' = clock + 1
    /\ UNCHANGED <<ticket, restoring, guards, reviews>>

\* claim_with_eta: an exact claim.
Claim(w, t, now, len, estimate) ==
    LET k == ticket[t] IN
    /\ k.status \in Open
    /\ HasRoom(k)
    /\ ClaimAvailable(k, now) \/ k.claimedBy = w
    /\ Write(t, StartClaimed(IF ClaimAvailable(k, now)
                             THEN Acquired(k, w, now + len)
                             ELSE Reclaimed(k, w, now + len, estimate)))
    /\ UNCHANGED <<clock, restoring, guards>>

ClaimNextEligible(k, now) ==
    /\ k.status \in Open
    /\ ~k.blocked
    /\ ClaimAvailable(k, now)
    /\ k.phase # "final_testing"

\* claim_next_with_eta.  Which eligible ticket is the next one is left open
\* here; ClaimNextAcross models the order of the queue.
ClaimNext(w, t, now, len) ==
    /\ ClaimNextEligible(ticket[t], now)
    /\ HasRoom(ticket[t])
    /\ Write(t, StartClaimed(Acquired(ticket[t], w, now + len)))
    /\ UNCHANGED <<clock, restoring, guards>>

\* renew_with_eta_fenced without an attempt: the caller's clock.
Renew(w, t, now, len) ==
    LET k == ticket[t] IN
    /\ k.claimedBy = w
    /\ ~ClaimAvailable(k, now)
    /\ now + len > now
    /\ HasRoom(k)
    /\ Write(t, Extended(k, w, now + len))
    /\ UNCHANGED <<clock, restoring, guards>>

\* release, and each release of release_worker.
Release(w, t, force) ==
    LET k == ticket[t] IN
    /\ k.claimedBy # NoWorker
    /\ k.claimedBy = w \/ force
    /\ Write(t, EndClaim(k))
    /\ UNCHANGED <<clock, restoring, guards>>

\* update's transaction: write only what changed, stamp only what matters.
UpdateTicket(t, p) ==
    LET after == Patched(ticket[t], p) IN
    /\ after # ticket[t] \/ p.content
    /\ IF Substantive(ticket[t], after) \/ p.content
       THEN Write(t, after)
       ELSE ticket' = [ticket EXCEPT ![t] = after] /\ UNCHANGED reviews
    /\ UNCHANGED clock

Update(t, p) == UpdateTicket(t, p) /\ UNCHANGED <<restoring, guards>>

Close(t) ==
    /\ Write(t, Closed(ticket[t]))
    /\ UNCHANGED <<clock, restoring, guards>>

ReportNotWorking(t) ==
    /\ ticket[t].status \in {"completed", "verified", "archive"}
    /\ Write(t, NotWorking(ticket[t]))
    /\ UNCHANGED <<clock, restoring, guards>>

AddNote(t) ==
    /\ Stamp(t)
    /\ UNCHANGED <<clock, ticket, restoring, guards>>

\* restore, first half: read the ticket outside the transaction.
RestoreRead(e, t) ==
    LET k == ticket[t] IN
    /\ k.status = "deleted"
    /\ \A r \in restoring : r.editor # e
    /\ restoring' = restoring \cup
         {[editor |-> e, ticket |-> t,
           target |-> IF k.trashedFrom = Unknown THEN "not_started"
                      ELSE k.trashedFrom]}
    /\ UNCHANGED <<clock, ticket, guards, reviews>>

StatusPatch(s) == [status |-> s, phase |-> Keep, upNext |-> Keep,
                   blocked |-> Keep, content |-> FALSE]

\* restore, second half: an ordinary update to the status read before.
RestoreUpdate(r) ==
    /\ r \in restoring
    /\ restoring' = restoring \ {r}
    /\ \/ UpdateTicket(r.ticket, StatusPatch(r.target))
       \/ /\ Patched(ticket[r.ticket], StatusPatch(r.target)) = ticket[r.ticket]
          /\ UNCHANGED <<clock, ticket, reviews>>
    /\ UNCHANGED guards

-----------------------------------------------------------------------------
(* The claim guard: claim-run owns a process tree for one claim attempt.   *)

\* Its first read, outside the transaction, remembers the attempt.
GuardRead(w, t) ==
    LET k == ticket[t] IN
    /\ \A g \in guards : g.worker # w
    /\ k.claimedBy = w /\ ~ClaimAvailable(k, clock)
    /\ LastClaim(k.history) # 0 /\ k.history[LastClaim(k.history)].worker = w
    /\ guards' = guards \cup
         {[worker |-> w, ticket |-> t, attempt |-> LastClaim(k.history),
           held |-> 0, answer |-> 0, state |-> "preflight"]}
    /\ UNCHANGED <<clock, ticket, restoring, reviews>>

\* Mutant of AttemptLive: any attempt of the worker.
AttemptLiveUnfenced(g) ==
    LET k == ticket[g.ticket] IN
    /\ k.claimedBy = g.worker
    /\ ~ClaimAvailable(k, clock)

\* renew_live_attempt_with_clock: the clock is read inside the transaction,
\* and only the remembered attempt is renewed.
AttemptLive(g) ==
    LET k == ticket[g.ticket] IN
    /\ k.claimedBy = g.worker
    /\ ~ClaimAvailable(k, clock)
    /\ LastClaim(k.history) = g.attempt

RenewAttempt(g, len) ==
    /\ AttemptLive(g)
    /\ clock + len > clock
    /\ HasRoom(ticket[g.ticket])
    /\ Write(g.ticket, Extended(ticket[g.ticket], g.worker, clock + len))

Becomes(g, h) == guards' = (guards \ {g}) \cup {h}

\* The preflight renewal: the command starts only when it succeeds.
GuardPreflight(g, len) ==
    /\ g \in guards /\ g.state = "preflight"
    /\ RenewAttempt(g, len)
    /\ Becomes(g, [g EXCEPT !.held = clock + len, !.state = "running"])
    /\ UNCHANGED <<clock, restoring>>

\* A scheduled renewal runs on a thread of its own; its answer waits.
GuardRenew(g, len) ==
    /\ g \in guards /\ g.state = "running" /\ g.answer = 0
    /\ RenewAttempt(g, len)
    /\ Becomes(g, [g EXCEPT !.answer = clock + len])
    /\ UNCHANGED <<clock, restoring>>

GuardReceive(g) ==
    /\ g \in guards /\ g.state = "running" /\ g.answer # 0
    /\ Becomes(g, [g EXCEPT !.held = g.answer, !.answer = 0])
    /\ UNCHANGED <<clock, ticket, restoring, reviews>>

\* A refused renewal, the held deadline or a failed command stops the tree
\* with an error; only a refused renewal ends the preflight.
GuardStop(g) ==
    /\ g \in guards /\ g.state # "succeeded"
    /\ ~AttemptLive(g) \/ g.state = "running"
    /\ guards' = guards \ {g}
    /\ UNCHANGED <<clock, ticket, restoring, reviews>>

\* The command exited: one more renewal before success is reported.
GuardFinish(g, len) ==
    /\ g \in guards /\ g.state = "running" /\ g.answer = 0
    /\ clock < g.held
    /\ RenewAttempt(g, len)
    /\ Becomes(g, [g EXCEPT !.state = "succeeded"])
    /\ UNCHANGED <<clock, restoring>>

GuardExit(g) ==
    /\ g \in guards /\ g.state = "succeeded"
    /\ guards' = guards \ {g}
    /\ UNCHANGED <<clock, ticket, restoring, reviews>>

-----------------------------------------------------------------------------
(* The worker handoff.                                                     *)

\* The evidence names the attempt and the updated_at the worker reviewed.
Review(w, t) ==
    /\ \A r \in reviews : r.worker # w
    /\ ticket[t].claimedBy = w
    /\ reviews' = reviews \cup
         {[worker |-> w, ticket |-> t, current |-> TRUE,
           attempt |-> LastClaim(ticket[t].history),
           events |-> Len(ticket[t].history)]}
    /\ UNCHANGED <<clock, ticket, restoring, guards>>

\* publish_handoff_note: the note and the release in one write.
Publishable(r, now) ==
    LET k == ticket[r.ticket] IN
    /\ r.current
    /\ k.claimedBy = r.worker
    /\ ~ClaimAvailable(k, now)
    /\ LastClaim(k.history) = r.attempt
    /\ k.phase = "initial_testing"

PublishHandoff(r, now) ==
    /\ r \in reviews
    /\ Publishable(r, now)
    /\ ticket' = [ticket EXCEPT ![r.ticket] = EndClaim(ticket[r.ticket])]
    /\ reviews' = {IF q.ticket = r.ticket THEN [q EXCEPT !.current = FALSE] ELSE q :
                      q \in reviews \ {r}}
    /\ UNCHANGED <<clock, restoring, guards>>

RefuseHandoff(r, now) ==
    /\ r \in reviews
    /\ ~Publishable(r, now)
    /\ reviews' = reviews \ {r}
    /\ UNCHANGED <<clock, ticket, restoring, guards>>

-----------------------------------------------------------------------------
Next ==
    \/ Tick
    \/ \E w \in Workers, t \in Tickets, now \in 0..clock, len \in Leases :
          \/ ClaimNext(w, t, now, len)
          \/ Renew(w, t, now, len)
          \/ \E estimate \in BOOLEAN : Claim(w, t, now, len, estimate)
    \/ \E w \in Workers, t \in Tickets, force \in BOOLEAN : Release(w, t, force)
    \/ \E t \in Tickets, p \in Patches : Update(t, p)
    \/ \E t \in Tickets : Close(t)
    \/ \E t \in Tickets : ReportNotWorking(t)
    \/ \E t \in Tickets : AddNote(t)
    \/ \E e \in Editors, t \in Tickets : RestoreRead(e, t)
    \/ \E r \in restoring : RestoreUpdate(r)
    \/ \E w \in Guarders, t \in Tickets : GuardRead(w, t)
    \/ \E w \in Reviewers, t \in Tickets : Review(w, t)
    \/ \E g \in guards, len \in Leases :
          GuardPreflight(g, len) \/ GuardRenew(g, len) \/ GuardFinish(g, len)
    \/ \E g \in guards : GuardReceive(g) \/ GuardStop(g) \/ GuardExit(g)
    \/ \E r \in reviews, now \in 0..clock :
          PublishHandoff(r, now) \/ RefuseHandoff(r, now)

Spec == Init /\ [][Next]_vars

-----------------------------------------------------------------------------
(* Properties.                                                             *)

\* Every variable keeps its type.
TypeOK ==
    /\ clock \in Nat
    /\ ticket \in [Tickets -> TicketType]
    /\ restoring \subseteq RestoreType
    /\ guards \subseteq GuardType
    /\ reviews \subseteq ReviewType

\* The fields of a ticket never contradict its status, whatever sequence of
\* claims, edits, closes, reopens and restores led to it: a phase means
\* started, Up Next means active, a claim means open, and a close reason
\* never sits on an active status (HS2-3XHT9P, HS2-55610S).
LifecycleOK(k) ==
    /\ k.phase # "none" => k.status = "started"
    /\ k.upNext => k.status \in Active
    /\ k.claimedBy # NoWorker => k.status \in Open
    /\ k.closed => k.status \notin Active

LifecycleConsistent == \A t \in Tickets : LifecycleOK(ticket[t])

\* The append-only history derives the current claim: its last event is the
\* holder's claim or renewal with the lease the ticket shows, or a release
\* (or nothing) when the ticket is unclaimed.  Every operation that ends a
\* claim as a side effect must leave its release event.
HistoryAgrees(k) ==
    LET n == Len(k.history) IN
    IF k.claimedBy = NoWorker
    THEN n > 0 => k.history[n].kind = "release"
    ELSE /\ n > 0
         /\ k.history[n].kind # "release"
         /\ k.history[n].worker = k.claimedBy
         /\ k.history[n].lease = k.lease

HistoryMatchesClaim == \A t \in Tickets : HistoryAgrees(ticket[t])

\* A history splits into intervals of one worker each: a renewal or release
\* continues an open interval of the same worker, so telemetry can derive
\* who worked when without a background expiry job.
IntervalsOK(h) ==
    /\ \A i \in 1..Len(h) :
          h[i].kind # "claim" => i > 1 /\ h[i-1].kind # "release"
    /\ \A i \in 1..Len(h), j \in 1..Len(h) :
          (i < j /\ \A n \in (i+1)..j : h[n].kind # "claim")
          => h[j].worker = h[i].worker

HistoryWellFormed == \A t \in Tickets : IntervalsOK(ticket[t].history)

\* claim_count counts the acquisitions: a holder's retry is idempotent, a
\* takeover of an expired lease is a new attempt.
CountIsAttempts ==
    \A t \in Tickets :
        LET h == ticket[t].history IN
        ticket[t].count = Cardinality({i \in 1..Len(h) : h[i].kind = "claim"})

\* A claim passes from one worker to another only once its lease has ended
\* on the real clock, although both workers decide with an instant captured
\* before they had the lock.
LiveLeaseRespected ==
    [][\A t \in Tickets :
          (/\ ticket[t].claimedBy # NoWorker
           /\ ticket'[t].claimedBy \notin {NoWorker, ticket[t].claimedBy})
          => ticket[t].lease <= clock]_vars

\* The claim guard reports success only if its attempt was never interrupted:
\* since the attempt's claim event the history holds renewals of this worker
\* and nothing else, not even a release and a new claim by the same worker.
GuardOwnedThroughout ==
    [][\A g \in guards' \ guards :
          g.state = "succeeded" =>
             LET h == ticket'[g.ticket].history IN
             /\ g.attempt \in 1..Len(h)
             /\ h[g.attempt].kind = "claim" /\ h[g.attempt].worker = g.worker
             /\ \A i \in (g.attempt + 1)..Len(h) :
                    h[i].kind = "renew" /\ h[i].worker = g.worker]_vars

\* A handoff is published only on the claim the worker reviewed: no claim
\* event of any kind was recorded between preflight and publication.
HandoffUntouched ==
    [][\A r \in reviews :
          (/\ \A q \in reviews' : q.worker # r.worker
           /\ ticket' # ticket)
          => Len(ticket[r.ticket].history) = r.events]_vars
=============================================================================
