----------------------------- MODULE DistClaims -----------------------------
(***************************************************************************)
(* Distributed claims over a git remote: distclaim.rs (one marker ref per  *)
(* ticket), the work cycle of distwork.rs and the driving loop of          *)
(* hotsheet-server's dist_work_loop.rs.  Every worker has a clone of the   *)
(* store; what the workers share is the remote, which serialises pushes:   *)
(*   - a claim creates the marker, and is rejected if one exists;          *)
(*   - a renewal replaces the marker it saw (--force-with-lease);          *)
(*   - a release deletes the marker, whoever's it is.                      *)
(* A pass reads the clock once, when it begins.  Instants are relative:    *)
(* `left` is the time a lease has left (0 or less: expired) and `age` the  *)
(* time since a pass began, so an instant computed from the pass's clock   *)
(* lies `age` in the past.  The clocks of the workers agree.               *)
(*                                                                         *)
(* The oid of a marker is known by its worker: a worker claims one ticket  *)
(* a pass and keeps the oid for that pass only, in which it cannot create  *)
(* a second marker.                                                        *)
(***************************************************************************)
EXTENDS Integers, FiniteSets

CONSTANTS
    Tickets,    \* ticket ids in queue order
    Workers,    \* the servers, each with a clone
    None,       \* an absent marker
    Lease,      \* lease_minutes
    MaxPass,    \* bound on the duration of a pass
    MaxFaults,  \* bound on crashes and lost answers
    Outcomes    \* how a drive may end

ASSUME DistAssumption ==
    /\ Tickets \subseteq Nat \ {0} /\ IsFiniteSet(Tickets)
    /\ None \notin Workers
    /\ Lease \in Nat \ {0} /\ MaxPass \in Nat /\ MaxFaults \in Nat
    /\ Outcomes \subseteq {"completed", "continued", "failed"}

VARIABLES
    marker,  \* remote: the worker of a ticket's claim marker
    left,    \* remote: the time a marker's lease has left
    closed,  \* per clone: the tickets that are no longer open
    local,   \* per clone: the time the recorded claim of a ticket has left
    pass,    \* the progress of each worker's pass
    faults,  \* the faults so far
    swept    \* history: the tickets whose marker some pass took for expired

vars == <<marker, left, closed, local, pass, faults, swept>>

Nothing == 0
Instants == (-MaxPass)..Lease
Expired == -MaxPass   \* a lease that ended too long ago to matter, or no claim

PassType == [at : {"idle", "list", "sweep", "select", "claim", "record",
                   "drive", "renew", "release", "unrecord"},
             age : 0..MaxPass, todo : SUBSET Tickets,
             ticket : Tickets \cup {Nothing}]

Idle == [at |-> "idle", age |-> 0, todo |-> {}, ticket |-> Nothing]

First(S) == CHOOSE t \in S : \A u \in S : t <= u

\* is_expired and claim_available, with the clock of a pass of this age.
ExpiredAt(x, age) == x <= -age

\* The lease a pass of this age asks for: its own beginning plus Lease.
LeaseFrom(age) == Lease - age

\* candidates: open and not claimed in this clone.
Candidates(w) ==
    {t \in Tickets \ closed[w] : ExpiredAt(local[w][t], pass[w].age)}

-----------------------------------------------------------------------------
Init ==
    /\ marker = [t \in Tickets |-> None]
    /\ left = [t \in Tickets |-> Expired]
    /\ closed = [w \in Workers |-> {}]
    /\ local = [w \in Workers |-> [t \in Tickets |-> Expired]]
    /\ pass = [w \in Workers |-> Idle]
    /\ faults = 0
    /\ swept = {}

Goto(w, p) == pass' = [pass EXCEPT ![w] = p]

SetMarker(t, w, x) ==
    /\ marker' = [marker EXCEPT ![t] = w]
    /\ left' = [left EXCEPT ![t] = x]

\* run: the next turn of the loop reads the clock.
BeginPass(w) ==
    /\ pass[w].at = "idle"
    /\ Goto(w, [Idle EXCEPT !.at = "list"])
    /\ UNCHANGED <<marker, left, closed, local, faults, swept>>

\* Mutant of ListClaims: a failed listing looks like an empty one.
ListClaimsNone(w) ==
    /\ pass[w].at = "list"
    /\ Goto(w, [pass[w] EXCEPT !.at = "sweep", !.todo = {}])
    /\ UNCHANGED <<marker, left, closed, local, faults, swept>>

LooksExpired(age) == {t \in Tickets : marker[t] # None /\ ExpiredAt(left[t], age)}

\* sweep_expired, its list_claims: the markers that look expired.
ListClaims(w) ==
    LET p == pass[w] IN
    /\ p.at = "list"
    /\ Goto(w, [p EXCEPT !.at = "sweep", !.todo = LooksExpired(p.age)])
    /\ UNCHANGED <<marker, left, closed, local, faults, swept>>

\* sweep_expired, one release of its loop.
SweepOne(w) ==
    LET p == pass[w] IN
    /\ p.at = "sweep"
    /\ IF p.todo = {}
       THEN /\ Goto(w, [p EXCEPT !.at = "select"])
            /\ UNCHANGED <<marker, left, swept>>
       ELSE /\ SetMarker(First(p.todo), None, Expired)
            /\ swept' = swept \cup {First(p.todo)}
            /\ Goto(w, [p EXCEPT !.todo = p.todo \ {First(p.todo)}])
    /\ UNCHANGED <<closed, local, faults>>

\* A git command of the sweep fails: a marker that cannot be read is skipped,
\* any other error ends the sweep, and work_pass goes on to its claim.
SweepFails(w) ==
    LET p == pass[w] IN
    /\ faults < MaxFaults /\ faults' = faults + 1
    /\ \/ /\ p.at = "list"
          /\ \E read \in SUBSET LooksExpired(p.age) :
                Goto(w, [p EXCEPT !.at = "sweep", !.todo = read])
       \/ /\ p.at = "sweep"
          /\ Goto(w, [p EXCEPT !.at = "select", !.todo = {}])
    /\ UNCHANGED <<marker, left, closed, local, swept>>

\* select_and_claim: the candidates are computed once.
Select(w) ==
    LET p == pass[w] IN
    /\ p.at = "select"
    /\ Goto(w, IF Candidates(w) = {} THEN Idle
               ELSE [p EXCEPT !.at = "claim", !.todo = Candidates(w)])
    /\ UNCHANGED <<marker, left, closed, local, faults, swept>>

\* Mutant of ClaimOne: a forced push.
ClaimOneForced(w) ==
    LET p == pass[w]
        t == First(p.todo) IN
    /\ p.at = "claim"
    /\ SetMarker(t, w, LeaseFrom(p.age))
    /\ Goto(w, [p EXCEPT !.at = "record", !.ticket = t, !.todo = {}])
    /\ UNCHANGED <<closed, local, faults, swept>>

\* distclaim::claim on the next candidate: won, or lost to a present marker.
ClaimOne(w) ==
    LET p == pass[w]
        t == First(p.todo) IN
    /\ p.at = "claim"
    /\ IF marker[t] = None
       THEN /\ SetMarker(t, w, LeaseFrom(p.age))
            /\ Goto(w, [p EXCEPT !.at = "record", !.ticket = t, !.todo = {}])
       ELSE /\ Goto(w, IF p.todo = {t} THEN Idle
                       ELSE [p EXCEPT !.todo = p.todo \ {t}])
            /\ UNCHANGED <<marker, left>>
    /\ UNCHANGED <<closed, local, faults, swept>>

\* The push lands and its answer is lost: the pass ends with an error and a
\* marker that no pass holds.
ClaimAnswerLost(w) ==
    LET p == pass[w]
        t == First(p.todo) IN
    /\ p.at = "claim" /\ marker[t] = None
    /\ faults < MaxFaults /\ faults' = faults + 1
    /\ SetMarker(t, w, LeaseFrom(p.age))
    /\ Goto(w, Idle)
    /\ UNCHANGED <<closed, local, swept>>

SetLocal(w, x) == local' = [local EXCEPT ![w][pass[w].ticket] = x]

\* record_local_claim: the ticket is claimed and started in the clone.
RecordLocal(w) ==
    /\ pass[w].at = "record"
    /\ SetLocal(w, LeaseFrom(pass[w].age))
    /\ Goto(w, [pass[w] EXCEPT !.at = "drive"])
    /\ UNCHANGED <<marker, left, closed, faults, swept>>

\* The turn ends.  The tool that completes a ticket closes it in the clone,
\* which also ends the recorded claim.
Drive(w, outcome) ==
    LET p == pass[w] IN
    /\ p.at = "drive"
    /\ outcome = "continued" => p.ticket \notin closed[w]
    /\ IF outcome = "completed"
       THEN /\ closed' = [closed EXCEPT ![w] = @ \cup {p.ticket}]
            /\ SetLocal(w, Expired)
       ELSE UNCHANGED <<closed, local>>
    /\ Goto(w, [p EXCEPT !.at = IF outcome = "continued" THEN "renew" ELSE "release"])
    /\ UNCHANGED <<marker, left, faults, swept>>

\* Mutant of RenewLease: a plain forced push.
RenewLeaseForced(w) ==
    LET p == pass[w] IN
    /\ p.at = "renew"
    /\ SetMarker(p.ticket, w, LeaseFrom(p.age))
    /\ SetLocal(w, LeaseFrom(p.age))
    /\ Goto(w, Idle)
    /\ UNCHANGED <<closed, faults, swept>>

\* Continued: renew the marker this pass took, with the clock of its
\* beginning, and then the local claim.
RenewLease(w) ==
    LET p == pass[w] IN
    /\ p.at = "renew"
    /\ IF marker[p.ticket] = w
       THEN /\ SetMarker(p.ticket, w, LeaseFrom(p.age))
            /\ IF ExpiredAt(local[w][p.ticket], p.age) THEN UNCHANGED local
               ELSE SetLocal(w, LeaseFrom(p.age))
       ELSE UNCHANGED <<marker, left, local>>
    /\ Goto(w, Idle)
    /\ UNCHANGED <<closed, faults, swept>>

\* Completed or Failed: delete the marker ref, then release the local claim.
ReleaseMarker(w) ==
    LET p == pass[w] IN
    /\ p.at = "release"
    /\ SetMarker(p.ticket, None, Expired)
    /\ Goto(w, [p EXCEPT !.at = "unrecord"])
    /\ UNCHANGED <<closed, local, faults, swept>>

ReleaseLocal(w) ==
    /\ pass[w].at = "unrecord"
    /\ SetLocal(w, Expired)
    /\ Goto(w, Idle)
    /\ UNCHANGED <<marker, left, closed, faults, swept>>

\* The process dies, or a git command after the sweep fails and work_once
\* returns its error.
Crash(w) ==
    /\ pass[w].at # "idle"
    /\ faults < MaxFaults /\ faults' = faults + 1
    /\ Goto(w, Idle)
    /\ UNCHANGED <<marker, left, closed, local, swept>>

\* The sync loop brings another clone's version of a ticket.
Sync(w, v, t) ==
    /\ t \in closed[v] \ closed[w]
    /\ closed' = [closed EXCEPT ![w] = @ \cup {t}]
    /\ local' = [local EXCEPT ![w][t] = Expired]
    /\ UNCHANGED <<marker, left, pass, faults, swept>>

Later(x) == IF x = Expired THEN x ELSE x - 1

\* Passes outlast neither MaxPass nor, in finite time, anything else.
Tick ==
    /\ \A w \in Workers : pass[w].at # "idle" => pass[w].age < MaxPass
    /\ left' = [t \in Tickets |-> Later(left[t])]
    /\ local' = [w \in Workers |-> [t \in Tickets |-> Later(local[w][t])]]
    /\ pass' = [w \in Workers |->
                  IF pass[w].at = "idle" THEN pass[w]
                  ELSE [pass[w] EXCEPT !.age = @ + 1]]
    /\ UNCHANGED <<marker, closed, faults, swept>>

Step(w) ==
    \/ BeginPass(w) \/ ListClaims(w) \/ SweepOne(w) \/ Select(w) \/ ClaimOne(w)
    \/ RecordLocal(w) \/ RenewLease(w) \/ ReleaseMarker(w) \/ ReleaseLocal(w)
    \/ \E outcome \in Outcomes : Drive(w, outcome)

Next ==
    \/ \E w \in Workers : Step(w) \/ SweepFails(w) \/ ClaimAnswerLost(w) \/ Crash(w)
    \/ \E w, v \in Workers, t \in Tickets : Sync(w, v, t)
    \/ Tick

\* The loop runs a pass every interval, a git command and a turn end, and
\* time passes.
Fairness == WF_vars(Tick) /\ \A w \in Workers : WF_vars(Step(w))

Spec == Init /\ [][Next]_vars /\ Fairness

-----------------------------------------------------------------------------
\* Every variable keeps its type.
TypeOK ==
    /\ marker \in [Tickets -> Workers \cup {None}]
    /\ left \in [Tickets -> Instants]
    /\ closed \in [Workers -> SUBSET Tickets]
    /\ local \in [Workers -> [Tickets -> Instants]]
    /\ pass \in [Workers -> PassType]
    /\ faults \in 0..MaxFaults
    /\ swept \subseteq Tickets

\* The marker is a compare-and-swap: it never passes from one worker to
\* another without being absent in between, so of two racing claims, and of
\* a late renewal and a new claim, exactly one wins.
MarkerNeverStolen ==
    [][\A t \in Tickets :
          marker[t] # None => marker'[t] \in {marker[t], None}]_vars

Working(w) == pass[w].at \in {"record", "drive"}

\* A marker left by a dead worker, by a lost answer or by a turn that wants
\* more turns does not block its ticket for ever: it is reaped or released.
MarkersReaped == \A t \in Tickets : marker[t] # None ~> marker[t] = None

\* docs/08-distributed-and-remote.md: push-CAS rejects the second claimant at
\* claim time, so two paid AI workers never both start the same ticket.  The
\* markers alone keep it, through crashes, lost answers, releases and
\* renewals: two workers are on one ticket only after a sweep took its marker
\* for expired.
StartedOnce ==
    \A w, v \in Workers :
        /\ w # v /\ Working(w) /\ Working(v) /\ pass[w].ticket = pass[v].ticket
        => pass[w].ticket \in swept
=============================================================================
