--------------------------- MODULE AdvisoryClaims ---------------------------
(***************************************************************************)
(* Advisory claims of one Jira issue: reconcile_claims and the version 2   *)
(* operation ids of hotsheet-ticketing, the property protocol of           *)
(* hotsheet-extsync's jira.rs, and the routes, the command and the         *)
(* provisional ledger that use it.                                         *)
(*                                                                         *)
(* A claim, renewal or release is an immutable property of the issue, under*)
(* a key made of its content.  Jira has no conditional write: a call lists *)
(* and reads all properties, decides, puts its own, and reads again.  What *)
(* a call reads is what its listing named, since values do not change, so  *)
(* listing, reading and deciding are one step; every PUT and DELETE is a   *)
(* step of its own.  A PUT may also land after its caller gave up.         *)
(***************************************************************************)
EXTENDS Integers, FiniteSets, FiniteSetsExt

CONSTANTS
    Ops,         \* operation ids, each of one worker
    Legacy,      \* those of version 1, which carry no issue time
    Procs,       \* servers and commands,
    Servers,     \* the servers among them
    Hosts,       \* machines, each with its ledger
    HostOf,      \* the machine of an operation or a process
    Offset,      \* how far a machine's clock is off, within Skew
    None,
    Horizon,     \* MAX_OPERATION_HORIZON_MS
    Skew,        \* MAX_CLOCK_SKEW_MS, and the allowance every caller passes
    Capacity,    \* MAX_CLAIM_PROPERTIES
    Found,       \* the properties at first, of workers that were here before,
    Born,        \* and the issue times of their operations, 0 for the others
    MaxTime,     \* bound on the clock
    MaxExpiry,   \* bound on the expiries asked for
    MaxLate,     \* bound on the PUTs that land late
    MaxCalls     \* bound on the calls

Expiries == 1..MaxExpiry
Event == [op : Ops, kind : {"claim", "renew"}, exp : Expiries \cup {0}]
         \cup [op : Ops, kind : {"release"}, exp : {0}]
Pending == {"queued", "attention"}
Rows == Pending \cup {"none", "confirmed", "expired"}

ASSUME AdvisoryAssumption ==
    /\ Legacy \subseteq Ops /\ Servers \subseteq Procs /\ HostOf \in [Ops \cup Procs -> Hosts]
    /\ Offset \in [Hosts -> (0 - Skew)..Skew] /\ None \notin Ops
    /\ Horizon \in Nat \ {0} /\ Skew \in Nat /\ Capacity \in Nat
    /\ Found \subseteq Event /\ IsFiniteSet(Found) /\ Born \in [Ops -> Nat]
    /\ \A e \in Found : \* written by the same rules
          e.op \notin Legacy => Born[e.op] # 0 /\ e.exp <= Born[e.op] + Horizon
    /\ MaxTime \in Nat /\ Skew < MaxTime /\ MaxExpiry \in Nat
    /\ MaxLate \in Nat /\ MaxCalls \in Nat

VARIABLES
    clock,     \* Jira's clock
    props,     \* the properties of the issue
    late,      \* PUTs under way whose caller gave up
    lates,     \* how many there were
    calls,     \* how many calls there were
    issued,    \* the issue time in an operation id, 0 before it is minted
    call,      \* what each process is doing
    ledger,    \* provisional claims, per operation
    until,     \* per operation: the expiry its worker was told it holds
    ended,     \* history: operations whose release was asked for
    released   \* history: operations whose release reached Jira

vars == <<clock, props, late, lates, calls, issued, call, ledger, until, ended, released>>

NoEvent == [op |-> None, kind |-> "none", exp |-> 0]
Idle == [at |-> "idle", event |-> NoEvent, now |-> 0, row |-> "none", todo |-> {}]
CallType == [at : {"idle", "replay", "scan", "prune", "rescan", "put", "verify", "status"},
             event : Event \cup {NoEvent}, now : Int, row : {"none"} \cup Pending,
             todo : SUBSET Event]

-----------------------------------------------------------------------------
(* reconcile_claims.                                                       *)

\* classify: what is past its horizon is inert, what is ahead of the clock is
\* not believed.
Ahead(e, t) == e.op \notin Legacy /\ issued[e.op] > t + Skew
Current(E, t) ==
    {e \in E : ~Ahead(e, t) /\ (e.op \in Legacy \/ t < issued[e.op] + Horizon + Skew)}

Of(E, o, kind) == {e \in E : e.op = o /\ e.kind = kind}

\* By key order: claims, then renewals by expiry, then the release.
Expiry(E, o) ==
    Max({(CHOOSE e \in Of(E, o, "claim") : TRUE).exp} \cup {e.exp : e \in Of(E, o, "renew")})

\* Markers that make the projection unsafe.
Invalid(events, t) ==
    LET E == Current(events, t) IN
    \/ \E e \in events : Ahead(e, t)
    \/ \E o \in Ops : Cardinality(Of(E, o, "claim")) > 1
    \/ \E e \in E : Of(E, e.op, "claim") = {}
    \/ \E e \in E : e.kind = "renew" /\ \E c \in Of(E, e.op, "claim") : e.exp < c.exp

\* Mutants of Live: no allowance for the clock of the holder; a renewal after
\* the release revives the operation.
LiveExactly(events, t) ==
    LET E == Current(events, t) IN
    {o \in Ops : /\ Of(E, o, "claim") # {} /\ Of(E, o, "release") = {}
                 /\ Expiry(E, o) > t}
LiveRenewed(events, t) ==
    LET E == Current(events, t) IN
    {o \in Ops : /\ Of(E, o, "claim") # {}
                 /\ Of(E, o, "release") = {} \/ Of(E, o, "renew") # {}
                 /\ Expiry(E, o) + Skew > t}

\* The claims of the projection.  A release is terminal for its operation.
Live(events, t) ==
    LET E == Current(events, t) IN
    {o \in Ops : /\ Of(E, o, "claim") # {} /\ Of(E, o, "release") = {}
                 /\ Expiry(E, o) + Skew > t}

Conflicted(E, t) == Invalid(E, t) \/ Cardinality(Live(E, t)) > 1

\* Mutant of Reclaimable: as soon as it is inert.
ReclaimableInert(e, t) == e.op \notin Legacy /\ t >= issued[e.op] + Horizon + Skew

Reclaimable(e, t) == e.op \notin Legacy /\ t >= issued[e.op] + Horizon + 2 * Skew

\* valid_write_event and valid_write, for an id issued at i.
ValidWrite(e, i, t) ==
    /\ e.kind # "release" => e.exp > t
    /\ e.op \notin Legacy =>
          /\ t > 0 /\ i <= t + Skew /\ t < i + Horizon + Skew
          /\ e.kind # "release" => i < e.exp /\ e.exp <= i + Horizon

-----------------------------------------------------------------------------
(* Clocks and calls.                                                       *)

LocalNow(h) == clock + Offset[h]

\* Version 2 needs both clocks: if the call writes such an id, or finds one.
Fenced == \E e \in props : e.op \notin Legacy
Writes2(e) == Fenced \/ e.op \notin Legacy

\* claim_provider_now: the earlier of the two, which must agree.
ClocksAgree(now, fenced) == fenced => now - clock <= Skew /\ clock - now <= Skew
ProviderNow(now, fenced) == IF fenced THEN Min({now, clock}) ELSE now

\* A listing that is too long is not read.
Listable == Cardinality(props) <= Capacity

\* for_ticket: the rows of a machine that are not settled.
Unresolved(h) == {o \in Ops : HostOf[o] = h /\ ledger[o].state \in Pending}

Init ==
    /\ clock = Skew + 1
    /\ props = Found
    /\ late = {} /\ lates = 0 /\ calls = 0
    /\ issued = Born
    /\ call = [p \in Procs |-> Idle]
    /\ ledger = [o \in Ops |-> [state |-> "none", exp |-> 0]]
    /\ until = [o \in Ops |-> 0]
    /\ ended = {}
    /\ released = {e.op : e \in {f \in Found : f.kind = "release"}}

Enter(p, place, e, row) ==
    /\ call[p].at = "idle" /\ HostOf[e.op] = HostOf[p]
    /\ calls < MaxCalls /\ calls' = calls + 1
    /\ call' = [call EXCEPT ![p] = [Idle EXCEPT !.at = place, !.event = e, !.row = row,
                                                !.now = LocalNow(HostOf[p])]]

Goto(p, place) == call' = [call EXCEPT ![p].at = place]

\* A claim mints its id, at the clock of its machine.
IssueTime(e, h) == IF e.kind = "claim" /\ issued[e.op] = 0 /\ e.op \notin Legacy
                   THEN LocalNow(h) ELSE issued[e.op]

\* POST advisory-claim and the command's claim, renew and release.  Whoever
\* asks for a release works no longer.
BeginWrite(p, e) ==
    LET h == HostOf[p] IN
    /\ Enter(p, "scan", e, "none")
    /\ e.op \in Legacy \/ IssueTime(e, h) # 0
    /\ ValidWrite(e, IssueTime(e, h), LocalNow(h))
    /\ Unresolved(h) = {}
    /\ issued' = [issued EXCEPT ![e.op] = IssueTime(e, h)]
    /\ IF e.kind = "release"
       THEN ended' = ended \cup {e.op} /\ until' = [until EXCEPT ![e.op] = 0]
       ELSE UNCHANGED <<ended, until>>
    /\ UNCHANGED <<clock, props, late, lates, ledger, released>>

\* provisional: true.  The ledger admits a claim without asking Jira, once.
Admit(p, e) ==
    LET h == HostOf[p] IN
    /\ Enter(p, "status", e, "none")
    /\ e.kind = "claim" /\ (ledger[e.op].state # "none" => ledger[e.op].exp = e.exp)
    /\ ValidWrite(e, IssueTime(e, h), LocalNow(h))
    /\ issued' = [issued EXCEPT ![e.op] = IssueTime(e, h)]
    /\ ledger' = IF ledger[e.op].state # "none" THEN ledger
                 ELSE [ledger EXCEPT ![e.op] = [state |-> "queued", exp |-> e.exp]]
    /\ UNCHANGED <<clock, props, late, lates, until, ended, released>>

\* GET advisory-claim and the command's status: replay a pending row, if there
\* is one (each row is a call of its own).
BeginStatus(p, o) ==
    LET row == ledger[o]
        claim == [op |-> o, kind |-> "claim", exp |-> row.exp] IN
    /\ IF Unresolved(HostOf[p]) = {} THEN Enter(p, "status", claim, "none")
       ELSE o \in Unresolved(HostOf[p]) /\ Enter(p, "replay", claim, row.state)
    /\ UNCHANGED <<clock, props, late, lates, issued, ledger, until, ended, released>>

WriteUnchanged == UNCHANGED <<clock, late, lates, calls, issued, until, ended, released>>
Stay(p, place) == Goto(p, place) /\ UNCHANGED ledger

\* settle: only from the state that was read.
Settle(p, state) ==
    LET o == call[p].event.op IN
    IF call[p].row = "none" THEN Stay(p, "status")
    ELSE IF ledger[o].state = call[p].row
    THEN ledger' = [ledger EXCEPT ![o].state = state] /\ Goto(p, "status")
    ELSE call' = [call EXCEPT ![p] = Idle] /\ UNCHANGED ledger

\* An error ends a write; a replay leaves its row for another time, ...
Leave(p) ==
    IF call[p].row = "none" THEN call' = [call EXCEPT ![p] = Idle] /\ UNCHANGED ledger
    ELSE Stay(p, "status")

\* ... unless the error is a conflict.
Refuse(p) == IF call[p].row = "queued" THEN Settle(p, "attention") ELSE Leave(p)

\* What a row becomes by the projection its write returned.
Outcome(o, t) ==
    IF ~Conflicted(props, t) /\ o \in Live(props, t) THEN "confirmed" ELSE "attention"

\* The replay of a row reads Jira before it writes.  A claim that is there
\* already satisfies the command even in a conflict, the server not.
ReplayScan(p) ==
    LET c == call[p]
        o == c.event.op
        t == ProviderNow(c.now, Fenced)
        there == o \in Live(props, t)
        bad == Conflicted(props, t) IN
    /\ c.at = "replay"
    /\ IF c.event.exp <= c.now THEN Settle(p, "expired")
       ELSE IF ~Listable \/ ~ClocksAgree(c.now, Fenced) THEN Leave(p)
       ELSE IF c.row = "attention" THEN IF there /\ ~bad THEN Settle(p, "confirmed") ELSE Leave(p)
       ELSE IF there THEN Settle(p, IF bad /\ p \in Servers THEN "attention" ELSE "confirmed")
       ELSE IF bad \/ Live(props, t) # {} THEN Settle(p, "attention")
       ELSE Stay(p, "scan")
    /\ UNCHANGED props /\ WriteUnchanged

Allowed(e, t) ==
    CASE e.kind = "claim" -> ~Conflicted(props, t) /\ Live(props, t) = {}
      [] e.kind = "renew" -> /\ ~Conflicted(props, t) /\ e.op \in Live(props, t)
                             /\ e.exp >= Expiry(props, e.op)
      [] e.kind = "release" -> Of(props, e.op, "claim") # {}

\* append_advisory_claim_event up to its PUT, on a snapshot without cleanup.
Decide(p, e, t) ==
    IF ~ValidWrite(e, issued[e.op], t) THEN Refuse(p)
    ELSE IF e \in props THEN Settle(p, Outcome(e.op, t))
    ELSE IF Cardinality(props) = Capacity THEN Leave(p)
    ELSE IF ~Allowed(e, t) THEN Refuse(p)
    ELSE Stay(p, "put")

\* The first scan of a write finds it done, refuses it, plans a cleanup, or
\* goes on.
Scan(p) ==
    LET c == call[p]
        e == c.event
        t == ProviderNow(c.now, Writes2(e))
        old == {f \in props : Reclaimable(f, t)} IN
    /\ c.at = "scan"
    /\ IF ~Listable THEN Leave(p)
       ELSE IF ~ClocksAgree(c.now, Writes2(e)) THEN Refuse(p)
       ELSE IF e \in props THEN Settle(p, Outcome(e.op, t))
       ELSE IF ~ValidWrite(e, issued[e.op], t) \/ (e.op \in Legacy /\ e.kind = "claim")
       THEN Refuse(p)
       ELSE IF old # {} /\ ~Conflicted(props, t)
       THEN call' = [call EXCEPT ![p].at = "prune", ![p].todo = old] /\ UNCHANGED ledger
       ELSE Decide(p, e, t)
    /\ UNCHANGED props /\ WriteUnchanged

\* claim_property_key: the order of the properties of an operation.
Rank(e) == CASE e.kind = "claim" -> 0 [] e.kind = "renew" -> e.exp [] OTHER -> MaxExpiry + 1

\* DELETE, one property at a time; one that is gone already ends the write.
Prune(p, e) ==
    /\ call[p].at = "prune" /\ e \in call[p].todo
    /\ \A f \in call[p].todo : Rank(e) <= Rank(f)
    /\ IF e \in props
       THEN /\ props' = props \ {e}
            /\ call' = [call EXCEPT ![p].todo = @ \ {e},
                                    ![p].at = IF call[p].todo = {e} THEN "rescan" ELSE "prune"]
            /\ UNCHANGED ledger
       ELSE Leave(p) /\ UNCHANGED props
    /\ WriteUnchanged

Rescan(p) ==
    LET c == call[p] IN
    /\ c.at = "rescan"
    /\ IF ~Listable THEN Leave(p)
       ELSE IF \/ ~ClocksAgree(c.now, Writes2(c.event))
               \/ Conflicted(props, ProviderNow(c.now, Fenced))
       THEN Refuse(p)
       ELSE Decide(p, c.event, ProviderNow(c.now, Writes2(c.event)))
    /\ UNCHANGED props /\ WriteUnchanged

\* The PUT reaches Jira.
Store(e) ==
    /\ props' = props \cup {e}
    /\ released' = IF e.kind = "release" THEN released \cup {e.op} ELSE released

Put(p) ==
    /\ call[p].at = "put" /\ Stay(p, "verify")
    /\ Store(call[p].event)
    /\ UNCHANGED <<clock, late, lates, calls, issued, until, ended>>

\* The caller gives up, and the PUT lands later.
GiveUp(p) ==
    /\ call[p].at = "put" /\ lates < MaxLate
    /\ late' = late \cup {call[p].event} /\ lates' = lates + 1
    /\ Refuse(p)
    /\ UNCHANGED <<clock, props, calls, issued, until, ended, released>>

Land(e) ==
    /\ e \in late /\ late' = late \ {e}
    /\ Store(e)
    /\ UNCHANGED <<clock, lates, calls, issued, call, ledger, until, ended>>

\* The scan after the PUT is the answer of the write.
Verify(p) ==
    LET c == call[p] IN
    /\ c.at = "verify"
    /\ IF ~Listable THEN Leave(p)
       ELSE IF ~ClocksAgree(c.now, Fenced) THEN Refuse(p)
       ELSE Settle(p, Outcome(c.event.op, ProviderNow(c.now, Fenced)))
    /\ UNCHANGED props /\ WriteUnchanged

\* local_status, which every call ends with: the worker holds the ticket if
\* nothing is provisional, the projection is free of conflict and the claim in
\* it is its own.  After a replay the server looks at its clock again, the
\* command does not.
Status(p) ==
    LET c == call[p]
        o == c.event.op
        now == IF c.row # "none" /\ p \in Servers THEN LocalNow(HostOf[p]) ELSE c.now
        t == ProviderNow(now, Fenced) IN
    /\ c.at = "status" /\ call' = [call EXCEPT ![p] = Idle]
    /\ until' = IF /\ Listable /\ ClocksAgree(now, Fenced) /\ Unresolved(HostOf[p]) = {}
                   /\ ~Conflicted(props, t) /\ o \in Live(props, t) \ ended
                THEN [until EXCEPT ![o] = Expiry(props, o)] ELSE until
    /\ UNCHANGED <<clock, props, late, lates, calls, issued, ledger, ended, released>>

\* A request fails.  A failed transport is a conflict, a refused login, a rate
\* limit or a property that is gone is not.
Fail(p) ==
    /\ call[p].at \notin {"idle", "status"}
    /\ Leave(p) \/ (call[p].at # "replay" /\ Refuse(p))
    /\ UNCHANGED props /\ WriteUnchanged

Tick ==
    /\ clock < MaxTime /\ clock' = clock + 1
    /\ UNCHANGED <<props, late, lates, calls, issued, call, ledger, until, ended, released>>

Next ==
    \/ \E p \in Procs :
        \/ \E e \in Event : BeginWrite(p, e) \/ Admit(p, e)
        \/ \E o \in Ops : BeginStatus(p, o)
        \/ ReplayScan(p) \/ Scan(p) \/ Rescan(p) \/ Put(p) \/ Verify(p) \/ Status(p)
        \/ \E e \in call[p].todo : Prune(p, e)
        \/ GiveUp(p) \/ Fail(p)
    \/ \E e \in late : Land(e)
    \/ Tick

Spec == Init /\ [][Next]_vars

-----------------------------------------------------------------------------
\* Every variable keeps its type.
TypeOK ==
    /\ clock \in 0..MaxTime /\ lates \in 0..MaxLate /\ calls \in 0..MaxCalls
    /\ props \subseteq Event /\ late \subseteq Event
    /\ issued \in [Ops -> Int]
    /\ call \in [Procs -> CallType]
    /\ ledger \in [Ops -> [state : Rows, exp : Expiries \cup {0}]]
    /\ until \in [Ops -> Expiries \cup {0}]
    /\ ended \subseteq Ops /\ released \subseteq Ops

\* The clocks a call may decide by, as long as none is off by more than Skew.
Readings == (clock - Skew)..clock

\* Two workers are never told at the same time that they hold the ticket,
\* even counting by a clock that is behind: although no write is conditional,
\* and whatever is delayed, renewed, replayed or cleaned up.
HeldByOne ==
    \A o, q \in Ops : until[o] + Skew > clock /\ until[q] + Skew > clock => o = q

\* A release is final: once it is among the properties, no call finds its
\* operation live, not even after the release was cleaned up and a delayed
\* claim or renewal of the same operation landed.
ReleaseIsFinal ==
    \A o \in released : \A t \in Readings : o \notin Live(props, t)

\* Cleaning up changes nothing for anybody who reads.
CleanupInvisible ==
    [][props' # props /\ props' \subseteq props =>
         \A t \in Readings : /\ Live(props', t) = Live(props, t)
                             /\ Conflicted(props', t) = Conflicted(props, t)]_vars
=============================================================================
