--------------------------- MODULE ProviderOutbox ---------------------------
(***************************************************************************)
(* Write-behind for an external provider: the durable outbox of            *)
(* hotsheet-ticketing's provider_outbox.rs and the dispatcher and routes   *)
(* of hotsheet-server's provider_write_behind.rs.  The outbox is a SQLite  *)
(* table; each of its methods is a transaction, and every caller holds     *)
(* the outbox mutex for one method at a time, so a dispatch or a discard   *)
(* that reads the provider in between is several steps.                    *)
(*                                                                         *)
(* An operation edits one field of one ticket; its id stands for the value *)
(* it writes.  next_attempt_at is abstracted to whether it lies ahead.     *)
(* The provider checks no token: Jira's update reads the issue, compares   *)
(* the token on this side, and then sends a plain PUT.                     *)
(***************************************************************************)
EXTENDS Integers, Sequences, FiniteSets

CONSTANTS
    Ops,         \* operation ids
    Tickets,     \* the provider's tickets
    TicketOf,    \* the ticket an operation edits
    Batches,     \* the batches clients submit, sequences of operations
    MaxPending,  \* max_pending of the outbox
    Window,      \* attempts before attention (8)
    MaxFaults,   \* bound on failed calls and restarts
    MaxEdits,    \* bound on edits made at the provider
    MaxRetries   \* bound on manual retries

Elsewhere == "elsewhere"   \* a value no operation wrote

ASSUME OutboxAssumption ==
    /\ TicketOf \in [Ops -> Tickets]
    /\ IsFiniteSet(Ops) /\ Elsewhere \notin Ops
    /\ Batches \subseteq Seq(Ops)
    /\ MaxPending \in Nat \ {0} /\ Window \in Nat \ {0}
    /\ MaxFaults \in Nat /\ MaxEdits \in Nat /\ MaxRetries \in Nat

VARIABLES
    row,       \* the outbox table
    sequence,  \* the last sequence number of a ticket
    remote,    \* the provider's value of a ticket's field
    jobs,      \* dispatch_one calls in flight
    discards,  \* discard requests in flight
    landed,    \* history: the operations the provider's value ever was
    used       \* faults, provider edits and retries so far

vars == <<row, sequence, remote, jobs, discards, landed, used>>

Dispatch == {"queued", "sending", "rate_limited", "needs_attention",
             "confirmed", "discarded"}

RowType == [pending : BOOLEAN, dispatch : Dispatch \cup {"absent"},
            seq : Nat, attempts : Nat, waits : BOOLEAN]

NoRow == [pending |-> FALSE, dispatch |-> "absent", seq |-> 0,
          attempts |-> 0, waits |-> FALSE]

JobType == [op : Ops, at : {"get", "check", "put", "ack", "error"}, fresh : BOOLEAN]
DiscardType == [op : Ops, at : {"readback", "settle"}, applied : BOOLEAN]

Pending == {o \in Ops : row[o].pending}

\* Operation a precedes b in the replay order of their ticket.
Earlier(a, b) == TicketOf[a] = TicketOf[b] /\ row[a].seq < row[b].seq

Holds(o) == remote[TicketOf[o]] = o

-----------------------------------------------------------------------------
Init ==
    /\ row = [o \in Ops |-> NoRow]
    /\ sequence = [t \in Tickets |-> 0]
    /\ remote = [t \in Tickets |-> Elsewhere]
    /\ jobs = {}
    /\ discards = {}
    /\ landed = {}
    /\ used = [faults |-> 0, edits |-> 0, retries |-> 0]

Fault == used.faults < MaxFaults /\ used' = [used EXCEPT !.faults = @ + 1]

\* The operations of a batch that have no row yet, each once.
NewIn(batch) == {i \in 1..Len(batch) :
                    /\ row[batch[i]] = NoRow
                    /\ \A j \in 1..(i-1) : batch[j] # batch[i]}

\* The bound on pending operations, checked as each one is inserted.
Fits(batch) ==
    NewIn(batch) = {} \/ Cardinality(Pending) + Cardinality(NewIn(batch)) <= MaxPending

\* admit_batch: all of the batch or nothing; a known id is returned as it is.
Admit(batch) ==
    LET new(t) == {i \in NewIn(batch) : TicketOf[batch[i]] = t}
        place(i) == Cardinality({j \in new(TicketOf[batch[i]]) : j <= i}) IN
    /\ NewIn(batch) # {} /\ Fits(batch)
    /\ row' = [o \in Ops |->
                 IF \E i \in NewIn(batch) : batch[i] = o
                 THEN LET i == CHOOSE i \in NewIn(batch) : batch[i] = o IN
                      [NoRow EXCEPT !.pending = TRUE, !.dispatch = "queued",
                                    !.seq = sequence[TicketOf[o]] + place(i)]
                 ELSE row[o]]
    /\ sequence' = [t \in Tickets |-> sequence[t] + Cardinality(new(t))]
    /\ UNCHANGED <<remote, jobs, discards, landed, used>>

\* Mutant of Ready: any due operation, whatever precedes it.
ReadyAny(o) ==
    /\ row[o].pending /\ row[o].dispatch \in {"queued", "rate_limited"}
    /\ ~row[o].waits

\* claim_ready: due, and the first pending operation of its ticket.
Ready(o) ==
    /\ row[o].pending /\ row[o].dispatch \in {"queued", "rate_limited"}
    /\ ~row[o].waits
    /\ ~\E e \in Pending : Earlier(e, o)

\* A dispatch pass: it claims the ready operations in one transaction (four
\* at most, which is more than a model has) and waits for all their jobs.
ClaimReady ==
    LET ready == {o \in Ops : Ready(o)} IN
    /\ jobs = {} /\ ready # {}
    /\ row' = [o \in Ops |->
                 IF o \in ready
                 THEN [row[o] EXCEPT !.dispatch = "sending", !.attempts = @ + 1]
                 ELSE row[o]]
    /\ jobs' = {[op |-> o, at |-> "get", fresh |-> FALSE] : o \in ready}
    /\ UNCHANGED <<sequence, remote, discards, landed, used>>

Settle(o, how) ==
    row' = [row EXCEPT ![o].pending = FALSE, ![o].dispatch = how, ![o].waits = FALSE]

\* confirm, needs_attention and defer change a row that is being sent only.
Sending(o) == row[o].pending /\ row[o].dispatch = "sending"

Confirm(o) == IF Sending(o) THEN Settle(o, "confirmed") ELSE UNCHANGED row

Advance(j, at, fresh) == jobs' = (jobs \ {j}) \cup {[j EXCEPT !.at = at, !.fresh = fresh]}

\* dispatch_one reads the ticket; an edit already there is confirmed.
JobGet(j) ==
    /\ j.at = "get"
    /\ IF Holds(j.op) THEN Confirm(j.op) /\ jobs' = jobs \ {j}
       ELSE Advance(j, "check", TRUE) /\ UNCHANGED row
    /\ UNCHANGED <<sequence, remote, discards, landed, used>>

\* The provider's update compares the token before it sends.
JobCheck(j) ==
    /\ j.at = "check"
    /\ Advance(j, IF j.fresh THEN "put" ELSE "error", FALSE)
    /\ UNCHANGED <<row, sequence, remote, discards, landed, used>>

\* The ticket changes: tokens read before are stale.
SetRemote(t, v) ==
    /\ remote' = [remote EXCEPT ![t] = v]
    /\ landed' = IF v \in Ops THEN landed \cup {v} ELSE landed

Stale(S, t) == {IF TicketOf[j.op] = t THEN [j EXCEPT !.fresh = FALSE] ELSE j : j \in S}

\* The PUT lands; its answer arrives, or is lost.
JobPut(j, answered) ==
    /\ j.at = "put"
    /\ SetRemote(TicketOf[j.op], j.op)
    /\ jobs' = Stale(jobs \ {j}, TicketOf[j.op])
               \cup {[j EXCEPT !.at = IF answered THEN "ack" ELSE "error"]}
    /\ IF answered THEN UNCHANGED used ELSE Fault
    /\ UNCHANGED <<row, sequence, discards>>

\* The acknowledgement is read back: it contains the edit, or needs attention.
JobAck(j) ==
    /\ j.at = "ack"
    /\ IF Holds(j.op) THEN Confirm(j.op)
       ELSE row' = [row EXCEPT ![j.op].dispatch = "needs_attention"]
    /\ jobs' = jobs \ {j}
    /\ UNCHANGED <<sequence, remote, discards, landed, used>>

\* Any call to the provider fails before it has an effect.
JobFault(j) ==
    /\ j.at \in {"get", "check", "put"}
    /\ Fault
    /\ Advance(j, "error", FALSE)
    /\ UNCHANGED <<row, sequence, remote, discards, landed>>

\* Authentication, a disabled provider, a missing ticket, an unsupported
\* write, or the last attempt of a window.
Attention(j) == row' = [row EXCEPT ![j.op].dispatch = "needs_attention"]

\* defer, and for a rate limit defer_connection.
Defer(j, limited) ==
    row' = [o \in Ops |->
       IF o = j.op
       THEN [row[o] EXCEPT !.dispatch = IF limited THEN "rate_limited" ELSE "queued",
                           !.waits = TRUE]
       ELSE IF limited /\ row[o].pending /\ row[o].dispatch \in {"queued", "rate_limited"}
       THEN [row[o] EXCEPT !.dispatch = "rate_limited", !.waits = TRUE]
       ELSE row[o]]

\* The error decides what happens to the row.
JobError(j, kind) ==
    /\ j.at = "error" /\ Sending(j.op)
    /\ \/ kind = "fatal" /\ Attention(j)
       \/ kind = "limited" /\ Defer(j, TRUE)
       \/ kind = "other" /\ row[j.op].attempts % Window = 0 /\ Attention(j)
       \/ kind = "other" /\ row[j.op].attempts % Window # 0 /\ Defer(j, FALSE)
    /\ jobs' = jobs \ {j}
    /\ UNCHANGED <<sequence, remote, discards, landed, used>>

\* next_attempt_at passes.
Due(o) ==
    /\ row[o].pending /\ row[o].waits
    /\ row' = [row EXCEPT ![o].waits = FALSE]
    /\ UNCHANGED <<sequence, remote, jobs, discards, landed, used>>

\* The user retries an operation that needs attention.
Retry(o) ==
    /\ row[o].pending /\ row[o].dispatch = "needs_attention"
    /\ used.retries < MaxRetries /\ used' = [used EXCEPT !.retries = @ + 1]
    /\ row' = [row EXCEPT ![o].dispatch = "queued", ![o].waits = FALSE]
    /\ UNCHANGED <<sequence, remote, jobs, discards, landed>>

\* discard_jira_operation looks at the row: a sending operation is refused, a
\* never-sent one needs no readback.
DiscardLook(o) ==
    /\ row[o].pending /\ row[o].dispatch # "sending"
    /\ \A d \in discards : d.op # o
    /\ discards' = discards \cup
         {[op |-> o, applied |-> FALSE,
           at |-> IF row[o].attempts = 0 THEN "settle" ELSE "readback"]}
    /\ UNCHANGED <<row, sequence, remote, jobs, landed, used>>

\* The readback, without the outbox mutex; a failed one ends the request.
DiscardReadback(d, fails) ==
    /\ d.at = "readback"
    /\ IF fails THEN Fault /\ discards' = discards \ {d}
       ELSE /\ discards' = (discards \ {d}) \cup
                 {[d EXCEPT !.at = "settle", !.applied = Holds(d.op)]}
            /\ UNCHANGED used
    /\ UNCHANGED <<row, sequence, remote, jobs, landed>>

\* Mutant of MayDiscard: an operation that is being sent too.
MayDiscardAlways(o) == row[o].pending

\* settle_applied and discard refuse a row that is being sent or settled.
MayDiscard(o) == row[o].pending /\ row[o].dispatch # "sending"

\* settle_applied or discard, as the readback found.
DiscardSettle(d) ==
    /\ d.at = "settle"
    /\ discards' = discards \ {d}
    /\ IF MayDiscard(d.op)
       THEN Settle(d.op, IF d.applied THEN "confirmed" ELSE "discarded")
       ELSE UNCHANGED row
    /\ UNCHANGED <<sequence, remote, jobs, landed, used>>

\* Somebody edits the ticket at the provider.
RemoteEdit(t) ==
    /\ used.edits < MaxEdits /\ used' = [used EXCEPT !.edits = @ + 1]
    /\ SetRemote(t, Elsewhere)
    /\ jobs' = Stale(jobs, t)
    /\ UNCHANGED <<row, sequence, discards>>

\* Mutants of Reopened: what was being sent counts as sent, or stays sending.
ReopenedConfirmed(o) ==
    IF Sending(o) THEN [row[o] EXCEPT !.pending = FALSE, !.dispatch = "confirmed"]
    ELSE row[o]
ReopenedUnchanged(o) == row[o]

\* open: what was being sent is queued for a readback.
Reopened(o) == IF Sending(o) THEN [row[o] EXCEPT !.dispatch = "queued"] ELSE row[o]

\* The server dies and opens the outbox again, wherever its jobs stood.
Restart ==
    /\ jobs # {} \/ discards # {}
    /\ Fault
    /\ jobs' = {} /\ discards' = {}
    /\ row' = [o \in Ops |-> Reopened(o)]
    /\ UNCHANGED <<sequence, remote, landed>>

Job(j) ==
    \/ JobGet(j) \/ JobCheck(j) \/ JobPut(j, TRUE) \/ JobAck(j)
    \/ \E kind \in {"fatal", "limited", "other"} : JobError(j, kind)

\* What the server does by itself.
Server ==
    \/ ClaimReady
    \/ \E j \in jobs : Job(j)
    \/ \E d \in discards : DiscardReadback(d, FALSE) \/ DiscardSettle(d)

Next ==
    \/ Server
    \/ \E b \in Batches : Admit(b)
    \/ \E j \in jobs : JobPut(j, FALSE) \/ JobFault(j)
    \/ \E o \in Ops : Due(o) \/ Retry(o) \/ DiscardLook(o)
    \/ \E d \in discards : DiscardReadback(d, TRUE)
    \/ \E t \in Tickets : RemoteEdit(t)
    \/ Restart

\* The dispatch loop keeps running and its calls return; deadlines pass.
Fairness ==
    /\ WF_vars(ClaimReady)
    /\ \A o \in Ops : /\ WF_vars(Due(o))
                      /\ WF_vars(\E j \in jobs : j.op = o /\ Job(j))

Spec == Init /\ [][Next]_vars /\ Fairness

-----------------------------------------------------------------------------
\* Every variable keeps its type.
TypeOK ==
    /\ row \in [Ops -> RowType]
    /\ sequence \in [Tickets -> Nat]
    /\ remote \in [Tickets -> Ops \cup {Elsewhere}]
    /\ jobs \subseteq JobType /\ discards \subseteq DiscardType
    /\ landed \subseteq Ops

\* A write reaches the provider only for an operation that is still being
\* sent, and only when every earlier operation of its ticket is settled,
\* whatever restarts, retries and discards came in between.
WritesInOrder ==
    [][\A j \in jobs :
          (j.at = "put" /\ remote' # remote /\ remote'[TicketOf[j.op]] = j.op)
          => Sending(j.op) /\ ~\E e \in Pending : Earlier(e, j.op)]_vars

\* An operation is confirmed only if the provider really had its value.
ConfirmedReached ==
    \A o \in Ops : row[o].dispatch = "confirmed" => o \in landed

\* The last intent wins: once a later operation is confirmed, the provider
\* never shows an earlier one of the same ticket again.
LaterIntentStays ==
    \A a, b \in Ops :
        Earlier(a, b) /\ row[a].seq > 0 /\ row[b].dispatch = "confirmed" => ~Holds(a)

\* An admitted operation is eventually settled or asks for attention, or one
\* before it does; it is never left sending for ever.
Settles ==
    \A o \in Ops :
        row[o].pending ~> (\/ ~row[o].pending
                           \/ \E e \in Ops : /\ row[e].dispatch = "needs_attention"
                                             /\ e = o \/ Earlier(e, o))
=============================================================================
