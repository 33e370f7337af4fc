--------------------------- MODULE Notifications ---------------------------
(***************************************************************************)
(* The delivery of notifications to one channel: hotsheet-notify's         *)
(* Dispatcher (dispatch.rs) and its journal (delivery_log.rs).  A server   *)
(* and serverless commands dispatch in processes of their own and share    *)
(* the journal file and two file locks:                                    *)
(*   - the flush lock is tried, and held while a summary is sent;          *)
(*   - the journal lock is held for one read or one append, with the       *)
(*     compaction the append may trigger, and never during a delivery, so  *)
(*     an append is one step here.                                         *)
(* A delivery is decided, sent and logged in three steps.                  *)
(*                                                                         *)
(* Record ids are ULIDs.  A message is dispatched once, so its record is   *)
(* known by the message; a summary and its reservation are known by the    *)
(* set of messages they report, which is empty for the summary of an older *)
(* version.                                                                *)
(***************************************************************************)
EXTENDS Integers, Sequences, FiniteSets, Positions

CONSTANTS
    Messages,   \* what is dispatched, and what older logs hold
    Urgent,     \* messages of error severity, which quiet hours let pass
    DedupeKeys, \* dedupe keys
    KeyOf,      \* the dedupe key of a message
    Procs,      \* processes that dispatch
    Servers,    \* those that also flush on a timer
    NoMessage,  \* no message
    OldLogs,    \* journals an older version may have left
    Limit,      \* max_per_hour
    CompactAt, Keep,  \* COMPACT_AT and KEEP
    MaxFaults,  \* bound on crashes and failed writes
    MaxQuiet    \* bound on quiet windows

Kinds == {"delivered", "failed", "suppressed", "held", "summary", "reservation"}
Entry == [kind : Kinds, ids : SUBSET Messages, recent : BOOLEAN]

ASSUME NotifyAssumption ==
    /\ Urgent \subseteq Messages /\ KeyOf \in [Messages -> DedupeKeys]
    /\ Servers \subseteq Procs /\ NoMessage \notin Messages
    /\ OldLogs \subseteq Seq(Entry)
    /\ \A log \in OldLogs : \A i \in DOMAIN log :
          /\ log[i].kind # "reservation"
          /\ IF log[i].kind = "summary" THEN log[i].ids = {} ELSE \E m \in Messages : log[i].ids = {m}
    /\ Limit \in Nat \ {0} /\ CompactAt \in Nat /\ Keep \in Nat \ {0}
    /\ MaxFaults \in Nat /\ MaxQuiet \in Nat

VARIABLES
    journal,   \* the delivery log
    flushing,  \* the holder of the flush lock, if any
    proc,      \* what each process is doing
    cooldown,  \* per process: the keys in `recent`
    quiet,     \* whether the quiet window is open
    faults, windows,
    fresh,     \* messages not dispatched yet
    seen,      \* history: messages that were ever logged as held
    reported   \* history: messages in a reservation

notifyVars == <<journal, flushing, proc, cooldown, quiet, faults, windows, fresh, seen, reported>>

Idle == [at |-> "idle", job |-> NoMessage, ids |-> {}]
ProcType == [at : {"idle", "check", "reserve", "summary", "decide", "held", "suppressed", "deliver"},
             job : Messages \cup {NoMessage}, ids : SUBSET Messages]

-----------------------------------------------------------------------------
(* The journal.                                                            *)

Is(e, kind) == e.kind = kind

Reservations(j) == {i \in DOMAIN j : Is(j[i], "reservation")}

\* Mutant of Modern: summaries count by position, as in older versions.
ModernNone(j) == {}

\* The reservations whose summaries consume exact ids.
Modern(j) == {j[i].ids : i \in Reservations(j)}

\* An older summary consumed what precedes it.
Since(j) ==
    LET legacy == {i \in DOMAIN j : Is(j[i], "summary") /\ j[i].ids \notin Modern(j)}
    IN  IF legacy = {} THEN 0 ELSE CHOOSE i \in legacy : \A k \in legacy : k <= i

\* Journal::held: what the next summary reports.
Held(j) ==
    (UNION {j[i].ids : i \in {k \in DOMAIN j : k > Since(j) /\ Is(j[k], "held")}})
    \ (UNION Modern(j))

Completed(j, ids) == \E i \in DOMAIN j : Is(j[i], "summary") /\ j[i].ids = ids

\* compact: the last Keep records stay, and the reservations that are not
\* completed, whose summary stays, or one of whose held records stays.
Retained(j) ==
    LET records == DOMAIN j \ Reservations(j)
    IN  {i \in records : Cardinality({k \in records : k >= i}) <= Keep}

\* Mutant of Needed: the held records are enough.
NeededForHeld(j, i) ==
    \/ ~Completed(j, j[i].ids)
    \/ \E k \in Retained(j) : Is(j[k], "held") /\ j[k].ids \subseteq j[i].ids

Needed(j, i) ==
    \/ ~Completed(j, j[i].ids)
    \/ \E k \in Retained(j) : Is(j[k], "summary") /\ j[k].ids = j[i].ids
    \/ \E k \in Retained(j) : Is(j[k], "held") /\ j[k].ids \subseteq j[i].ids

Compacted(j) ==
    LET kept == Retained(j) \cup {i \in Reservations(j) : Needed(j, i)}
    IN  CHOOSE log \in {Retain(j, positions) : positions \in {kept}} : TRUE

\* Journal::append.
Appended(j, e) ==
    IF Len(j) + 1 > CompactAt THEN Compacted(Append(j, e)) ELSE Append(j, e)

NewEntry(kind, ids) == [kind |-> kind, ids |-> ids, recent |-> kind = "delivered"]

\* recover_interrupted: a reservation without a summary is recorded as failed.
Interrupted(j) == Retain(j, {i \in Reservations(j) : ~Completed(j, j[i].ids)})

Recovered(j) ==
    LET open == Interrupted(j)
        log[n \in 0..Len(open)] ==
            IF n = 0 THEN j ELSE Appended(log[n-1], NewEntry("summary", open[n].ids))
    IN  log[Len(open)]

-----------------------------------------------------------------------------
NotifyInit ==
    /\ journal \in OldLogs
    /\ flushing = {}
    /\ proc = [p \in Procs |-> Idle]
    /\ cooldown = [p \in Procs |-> {}]
    /\ quiet \in BOOLEAN
    /\ faults = 0 /\ windows = 0
    /\ fresh = Messages \ (UNION {journal[i].ids : i \in DOMAIN journal})
    /\ seen = UNION {journal[i].ids : i \in {k \in DOMAIN journal : Is(journal[k], "held")}}
    /\ reported = {}

Enter(p, place) == proc' = [proc EXCEPT ![p].at = place]

AfterFlush(job) == IF job = NoMessage THEN Idle ELSE [Idle EXCEPT !.at = "decide", !.job = job]

\* Mutant of FlushLock: the lock is not exclusive.
FlushLockShared(p, job) ==
    /\ flushing' = flushing \cup {p}
    /\ journal' = Recovered(journal)
    /\ proc' = [proc EXCEPT ![p] = [Idle EXCEPT !.at = "check", !.job = job]]

\* lock_flush and recover_interrupted; a busy flush is skipped.
FlushLock(p, job) ==
    IF flushing = {}
    THEN /\ flushing' = {p} /\ journal' = Recovered(journal)
         /\ proc' = [proc EXCEPT ![p] = [Idle EXCEPT !.at = "check", !.job = job]]
    ELSE proc' = [proc EXCEPT ![p] = AfterFlush(job)] /\ UNCHANGED <<flushing, journal>>

\* A dispatch flushes first.
Dispatch(p, m) ==
    /\ proc[p].at = "idle" /\ m \in fresh
    /\ fresh' = fresh \ {m}
    /\ FlushLock(p, m)
    /\ UNCHANGED <<cooldown, quiet, faults, windows, seen, reported>>

\* The server flushes every minute.
FlushTimer(p) ==
    /\ p \in Servers /\ proc[p].at = "idle"
    /\ FlushLock(p, NoMessage)
    /\ UNCHANGED <<cooldown, quiet, faults, windows, fresh, seen, reported>>

\* Mutant of FlushEnds: the lock file stays locked.
FlushEndsLocked(p) ==
    proc' = [proc EXCEPT ![p] = AfterFlush(proc[p].job)] /\ UNCHANGED flushing

\* The flush is over: go on with the message, if there is one.
FlushEnds(p) ==
    /\ flushing' = flushing \ {p}
    /\ proc' = [proc EXCEPT ![p] = AfterFlush(proc[p].job)]

\* Dispatcher::held: quiet hours, or the limit by the log.
Holding(urgent) ==
    \/ quiet /\ ~urgent
    \/ Cardinality({i \in DOMAIN journal : Is(journal[i], "delivered") /\ journal[i].recent})
         >= Limit

FlushCheck(p) ==
    /\ proc[p].at = "check"
    /\ IF Holding(FALSE) THEN FlushEnds(p) ELSE Enter(p, "reserve") /\ UNCHANGED flushing
    /\ UNCHANGED <<journal, cooldown, quiet, faults, windows, fresh, seen, reported>>

\* Read what is held and make the reservation durable, under one journal lock.
FlushReserve(p) ==
    /\ proc[p].at = "reserve"
    /\ IF Held(journal) = {}
       THEN FlushEnds(p) /\ UNCHANGED <<journal, reported>>
       ELSE /\ journal' = Appended(journal, NewEntry("reservation", Held(journal)))
            /\ reported' = reported \cup Held(journal)
            /\ proc' = [proc EXCEPT ![p].at = "summary", ![p].ids = Held(journal)]
            /\ UNCHANGED flushing
    /\ UNCHANGED <<cooldown, quiet, faults, windows, fresh, seen>>

\* attempt_delivery has ended, well or not: record the summary.
FlushFinish(p) ==
    /\ proc[p].at = "summary"
    /\ journal' = Appended(journal, NewEntry("summary", proc[p].ids))
    /\ FlushEnds(p)
    /\ UNCHANGED <<cooldown, quiet, faults, windows, fresh, seen, reported>>

\* Reading or writing the journal fails: the flush is given up.
FlushFails(p) ==
    /\ proc[p].at \in {"reserve", "summary"}
    /\ faults < MaxFaults /\ faults' = faults + 1
    /\ FlushEnds(p)
    /\ UNCHANGED <<journal, cooldown, quiet, windows, fresh, seen, reported>>

Logged(k) ==
    \E i \in DOMAIN journal : /\ Is(journal[i], "delivered") /\ journal[i].recent
                              /\ \E m \in journal[i].ids : KeyOf[m] = k

\* dispatch, for its message: held, a repeat inside the cooldown, or sent.
\* suppressed() starts the cooldown of what is about to be sent.
Decide(p) ==
    LET k == KeyOf[proc[p].job] IN
    /\ proc[p].at = "decide"
    /\ IF Holding(proc[p].job \in Urgent)
       THEN Enter(p, "held") /\ UNCHANGED cooldown
       ELSE IF k \in cooldown[p] \/ Logged(k)
       THEN Enter(p, "suppressed") /\ UNCHANGED cooldown
       ELSE Enter(p, "deliver") /\ cooldown' = [cooldown EXCEPT ![p] = @ \cup {k}]
    /\ UNCHANGED <<journal, flushing, quiet, faults, windows, fresh, seen, reported>>

\* finish: append the record of what was decided, or of the delivery.
Log(p, kind) ==
    /\ \/ proc[p].at \in {"held", "suppressed"} /\ kind = proc[p].at
       \/ proc[p].at = "deliver" /\ kind \in {"delivered", "failed"}
    /\ journal' = Appended(journal, NewEntry(kind, {proc[p].job}))
    /\ seen' = IF kind = "held" THEN seen \cup {proc[p].job} ELSE seen
    /\ proc' = [proc EXCEPT ![p] = Idle]
    /\ UNCHANGED <<flushing, cooldown, quiet, faults, windows, fresh, reported>>

\* A failed append is reported on stderr and forgotten.
LogFails(p) ==
    /\ proc[p].at \in {"held", "suppressed", "deliver"}
    /\ faults < MaxFaults /\ faults' = faults + 1
    /\ proc' = [proc EXCEPT ![p] = Idle]
    /\ UNCHANGED <<journal, flushing, cooldown, quiet, windows, fresh, seen, reported>>

\* The process dies; the system releases its lock.
Crash(p) ==
    /\ proc[p].at # "idle"
    /\ faults < MaxFaults /\ faults' = faults + 1
    /\ proc' = [proc EXCEPT ![p] = Idle]
    /\ flushing' = flushing \ {p}
    /\ cooldown' = [cooldown EXCEPT ![p] = {}]
    /\ UNCHANGED <<journal, quiet, windows, fresh, seen, reported>>

\* An hour passes: deliveries leave the limit and the cooldown.
HourPasses ==
    /\ \E i \in DOMAIN journal : journal[i].recent
    /\ journal' = [i \in DOMAIN journal |-> [journal[i] EXCEPT !.recent = FALSE]]
    /\ cooldown' = [p \in Procs |-> {}]
    /\ UNCHANGED <<flushing, proc, quiet, faults, windows, fresh, seen, reported>>

QuietBegins ==
    /\ ~quiet /\ quiet' = TRUE
    /\ windows < MaxQuiet /\ windows' = windows + 1
    /\ UNCHANGED <<journal, flushing, proc, cooldown, faults, fresh, seen, reported>>

QuietEnds ==
    /\ quiet /\ quiet' = FALSE
    /\ UNCHANGED <<journal, flushing, proc, cooldown, faults, windows, fresh, seen, reported>>

-----------------------------------------------------------------------------
Step(p) ==
    \/ FlushTimer(p) \/ FlushCheck(p) \/ FlushReserve(p) \/ FlushFinish(p)
    \/ Decide(p) \/ \E kind \in Kinds : Log(p, kind)

NotifyNext ==
    \/ \E p \in Procs : \/ Step(p) \/ FlushFails(p) \/ LogFails(p) \/ Crash(p)
                        \/ \E m \in fresh : Dispatch(p, m)
    \/ HourPasses \/ QuietBegins \/ QuietEnds

\* Processes run, the server's timer fires, deliveries end, and quiet
\* windows and hours pass.
Fairness ==
    /\ \A p \in Procs : WF_notifyVars(Step(p))
    /\ WF_notifyVars(HourPasses) /\ WF_notifyVars(QuietEnds)

NotifySpec == NotifyInit /\ [][NotifyNext]_notifyVars /\ Fairness

-----------------------------------------------------------------------------
\* Every variable keeps its type.
NotifyTypeOK ==
    /\ journal \in Seq(Entry)
    /\ flushing \subseteq Procs
    /\ proc \in [Procs -> ProcType]
    /\ cooldown \in [Procs -> SUBSET DedupeKeys]
    /\ quiet \in BOOLEAN
    /\ faults \in 0..MaxFaults /\ windows \in 0..MaxQuiet
    /\ fresh \subseteq Messages /\ seen \subseteq Messages /\ reported \subseteq Messages

\* The journal implements HeldSummaries: through crashes, failed writes,
\* competing flushes, compaction and older logs, a held notification is
\* admitted to at most one summary and never becomes pending again.
Summaries == INSTANCE HeldSummaries WITH pending <- Held(journal)
HeldOnce == Summaries!Spec

\* No summary of this version is ever read as one of an older version, which
\* consumes by position: a notification in the log that was held while a
\* summary was being sent, or before compaction dropped that summary's
\* reservation, is reported by the next one.
LaterHoldsStay ==
    \A i \in DOMAIN journal :
        LET e == journal[i] IN
        /\ Is(e, "held") /\ e.ids \cap reported = {}
        /\ ~\E k \in DOMAIN journal : k > i /\ Is(journal[k], "summary") /\ journal[k].ids = {}
        => e.ids \subseteq Held(journal)

\* A summary is completed once: recovery never declares a reservation
\* interrupted while its sender is still at work.
CompletedOnce ==
    \A i, k \in DOMAIN journal :
        (Is(journal[i], "summary") /\ Is(journal[k], "summary") /\ journal[i].ids # {}
           /\ journal[i].ids = journal[k].ids) => i = k

\* What is held is reported (or dropped by compaction) once the channel no
\* longer holds, without a new event.
HeldIsReported == \A m \in Messages : m \in Held(journal) ~> m \notin Held(journal)
=============================================================================
