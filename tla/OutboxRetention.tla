-------------------------- MODULE OutboxRetention --------------------------
(***************************************************************************)
(* The retry fence of the provider outbox: which operation ids are         *)
(* admitted, how long a settled row answers retries, and when it may be    *)
(* deleted (admit_batch, compact_terminal_before, prune_terminal_rows and  *)
(* open of provider_outbox.rs).  Clients resubmit an operation id at any   *)
(* time, and the wall clock may be set back.                               *)
(***************************************************************************)
EXTENDS Integers, FiniteSets

CONSTANTS
    Ids,         \* operation ids
    Legacy,      \* the ids without a timestamp
    IdTime,      \* the timestamp in a v2 id
    Retention,   \* SETTLED_PAYLOAD_RETENTION
    Skew,        \* FUTURE_ID_SKEW_MS
    Cutoff,      \* legacy_cutoff_ms, fixed when the database was created
    MaxTime,     \* bound on the clock
    MaxSetBacks  \* bound on the times the clock is set back

ASSUME RetentionAssumption ==
    /\ Legacy \subseteq Ids
    /\ IdTime \in [Ids \ Legacy -> Nat]
    /\ Retention \in Nat /\ Skew \in Nat /\ Cutoff \in Nat
    /\ MaxTime \in Nat /\ MaxSetBacks \in Nat

VARIABLES
    clock,         \* unix_now
    rowOf,         \* the state of an operation's row, and when it settled
    seq,           \* the sequence number of a row
    floor,         \* floor_ms
    lastSequence,  \* last_sequence
    ever,          \* history: the operations admitted so far
    highest,       \* history: the highest sequence number ever used
    setBacks       \* how often the clock was set back

retentionVars == <<clock, rowOf, seq, floor, lastSequence, ever, highest, setBacks>>

Absent == [state |-> "absent", settled |-> 0]
FenceRow == [state : {"absent", "queued", "settled", "compact"}, settled : Nat]

Larger(a, b) == IF a < b THEN b ELSE a

\* Settled at or before the start of the retention window.
Old(x) == x.settled <= clock - Retention

\* Mutant of NewFloor: it follows the clock back.
NewFloorFollows == Larger(0, clock - Retention)

\* The floor advances with the clock and never retreats.
NewFloor == Larger(floor, clock - Retention)

\* compact_terminal_before, then prune_terminal_rows, of one row.
Compacted(o) ==
    IF rowOf[o].state = "settled" /\ Old(rowOf[o])
    THEN [rowOf[o] EXCEPT !.state = "compact"] ELSE rowOf[o]

Prunable(o) ==
    /\ Compacted(o).state = "compact" /\ Old(rowOf[o])
    /\ IF o \in Legacy THEN clock >= Cutoff ELSE IdTime[o] < NewFloor

AfterCleanup(o) == IF Prunable(o) THEN Absent ELSE Compacted(o)

\* Mutant of Admissible: the cutoff admits its own instant.
AdmissibleAtCutoff(o) ==
    IF o \in Legacy THEN clock <= Cutoff
    ELSE IdTime[o] <= clock + Skew /\ IdTime[o] >= NewFloor

\* Whether admit_batch accepts an id that has no row.
Admissible(o) ==
    IF o \in Legacy THEN clock < Cutoff
    ELSE IdTime[o] <= clock + Skew /\ IdTime[o] >= NewFloor

-----------------------------------------------------------------------------
RetentionInit ==
    /\ clock = 0
    /\ rowOf = [o \in Ids |-> Absent]
    /\ seq = [o \in Ids |-> 0]
    /\ floor = 0
    /\ lastSequence = 0
    /\ ever = {}
    /\ highest = 0
    /\ setBacks = 0

Tick ==
    /\ clock < MaxTime
    /\ clock' = clock + 1
    /\ UNCHANGED <<rowOf, seq, floor, lastSequence, ever, highest, setBacks>>

SetBack(to) ==
    /\ to < clock /\ setBacks < MaxSetBacks
    /\ clock' = to
    /\ setBacks' = setBacks + 1
    /\ UNCHANGED <<rowOf, seq, floor, lastSequence, ever, highest>>

\* Mutant of NextSequence: the highest sequence of the rows that are left.
NextSequenceOfRows ==
    LET used == {seq[o] : o \in {o \in Ids : AfterCleanup(o) # Absent}} IN
    1 + (IF used = {} THEN 0 ELSE CHOOSE n \in used : \A k \in used : k <= n)

\* The high-water mark outlives the rows.
NextSequence == lastSequence + 1

\* admit_batch: old rows are compacted and pruned first, whatever becomes of
\* the submission; a known id keeps its row.
Submit(o) ==
    LET accepted == AfterCleanup(o) = Absent /\ Admissible(o) IN
    /\ floor' = NewFloor
    /\ rowOf' = [p \in Ids |-> IF p = o /\ accepted THEN [Absent EXCEPT !.state = "queued"]
                               ELSE AfterCleanup(p)]
    /\ seq' = IF accepted THEN [seq EXCEPT ![o] = NextSequence] ELSE seq
    /\ lastSequence' = IF accepted THEN NextSequence ELSE lastSequence
    /\ ever' = IF accepted THEN ever \cup {o} ELSE ever
    /\ highest' = IF accepted THEN Larger(highest, NextSequence) ELSE highest
    /\ UNCHANGED <<clock, setBacks>>

\* confirm, settle_applied or discard.
SettleId(o) ==
    /\ rowOf[o].state = "queued"
    /\ rowOf' = [rowOf EXCEPT ![o] = [state |-> "settled", settled |-> clock]]
    /\ UNCHANGED <<clock, seq, floor, lastSequence, ever, highest, setBacks>>

\* open: the high-water mark is raised to the rows' and old rows go.
Open ==
    /\ floor' = NewFloor
    /\ rowOf' = [o \in Ids |-> AfterCleanup(o)]
    /\ LET marks == {lastSequence} \cup {seq[o] : o \in {o \in Ids : rowOf[o] # Absent}}
       IN  lastSequence' = CHOOSE n \in marks : \A k \in marks : k <= n
    /\ UNCHANGED <<clock, seq, ever, highest, setBacks>>

RetentionNext ==
    \/ Tick \/ Open
    \/ \E to \in 0..MaxTime : SetBack(to)
    \/ \E o \in Ids : Submit(o) \/ SettleId(o)

RetentionSpec == RetentionInit /\ [][RetentionNext]_retentionVars

-----------------------------------------------------------------------------
\* Every variable keeps its type.
RetentionTypeOK ==
    /\ clock \in Nat /\ floor \in Nat
    /\ rowOf \in [Ids -> FenceRow]
    /\ seq \in [Ids -> Nat] /\ lastSequence \in Nat
    /\ ever \subseteq Ids /\ highest \in Nat

Inserted(o) == rowOf[o].state # "queued" /\ rowOf'[o].state = "queued"

\* An operation is admitted at most once, however late it is resubmitted and
\* however often its settled row was compacted or deleted meanwhile, so a
\* retry never becomes a second write to the provider.  An id without a
\* timestamp has this only as long as the clock is never set back.
AdmittedOnce ==
    [][setBacks = 0 => \A o \in Ids : Inserted(o) => o \notin ever]_retentionVars

\* For an id that carries its timestamp it holds even if the clock is set
\* back: the floor, which fences the deleted ids, never retreats.
DatedAdmittedOnce == [][\A o \in Ids \ Legacy : Inserted(o) => o \notin ever]_retentionVars

\* A new row is ordered after every row the ticket ever had, deleted ones too.
SequenceNeverReused == [][\A o \in Ids : Inserted(o) => seq'[o] > highest]_retentionVars
=============================================================================
