----------------------------- MODULE StoreSync -----------------------------
(***************************************************************************)
(* One checkout of a git-backed store: the write and commit path of        *)
(* store.rs, the background committer, the sync cycle of sync.rs, and the  *)
(* history rewrite of repository_compaction.rs.  Three file locks are      *)
(* involved, and who holds each follows from where its users are:          *)
(*   - the ticket lock: a writer between its read and its write, and the   *)
(*     rewrite.  It is released before the commit;                         *)
(*   - the git lock: one commit, the rebase of a sync, and the rewrite;    *)
(*   - the history lock: a whole sync cycle, the rewrite and the recovery. *)
(* The sync cycle does not take the ticket lock.                           *)
(*                                                                         *)
(* The model follows one ticket file.  Its content is the set of edits it  *)
(* carries; a commit is what it adds to and removes from the content of    *)
(* its parent, so replaying it is the merge driver's work.  Git itself,    *)
(* the other clones and the person who restores a checkout are external.   *)
(* Nothing in the code ends a rebase that outlived its server: HEAD stays  *)
(* detached, later commits are not on the branch, and nothing is pushed.   *)
(***************************************************************************)
EXTENDS Integers, Sequences, SequencesExt

CONSTANTS
    Edits,        \* the edits made through this checkout
    OtherEdits,   \* those that other clones publish
    Clash,        \* edits of one paragraph, which do not merge
    Writers,      \* processes that edit tickets
    Background,   \* the server's: it queues its commits and leaves the push to the sync loop
    None,
    MaxFaults,    \* bound on crashes and network failures
    MaxRewrites   \* bound on history rewrites

AllEdits == Edits \cup OtherEdits

ASSUME SyncAssumption ==
    /\ Edits \cap OtherEdits = {} /\ Clash \subseteq AllEdits
    /\ Background \subseteq Writers /\ None \notin AllEdits
    /\ MaxFaults \in Nat /\ MaxRewrites \in Nat

VARIABLES
    remote,    \* the branch at origin
    head,      \* the branch of this checkout
    tracking,  \* its upstream as of the last fetch or push
    work,      \* the ticket file
    writer,    \* what each writer is doing
    queued, committing,  \* the background committer: jobs waiting, jobs taken
    pushing,   \* headless writers whose push child is running
    sync,      \* where the sync cycle is
    stranded,  \* HEAD is detached by a rebase that nobody ends
    marker,    \* the compaction recovery marker
    rewrite,   \* where the history rewrite is
    faults, rewrites,
    fresh,     \* edits not made yet
    acked,     \* history: edits whose write succeeded
    published, \* history: edits that were ever at origin
    compacted, \* history: a rewrite replaced the branch at origin
    overlapped \* history: a rebase moved the files under a transaction

vars == <<remote, head, tracking, work, writer, queued, committing, pushing, sync, stranded,
          marker, rewrite, faults, rewrites, fresh, acked, published, compacted, overlapped>>
branches == <<remote, head, tracking>>
history == <<acked, published, compacted, overlapped>>

Commit == [adds : SUBSET AllEdits, dels : SUBSET AllEdits, payload : BOOLEAN]
WriterType == [at : {"idle", "revise", "commit"}, edit : AllEdits \cup {None},
               copy : SUBSET AllEdits]
SyncPlaces == {"idle", "enter", "commit", "fetch", "compare", "rebase", "start", "pick", "push"}
RewritePlaces == {"idle", "history", "ticket", "rewrite"}
Resting == [at |-> "idle", edit |-> None, copy |-> {}]

-----------------------------------------------------------------------------
(* Branches.                                                               *)

\* An edit is in the file if a commit adds it and neither that one nor a
\* later one removes it.
Content(branch) ==
    {e \in AllEdits : \E i \in DOMAIN branch :
        e \in branch[i].adds /\ \A k \in i..Len(branch) : e \notin branch[k].dels}

\* git add, diff --cached and commit: nothing staged is no commit.
Committed(branch, content) ==
    LET old == Content(branch)
    IN  IF content = old THEN branch
        ELSE Append(branch, [adds |-> content \ old, dels |-> old \ content, payload |-> FALSE])

Ahead(branch, upstream) == ~IsPrefix(branch, upstream)

\* The commits of a branch that its upstream lacks.
Unshared(branch, upstream) ==
    LET common == {i \in DOMAIN branch : IsPrefix(SubSeq(branch, 1, i), upstream)}
    IN  SubSeq(branch, Cardinality(common) + 1, Len(branch))

Added(commits) == UNION {commits[i].adds : i \in DOMAIN commits}

Clashes(branch, upstream) ==
    /\ Added(Unshared(branch, upstream)) \cap Clash # {}
    /\ Added(Unshared(upstream, branch)) \cap Clash # {}

\* git filter-repo drops the payload from every commit.
Rewritten(branch) == [i \in DOMAIN branch |-> [branch[i] EXCEPT !.payload = FALSE]]

-----------------------------------------------------------------------------
(* Locks.                                                                  *)

TicketFree == (\A w \in Writers : writer[w].at # "revise") /\ rewrite \notin {"ticket", "rewrite"}

GitFree == sync \notin {"start", "pick"} /\ rewrite # "rewrite"

HistoryFree == sync \in {"idle", "enter"} /\ rewrite = "idle"

-----------------------------------------------------------------------------
Init ==
    /\ head = <<[adds |-> {}, dels |-> {}, payload |-> TRUE]>>
    /\ remote \in {<<>>, head} /\ tracking = remote
    /\ work = {}
    /\ writer = [w \in Writers |-> Resting]
    /\ queued = FALSE /\ committing = FALSE
    /\ pushing = {}
    /\ sync = "idle" /\ stranded = FALSE /\ rewrite = "idle" /\ marker = FALSE
    /\ faults = 0 /\ rewrites = 0
    /\ fresh = AllEdits
    /\ acked = {} /\ published = {} /\ compacted = FALSE /\ overlapped = FALSE

\* with_ticket_transaction: lock, check the guard, read.
Begin(w, e) ==
    /\ writer[w].at = "idle" /\ e \in fresh \cap Edits
    /\ TicketFree /\ ~marker
    /\ fresh' = fresh \ {e}
    /\ writer' = [writer EXCEPT ![w] = [at |-> "revise", edit |-> e, copy |-> work]]
    /\ UNCHANGED <<branches, work, queued, committing, pushing, sync, stranded, marker,
                   rewrite, faults, rewrites, history>>

\* The revised copy replaces the file; the commit waits until the lock is
\* released, and the server's is queued.
Write(w) ==
    LET e == writer[w].edit IN
    /\ writer[w].at = "revise"
    /\ work' = writer[w].copy \cup {e}
    /\ acked' = acked \cup {e}
    /\ overlapped' = (overlapped \/ writer[w].copy # work \/ sync = "pick")
    /\ IF w \in Background
       THEN queued' = TRUE /\ writer' = [writer EXCEPT ![w] = Resting]
       ELSE writer' = [writer EXCEPT ![w] = [Resting EXCEPT !.at = "commit"]] /\ UNCHANGED queued
    /\ UNCHANGED <<branches, committing, pushing, sync, stranded, marker, rewrite, faults,
                   rewrites, fresh, published, compacted>>

\* autocommit_attempt, under the git lock; a detached HEAD is not the branch.
Autocommit ==
    /\ GitFree
    /\ head' = IF marker \/ stranded THEN head ELSE Committed(head, work)

\* A headless writer commits in its own process and starts a push.
CommitNow(w) ==
    /\ writer[w].at = "commit"
    /\ Autocommit
    /\ pushing' = IF head' = head THEN pushing ELSE pushing \cup {w}
    /\ writer' = [writer EXCEPT ![w] = Resting]
    /\ UNCHANGED <<remote, tracking, work, queued, committing, sync, stranded, marker, rewrite,
                   faults, rewrites, fresh, history>>

\* BackgroundCommitter::work takes every queued job and commits them as one.
CommitterTake ==
    /\ queued /\ ~committing
    /\ queued' = FALSE /\ committing' = TRUE
    /\ UNCHANGED <<branches, work, writer, pushing, sync, stranded, marker, rewrite, faults,
                   rewrites, fresh, history>>

CommitterCommit ==
    /\ committing /\ committing' = FALSE
    /\ Autocommit
    /\ UNCHANGED <<remote, tracking, work, writer, queued, pushing, sync, stranded, marker,
                   rewrite, faults, rewrites, fresh, history>>

\* git push: only a fast-forward is accepted.
Publish(branch) ==
    IF IsPrefix(remote, branch)
    THEN /\ remote' = branch /\ tracking' = branch
         /\ published' = published \cup Content(branch)
    ELSE UNCHANGED <<remote, tracking, published>>

\* The push child takes no lock; it needs an upstream, and during a rebase
\* there is no branch to push.
PushChild(w) ==
    /\ w \in pushing /\ pushing' = pushing \ {w}
    /\ IF sync = "pick" \/ stranded \/ tracking = <<>>
       THEN UNCHANGED <<remote, tracking, published>> ELSE Publish(head)
    /\ UNCHANGED <<head, work, writer, queued, committing, sync, stranded, marker, rewrite,
                   faults, rewrites, fresh, acked, compacted, overlapped>>

-----------------------------------------------------------------------------
(* sync_once.                                                              *)

SyncIdle == <<work, writer, queued, committing, pushing, stranded, marker, rewrite, rewrites,
              fresh, acked, compacted, overlapped>>

\* sync_all flushes the background committer first.
SyncBegin ==
    /\ sync = "idle" /\ ~queued /\ ~committing
    /\ sync' = "enter"
    /\ UNCHANGED <<branches, published, faults, SyncIdle>>

\* Mutant of SyncLock: the guard is only checked before the lock is awaited.
SyncLockUnchecked ==
    /\ sync = "enter" /\ HistoryFree
    /\ sync' = "commit"
    /\ UNCHANGED <<branches, published, faults, SyncIdle>>

SyncLock ==
    /\ sync = "enter" /\ HistoryFree
    /\ sync' = IF marker THEN "idle" ELSE "commit"
    /\ UNCHANGED <<branches, published, faults, SyncIdle>>

\* Mutant of CommitPending: stray changes are left alone.
CommitPendingNot == UNCHANGED head

CommitPending == head' = IF stranded THEN head ELSE Committed(head, work)

SyncCommit ==
    /\ sync = "commit" /\ GitFree
    /\ CommitPending
    /\ sync' = "fetch"
    /\ UNCHANGED <<remote, tracking, published, faults, SyncIdle>>

SyncFetch ==
    /\ sync = "fetch"
    /\ tracking' = remote
    /\ sync' = "compare"
    /\ UNCHANGED <<remote, head, published, faults, SyncIdle>>

\* Without an upstream, which an empty origin does not have yet, the branch is
\* published with push -u.  A detached HEAD has none either, and no name.
SyncCompare ==
    /\ sync = "compare"
    /\ sync' = IF stranded THEN "idle"
               ELSE IF Ahead(tracking, head) THEN "rebase"
               ELSE IF Ahead(head, tracking) THEN "push" ELSE "idle"
    /\ UNCHANGED <<branches, published, faults, SyncIdle>>

\* What was written during the fetch is committed under the rebase's lock.
SyncRecommit ==
    /\ sync = "rebase" /\ GitFree
    /\ CommitPending
    /\ sync' = "start"
    /\ UNCHANGED <<remote, tracking, published, faults, SyncIdle>>

\* git rebase refuses a dirty tree; otherwise it checks the upstream out.
RebaseStart ==
    /\ sync = "start"
    /\ IF work # Content(head)
       THEN sync' = "idle" /\ UNCHANGED work
       ELSE sync' = "pick" /\ work' = Content(tracking)
    /\ UNCHANGED <<branches, published, faults, writer, queued, committing, pushing, stranded,
                   marker, rewrite, rewrites, fresh, acked, compacted, overlapped>>

\* The local commits are replayed on the upstream.  A body conflict, or a file
\* that changed in the meantime, stops it.
Local == Unshared(head, tracking)
Dirty == work # Content(tracking)
Replays == ~Clashes(head, tracking) /\ (Dirty => Local = <<>>)
Replay ==
    /\ head' = tracking \o Local
    /\ work' = IF Dirty THEN work ELSE Content(tracking \o Local)

\* Mutant of RebasePick: an aborted rebase leaves the upstream's files.
RebasePickLeft ==
    /\ sync = "pick"
    /\ \/ Replays /\ Replay /\ sync' = "push"
       \/ ~Replays /\ sync' = "idle" /\ UNCHANGED <<head, work>>
    /\ UNCHANGED <<remote, tracking, published, faults, writer, queued, committing, pushing,
                   stranded, marker, rewrite, rewrites, fresh, acked, compacted, overlapped>>

\* A rebase that stops is aborted, which resets the files.
RebasePick ==
    /\ sync = "pick"
    /\ \/ Replays /\ Replay /\ sync' = "push"
       \/ ~Replays /\ sync' = "idle" /\ work' = Content(head) /\ UNCHANGED head
    /\ UNCHANGED <<remote, tracking, published, faults, writer, queued, committing, pushing,
                   stranded, marker, rewrite, rewrites, fresh, acked, compacted, overlapped>>

SyncPush ==
    /\ sync = "push"
    /\ IF Ahead(head, tracking) THEN Publish(head) ELSE UNCHANGED <<remote, tracking, published>>
    /\ sync' = "idle"
    /\ UNCHANGED <<head, faults, SyncIdle>>

Fault == faults < MaxFaults /\ faults' = faults + 1

SyncOffline ==
    /\ sync \in {"fetch", "push"}
    /\ Fault
    /\ sync' = "idle"
    /\ UNCHANGED <<branches, published, SyncIdle>>

-----------------------------------------------------------------------------
(* The history rewrite and its recovery.                                   *)

RewriteIdle == <<work, writer, queued, committing, pushing, sync, stranded, fresh, acked, overlapped>>

\* execute_store: history lock, ticket transaction, git lock.
RewriteBegin ==
    /\ rewrite = "idle" /\ rewrites < MaxRewrites /\ rewrites' = rewrites + 1
    /\ HistoryFree
    /\ rewrite' = "history"
    /\ UNCHANGED <<branches, published, compacted, marker, faults, RewriteIdle>>

RewriteTransaction ==
    /\ rewrite = "history" /\ TicketFree
    /\ rewrite' = IF marker THEN "idle" ELSE "ticket"
    /\ UNCHANGED <<branches, published, compacted, marker, faults, rewrites, RewriteIdle>>

\* A clean store, on its branch and at the head of origin, is marked before
\* anything else.
RewriteMark ==
    /\ rewrite = "ticket" /\ GitFree
    /\ IF /\ work = Content(head) /\ ~stranded /\ remote = head
          /\ \E i \in DOMAIN head : head[i].payload
       THEN rewrite' = "rewrite" /\ marker' = TRUE
       ELSE rewrite' = "idle" /\ UNCHANGED marker
    /\ UNCHANGED <<branches, published, compacted, faults, rewrites, RewriteIdle>>

\* The clone is rewritten and pushed with a lease on the old head.
RewritePush ==
    /\ rewrite = "rewrite" /\ rewrite' = "idle"
    /\ IF remote = head
       THEN remote' = Rewritten(head) /\ compacted' = TRUE
       ELSE UNCHANGED <<remote, compacted>>
    /\ UNCHANGED <<head, tracking, published, marker, faults, rewrites, RewriteIdle>>

\* The rewrite fails or is killed before its push.
RewriteFails ==
    /\ rewrite = "rewrite" /\ rewrite' = "idle"
    /\ Fault
    /\ UNCHANGED <<branches, published, compacted, marker, rewrites, RewriteIdle>>

\* A person resets the marked checkout to origin.
Reset ==
    /\ marker /\ HistoryFree /\ head # remote
    /\ head' = remote /\ tracking' = remote /\ work' = Content(remote)
    /\ UNCHANGED <<remote, published, marker, rewrite, faults, rewrites, writer, queued,
                   committing, pushing, sync, stranded, fresh, acked, compacted, overlapped>>

\* recover_store clears the guard at the exact origin head only.
Recover ==
    /\ marker /\ HistoryFree /\ GitFree
    /\ ~stranded /\ head = remote /\ work = Content(head)
    /\ marker' = FALSE
    /\ UNCHANGED <<branches, published, compacted, rewrite, faults, rewrites, RewriteIdle>>

-----------------------------------------------------------------------------
\* Another clone, which is up to date, publishes an edit.
OthersPush(e) ==
    /\ e \in fresh \cap OtherEdits /\ remote # <<>>
    /\ fresh' = fresh \ {e}
    /\ remote' = Append(remote, [adds |-> {e}, dels |-> {}, payload |-> FALSE])
    /\ published' = published \cup {e}
    /\ UNCHANGED <<head, tracking, work, writer, queued, committing, pushing, sync, stranded,
                   marker, rewrite, faults, rewrites, acked, compacted, overlapped>>

\* A rebase without its server: git finishes it, or stops after some of the
\* commits, and then nobody aborts it.
Orphaned ==
    \/ Replays /\ Replay /\ UNCHANGED stranded
    \/ /\ stranded' = TRUE /\ UNCHANGED head
       /\ \E n \in 0..Len(Local) :
             work' = IF Dirty THEN work ELSE Content(tracking \o SubSeq(Local, 1, n))

\* The server dies: its queue and its sync cycle are gone, its locks free.
ServerCrash ==
    /\ queued \/ committing \/ sync # "idle"
    /\ Fault
    /\ queued' = FALSE /\ committing' = FALSE /\ sync' = "idle"
    /\ writer' = [w \in Writers |-> IF w \in Background THEN Resting ELSE writer[w]]
    /\ IF sync = "pick" THEN Orphaned ELSE UNCHANGED <<head, work, stranded>>
    /\ UNCHANGED <<remote, tracking, pushing, marker, rewrite, rewrites, fresh, history>>

WriterCrash(w) ==
    /\ writer[w].at = "commit" \/ w \in pushing
    /\ Fault
    /\ writer' = [writer EXCEPT ![w] = Resting]
    /\ pushing' = pushing \ {w}
    /\ UNCHANGED <<branches, work, queued, committing, sync, stranded, marker, rewrite, rewrites,
                   fresh, history>>

-----------------------------------------------------------------------------
SyncStep ==
    \/ SyncBegin \/ SyncLock \/ SyncCommit \/ SyncFetch \/ SyncCompare
    \/ SyncRecommit \/ RebaseStart \/ RebasePick \/ SyncPush

RewriteStep == RewriteTransaction \/ RewriteMark \/ RewritePush

Next ==
    \/ \E w \in Writers : \/ Write(w) \/ CommitNow(w) \/ PushChild(w) \/ WriterCrash(w)
                          \/ \E e \in Edits : Begin(w, e)
    \/ CommitterTake \/ CommitterCommit
    \/ SyncStep \/ SyncOffline
    \/ RewriteBegin \/ RewriteStep \/ RewriteFails \/ Reset \/ Recover
    \/ \E e \in OtherEdits : OthersPush(e)
    \/ ServerCrash

\* Threads run, and a process that waits for a file lock gets it.
Fairness ==
    /\ \A w \in Writers : WF_vars(Write(w)) /\ SF_vars(CommitNow(w))
    /\ WF_vars(CommitterTake) /\ SF_vars(CommitterCommit)
    /\ SF_vars(SyncStep) /\ SF_vars(RewriteStep)

Spec == Init /\ [][Next]_vars /\ Fairness

-----------------------------------------------------------------------------
\* Every variable keeps its type.
TypeOK ==
    /\ {remote, head, tracking} \subseteq Seq(Commit)
    /\ work \subseteq AllEdits
    /\ writer \in [Writers -> WriterType]
    /\ {queued, committing, stranded, marker, compacted, overlapped} \subseteq BOOLEAN
    /\ pushing \subseteq Writers
    /\ sync \in SyncPlaces /\ rewrite \in RewritePlaces
    /\ faults \in 0..MaxFaults /\ rewrites \in 0..MaxRewrites
    /\ fresh \subseteq AllEdits /\ acked \subseteq Edits /\ published \subseteq AllEdits

\* Unless a rebase moved the file under a transaction, no edit is lost: what
\* was written through this checkout is in its file, or on the branch that a
\* running rebase will restore, and in one of the two when the rebase has lost
\* its server; what was ever published stays at origin.  So it is through
\* rejected pushes, aborted and interrupted rebases and a history rewrite.
NoEditLost ==
    ~overlapped =>
        /\ acked \subseteq IF sync = "pick" THEN Content(head)
                          ELSE IF stranded THEN Content(head) \cup work ELSE work
        /\ published \subseteq Content(remote)

\* A payload that a rewrite removed from origin never returns from this
\* checkout: no queued commit, waiting sync, running push child or premature
\* recovery replays the old branch.
PayloadGone == compacted => \A i \in DOMAIN remote : ~remote[i].payload

\* Every edit that was written reaches origin, although its commit may have
\* been lost in a crash, its push rejected and the network down, unless it
\* clashes with what others published, was caught by a rebase, or a crash left
\* the checkout inside one.
Published ==
    \A e \in Edits :
        e \in acked ~> (e \in published \/ overlapped \/ stranded \/ Clashes(head, remote))
=============================================================================
