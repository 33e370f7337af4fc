# Hot Sheet 2: a verification development in TLA+

Hot Sheet 2 is a ticket tracker whose tickets are files in git-backed stores and
whose workers are AI tools, people and servers that claim tickets under leases.
This directory models the parts in which several processes meet: claims and the
ticket life cycle, claim-next over several stores, moves between stores, claims
over a git remote and over issue properties of Jira, the sync of a checkout and the
merge of tickets, the durable outbox in front of an external tracker, permission
requests, and the delivery of notifications. TLC checks each model on small
instances; TLAPS proves the safety properties that hold of all of them for every
instance.
`PROJECT.json` lists the runs, the source lines behind each definition, the mutants
that show that each property can fail, the hazards and the theorems.

## 1. Inventory

Sources are under `src/crates/`.

| Part | State | Operations | Interaction, and what is hard |
|---|---|---|---|
| Ticket operations (`hotsheet-ticketing/src/ops.rs`, `hotsheet-model`) | one file per ticket: status, started phase, Up Next, close reason, claim (worker, lease, count), append-only claim history | create, update, close, report not working, notes, restore, claim, claim-next, renew, release | every operation holds the store's lock file; the instant it decides with is captured before the lock; restore reads outside it |
| Claim guard (`hotsheet-cli/src/dispatch/claims.rs`) | remembered attempt, held lease, pending renewal | read, preflight renewal, renewal thread, final check | runs for hours beside other claimers; renewals answer late |
| Worker handoff (`coordination_readiness.rs`, `publish_handoff_note`) | evidence: attempt and `updated_at` | preflight, publish | evidence may be stale when it is published |
| Claim-next across stores (`claim_next_across_with_eta`) | none of its own | peek each store, claim, retry, fall back | one lock per store, no common one |
| Store lock and transfer (`store.rs`, `move_ticket`, `copy_ticket`) | lock file per store, files, attachments | paired transaction, move, copy | lock order, crash between two writes |
| Distributed claims (`distclaim.rs`, `distwork.rs`, server `dist_work_loop.rs`) | marker refs on the remote, a clone per worker | claim, renew, release, list, sweep, a work pass | racing pushes, lost answers, turns longer than a lease |
| Provider outbox (`provider_outbox.rs`, server `provider_write_behind.rs`, `hotsheet-extsync/src/jira.rs`) | SQLite rows with state, order, attempts, deadline; retention floor | admit batch, dispatch, confirm, defer, attention, retry, discard, compact, prune, reopen | lost answers, restarts, discards racing a dispatch, clock changes |
| Store sync (`sync.rs`, `sync_loop.rs`), autocommit (`store.rs`), compaction (`repository_compaction.rs`) | git history, working tree, queued commits, recovery marker | write, commit, fetch, rebase, push, rewrite, recover | three locks of different extent; background commits beside a rebase; interrupted rewrites |
| Merge driver (`merge.rs`, CLI `store.rs`) | none of its own | three-way merge of one ticket file, per replayed commit | clones sync in any order, with clocks that disagree |
| Advisory claims (`advisory_claim*.rs`, `jira.rs`, server `provider_advisory_claims.rs`, CLI `providers.rs`) | immutable issue properties at Jira, provisional ledger | claim, renew, release, status, replay, cleanup | no conditional write; clocks of several machines; requests that land late |
| Server (`hotsheet-server`) | hosted stores, live state, event streams | routes, watcher, restart | quiescence before a restart |
| Terminals (`hotsheet-terminals`) | sessions, input queue, viewers | attach, write, resize | slow viewers, bounded queues |
| Notifications (`hotsheet-notify`, server `notification_router.rs`) | delivery log, cooldowns, two file locks | dispatch, hold, summarise, compact | several processes share one log; crash between reservation and delivery |
| Permissions (`hotsheet-aitools/src/permission.rs`, server routes) | queue, rules, delivered decisions, encrypted rule file | ask, answer, review, edit, time out, cancel | two locks; answers race timeouts and hang-ups; the rule file can be away |
| Index, MCP façade, AI tool adapters, GitHub and GitLab clients, plugins, TLS, process journal, web client, importer | projections, protocols, files | | parsing, formatting and I/O for the most part |

What makes each part correct:

* ticket operations: fields never contradict the status, the history derives the
  claim, a live lease is never taken over;
* guard and handoff: success means one uninterrupted attempt;
* claim-next: no ticket is handed out twice, an empty answer is honest, the call ends;
* transfer: no edit and no attachment is lost but by a move over a live copy or onto
  the own store, no deadlock;
* distributed claims: one worker per ticket, no marker is stolen or left for ever;
* outbox: ordered, truthful, once only, and it settles;
* sync: no edit is lost, every edit is published unless a crash left a rebase
  unfinished, removed history stays removed;
* merge: for one commit per clone the order of syncs does not matter; for any number,
  nothing appended is forgotten and uncontested changes survive;
* advisory claims: one holder at a time, releases are final, cleanup is invisible;
* permissions: nobody is allowed what nobody allowed, no answer is slept through,
  durable rules are those of the file, with the exceptions named in section 3;
* notifications: each held message is summarised once, and is summarised.

## 2. Plan

Done, in the order of importance: `TicketClaims`, `ClaimNextAcross`,
`TicketTransfer`, `DistClaims`, `ProviderOutbox`, `OutboxRetention`; then
`Permissions`, `Notifications` as a refinement of `HeldSummaries`, `StoreSync`,
`TicketMerge` composed with the operations of `TicketClaims`, and `AdvisoryClaims`.
Every safety property of each of them is proved (section 6). Next:

1. `Lease`, an abstract specification of an exclusive lease, and refinements from
   `TicketClaims` and from `DistClaims` without the stale sweep.
2. `ServerLifecycle` (writer lock, background work, restart) and `TerminalQueues`.
3. Trash purge in `TicketClaims`; `copy_ticket` in `TicketTransfer`; the transition
   detection in front of `Notifications`.

## 3. Modules

Each component module declares its constants and the assumptions on them; an `MC`
module gives the small instances. Definitions whose comment begins with *Mutant
of* are plausible errors of the definition that follows them; nothing in a
specification uses them. Most modules call their specification `Spec`; where one
module of proofs is about two components, the second has names of its own
(`RetentionSpec`, `NotifySpec`, `MergeSpec`, with `Init`, `Next` and type invariant
likewise). `Positions` defines `Retain`, the removal of elements of a sequence by
position, which `Permissions` uses for rules and `Notifications` for the log.

### TicketClaims

`ticket` maps an id to its file, reduced to the fields the rules tie together.
An operation is one action because it runs inside one store transaction; it takes
an instant `now` of the past, because the caller reads the clock (and computes the
lease end) before it waits for the lock. `Patched` is `update`: the patch and then
the rules for phase, Up Next, close reason, Trash origin and claim. `restoring`
holds restores between their unlocked read and their update. `guards` holds
claim-run guards: `GuardRead`, `GuardPreflight`, `GuardRenew` (on its own thread),
`GuardReceive`, `GuardStop`, `GuardFinish`. `reviews` holds handoffs; `current`
tells whether `updated_at` is still the reviewed one, and `Stamp` clears it. The id
of a claim event is a hash over its position in the history, so the position
stands for it. The status `moved` belongs to `TicketTransfer`.

### ClaimNextAcross

One action per peek of a store, one for the claim of the selection (which checks
eligibility again inside the store's transaction), one per store of the fallback.
The scan compares copies: the candidate keeps the Up Next mark it was read with
(`mark`) while its file may change. With a single store the call goes straight to
the atomic claim-next of that store.
`steady` is a history variable: the tickets that have been eligible and untouched
since the call began. Leases are reduced to held and not held.

### TicketTransfer

One ULID in several stores. A process takes its locks in path order (`Acquire`),
reads, and writes file by file; `Crash` also stands for an early return on an I/O
error, since both release the locks and leave the files. `edits` names the edits a
file contains. An edit writes any status, as `update` does: it may revive a tombstone
or retire a live copy by hand (`WriteEdit`). A move is asked for along any route, the
one from a store to itself included, and copies what it read, tombstone or not, over
whatever the destination has.

`NoEditLost` and `AttachmentsKept` are action properties. Three steps discard edits
that a live copy has: a move that writes over a live destination, the second write of
a move onto the own store, and an edit that retires the copy. Nothing else does, with
or without crashes. The last attachments go with a move onto the own store only.

### DistClaims

`marker` and `left` are the remote; `closed` and `local` are per clone; `pass` is
the pass of each worker, one step per git command. Time is relative (`left`, `age`)
so that the model has no clock bound: instants older than `MaxPass` are equal.
A pass uses the clock of its beginning throughout, as `run` passes one `now` to
`work_pass`. A sweep may fail at each of its commands (`SweepFails`): an unreadable
marker is skipped, another error ends the sweep, and the pass goes on. The clocks of the servers agree; skew is not modelled. `swept` is a
history variable: the tickets of which some sweep took a marker for expired.

### ProviderOutbox

A row has its state, order, attempts and whether its deadline lies ahead. Each
outbox method is one transaction under the outbox mutex; a dispatch job is `get`,
`check` (the token comparison inside Jira's `update`), `put` and `ack`, and a
discard is a look, a readback and a settlement. The provider is a register per
ticket. A call may fail before its effect, or lose its answer after it. A request
that takes effect after its caller gave up is not modelled.

### OutboxRetention

Admission by id: dated ids against the durable floor and the skew, legacy ids
against the cutoff; compaction and pruning as `admit_batch` and `open` do them;
the sequence mark. The clock may be set back. `Ids` are those of one ticket, and
`rowOf` is the row of each.

### StoreSync

One checkout with its branch, its ticket file and its upstream. Who holds the ticket
lock, the git lock and the history lock follows from where writers, committer, sync
cycle and rewrite are; the sync cycle does not take the ticket lock. A commit is what
it adds to and removes from the content of its parent, so that replaying it is what
the merge driver does: `Content` of a branch has the edits that some commit adds and
neither that commit nor a later one removes. `sync` has one place per git command of
`sync_once`. A rebase that replays commits while a transaction holds an older copy of
the file is remembered in `overlapped`: the code has no lock against it. Origin may be
empty at first, so that the branch has no upstream until a sync publishes it.

The server may die anywhere. When it dies during the rebase (`Orphaned`), the git child
either finishes it or stops after some of the commits; nothing in the code ends such a
rebase, and the checkout is `stranded`: HEAD is detached, later commits are not on the
branch, `@{u}` and `push -u origin HEAD` fail, and neither a rewrite nor a recovery
accepts the checkout. `NoEditLost` holds there too, with an edit on the branch or in the
files; `Published` excepts it. Compaction is
its locks, the recovery marker, the leased push, its failure, and `recover_store`; the
person who resets the checkout is external.

### TicketMerge

`Merge` is `merge_tickets`: three-way choice per field (`Pick3`), tags by `Union3`,
notes and claim events by id, the body by paragraphs, a phase only with `started`.
Clones revise the ticket with `Patched`, `Closed`, `Acquired` and `EndClaim` of
`TicketClaims`, taken by `INSTANCE`; so what is merged are tickets that the operations
can produce, and `Record` commits them. `Rebased` replays the commits of a clone on
`origin` one by one (`Replayed`), as the rebase of a sync does. Clocks of the clones
are independent.

### AdvisoryClaims

The properties of one issue are a set of immutable events. A call of a server or a
command is a sequence of steps: listing and reading (one step, because values never
change, and a property that vanished in between is a failed request), the cleanup
property by property, the PUT, the reading after it, and the status its caller is
told. `now` is read when a call begins and is used to its end. A PUT may land after
its caller gave up (`GiveUp`, `Land`). `until` is what each worker was last told.
Provisional rows are replayed one row per call. The source is linked throughout.
`Found`, the properties the issue starts with, were written by the same rules: a
version 2 event there has an issue time and expires within the horizon of it, as
`valid_write` demands of every event.

### Permissions

One checkout project. `rules` and `queue` are under one lock, `results` under
another, so an answer takes a request out of the queue, delivers and wakes in
separate steps (`deliveries`). A hook waits asynchronously (register interest, check,
park), a drive on a condition variable.

`vault` is the rule file, and `vaultState` tells whether it can be used, its key is
refused (`locked`) or it is missing. A change writes the whole file (`WriteVault`): a
refused key refuses the change, while a missing file is read as empty and written anew
(`Readable`). A registration is two steps: `Load` reads the file under the file's own
lock, `Install` replaces the durable rules in memory later; `loads` holds what was read,
and anything may happen in between. `known` tells that the server has the path of the
file, without which nothing durable can be written.

`DurableRulesStored` is an action property: durable rules in force that all agree with
the file go on to agree, except

* when a registration installs a list that the file no longer has (an edit or an answer
  overtook it),
* when a change recreates the missing file,
* for a key of which memory has two rules in one slot (`Doubled`): an answer for the
  session, given while the vault was away, beside the reloaded durable rule,
* for a key that the file has and no durable rule in memory has (`Shadowed`), when an
  edit writes another rule of it;

and a registration that installs the file as it is makes them agree again.

### Notifications and HeldSummaries

`Notifications` is the dispatcher and the delivery log of one channel for several
processes: the flush lock is only tried, the journal lock is held for one read or
append. A dispatch is decided, sent and logged in three steps, a summary is checked,
reserved, sent and recorded; a crash may come between any two. The next flush then
records each of the `Interrupted` reservations as failed, one append after another.
`HeldSummaries` states the promise: a summary takes everything that is pending and
nothing is reported twice. `HeldOnce` is the refinement, with `pending` mapped to the
held records that no reservation or older summary has consumed.

## 4. Runs

| Run | Instance | Shows |
|---|---|---|
| `claims_edits` | 1 ticket, 2 workers, 1 editor, clock to 3, lease 2, history to 4, all kinds of patches | the fields, the claim, the count and the history agree; a live lease is not taken over |
| `claims_guard` | 1 ticket, 2 workers, one guard and one handoff, history to 5 | success of a guard and publication of a handoff mean an untouched attempt |
| `across` | 2 stores, 3 tickets (two in the first store, the older of them less urgent), one claim-next caller, one other claimer, 3 attempts | no displaced claim, honest empty answer, merged order, and the call ends |
| `transfer` | 2 stores, 2 processes, moves both ways and from the first store to itself, 2 edits of any status, 2 crashes | no edit and no attachments are lost outside the named cases, nobody waits for ever |
| `dist` | 2 workers, 1 ticket, passes up to twice the lease, 2 faults | one worker per ticket unless a marker was swept; markers are not stolen and are always removed |
| `outbox` | 3 operations on 2 tickets, capacity 2, window 2, one fault, one edit at the provider, one retry | order, truthful confirmation, the last intent stays, everything settles |
| `retention` | 2 dated ids and a legacy id, retention 2, skew 1, clock to 5, one set-back | admission once, sequence numbers |
| `store_sync` | a server and a headless writer, 2 edits, another clone's edit that clashes with one, an empty or a filled origin, one fault, one rewrite | no lost edit, removed history stays removed, every edit is published |
| `merge` | 2 clones, 2 workers, 2 commits each between syncs, stamps to 2, a tag, 2 paragraphs | syncs of one commit each commute, nothing is forgotten, uncontested changes survive |
| `advisory` | a server whose clock is behind and a command, 2 new claims, a version 1 claim and a finished one, horizon 2, skew 1, clock to 6, 3 calls, 1 late PUT, 5 properties | one holder, final releases, invisible cleanup |
| `permissions` | a hook and a drive asking for one action, one pattern, a rule file with up to 2 rules, 1 outage or restart, and 2 edits beside one of the asks | fail closed, answered once, no lost wakeup; durable rules are the file's, outside the named cases |
| `notifications` | a server and a command, 3 messages (one urgent, one of an older log), limit 1, compaction at 4, 1 fault, 1 quiet window | the refinement of `HeldSummaries`, one record per summary, held messages are reported |

Each module also has a type invariant (`TypeOK`, `RetentionTypeOK`, `NotifyTypeOK`,
`MergeTypeOK`), true on the same instances.

Why the bounds suffice. Tickets do not influence each other in `TicketClaims`, so
one is enough; history 4 holds a claim, its renewal, a takeover and a release, and
5 is what a second attempt of the same worker under a running guard takes. A lease
of 2 in a clock of 3 lets a lease be live, end, and be renewed with a stale instant.
In `ClaimNextAcross` a second caller affects the first only by claiming an eligible
ticket, which `ClaimExact` does between any two steps. Two processes suffice in
`TicketTransfer` for every pair of conflicting transactions, two crashes for a
crash during the repair of a crash, and two edits for one that revives a tombstone
beside one that is then overwritten. In `DistClaims` a pass of twice the lease lets a
marker be swept and taken over under a running turn (two tickets with shorter
passes and one fault were explored too). In `ProviderOutbox` two operations of one
ticket and one of another give order and independence; a window of 2 gives a
deferral and the attention after it. In `OutboxRetention` the clock passes the
cutoff, the skew and twice the retention. In `StoreSync` two edits let one be
written while the other is committed, replayed or pushed; a clash makes a rebase
abort. In `TicketMerge` two commits on each side give a rebase whose second commit
is merged with the result of the first. In `AdvisoryClaims` the finished claim
becomes inert at 4 and reclaimable at 5, one step of skew before the end, and the
version 1 claim ends at 3; three calls hold a claim, its renewal and its release,
or two claims that race and a cleanup. In `Permissions` two asks of one action give
the cascade, two edits a change of a rule that an earlier change made, and the initial
files rules that were stored before the server started. The edits and the list of
Settings do not touch the queue; the constraint `OneAtATime` of the run explores them
beside one ask at a time.

`outbox`, `permissions`, `notifications`, `merge` and `advisory` do not check
deadlock: once everything is answered or settled and the bounds are spent, nothing
is left to happen. All other runs check it.

### Fairness

* `ClaimNextAcross`: a running call takes its next step. It waits for nothing but a
  store lock, which is held for one operation at a time.
* `TicketTransfer`: a process inside a transaction takes its next step, and a waiter
  is eventually granted a lock that is released again and again (strong fairness of
  `Acquire`). The lock is a blocking file lock of the operating system.
* `DistClaims`: the loop of a server runs a pass every interval, git commands and
  turns end, and time passes.
* `ProviderOutbox`: the dispatch loop runs every two seconds, calls to the provider
  return, deadlines pass. Retries, discards and edits are up to users and are not
  fair.
* `StoreSync`: writes, commits, the sync cycle and a rewrite take their next step;
  where it needs a file lock that others take again and again, fairness is strong.
  The sync loop runs on a timer. Faults, new edits, pushes of others and the
  beginning of a rewrite are not fair.
* `Notifications`: a process in the middle of a dispatch or flush goes on, a server
  flushes on its timer, quiet windows end and hours pass. New messages are not fair.
* The other modules have safety properties only.

## 5. Disagreements noted

No run is expected to fail. What follows was met while modelling; the models do what
the code does, and where a property excepts a case, this is the case: without the
exception TLC finds a counterexample.

Claims and transfer:

* `renew` compares the lease with an instant read before the lock, so it can succeed
  after the lease ended (`claim-run` reads the clock inside).
* A move does not look at the status of what it read: a repeated move copies the
  tombstone over the live ticket (`ops.rs:2270`),
  and no live ticket is left, where `docs/02-ticket-storage.md:149` says "A global ULID
  still resolves to exactly one **live** ticket". The tombstone keeps `claim_eta_at`
  and `worker_label` (`ops.rs:2294`, `docs/02:670`). A crash between
  the two writes leaves two live tickets (`ops.rs:2279`, `docs/02:149`), and so does an
  edit that sets the status of the tombstone (`ops.rs:766`).
* Neither `move_ticket` nor its callers refuse the store the ticket is in as the
  destination, although the paired transaction provides for it (`store.rs:530`: "A
  store paired with itself takes one lock"). Such a move turns the only file into a
  tombstone and removes its attachments (`ops.rs:2299`), where the comment before it
  says "The attachments now live in the destination".
* Closing a backlog ticket leaves it in `backlog`, which `is_open` counts as open,
  while `docs/02:515` says a close reason implies a terminal status. `restore` checks
  `NotInTrash` outside the transaction that changes the status (`ops.rs:1152`).

Distributed work:

* The sweep deletes markers by name from a stale list, so it can delete a fresh claim
  and let a second worker start the ticket, against `docs/08-distributed-and-remote.md`;
  a late release can do the same (`distclaim.rs:159`). `StartedOnce` excepts swept
  tickets.
* The renewal after a turn asks for the expiry the marker already has
  (`distwork.rs:78`); no failure count keeps a failing ticket from starving the queue
  (`distwork.rs:103`); a ticket closed by a sync after the candidates were computed
  is still recorded as claimed (`distwork.rs:130`).

Provider:

* A discard looks, reads and settles in separate critical sections; an operation sent
  in between is marked discarded although it was applied.
* Pruning does not record that the legacy cutoff passed, so a clock set back behind it
  admits a deleted legacy id again (`provider_outbox.rs:567`,
  `docs/25-write-behind-sync-plan.md:306`).
* The replay of a provisional claim that is already there is confirmed by the command
  even when the projection is in conflict, while the server asks for attention.
  Neither lets a worker go on: the status that follows shows the conflict.

Sync and merge:

* The rebase does not take the ticket lock and can find a dirty tree (`sync.rs:100`: "so
  the rebase never sees a dirty tree") or move the file under a transaction;
  `NoEditLost` and `Published` except the latter.
* A crash during the rebase leaves a checkout that only git commands can repair
  (`sync.rs:102`), against `docs/02:876`, "so the user effectively never runs git by
  hand". No edit is lost, but none is published; `Published` excepts it.
* After a rewrite, clones that are not recovered replay the old history.
* With several commits per clone the order of syncs matters: a field that both changed
  is settled commit by commit, by the stamps of the commits.
* The merge settles fields one by one, so a ticket closed on one clone and started on
  another can have a `close_reason` with an active status, against `ops.rs:2148`
  ("close_reason may never coexist with an active status"); likewise a release
  merged with a renewal leaves a lease without a holder, a claim can end on a
  completed ticket, and after concurrent claims `claim_count` is less than the number
  of claim events. A note deleted on one clone returns with the other.
  `updated_at` is compared as text.

Permissions and notifications:

* A registration reads the rule file without the lock of the bridge (`hosting.rs:64`)
  and installs what it read later (`hosting.rs:78`): a rule revoked in between is in force
  again, in memory, until the next registration.
* A missing rule file is read as empty and written anew by the next durable change
  (`permission_vault.rs:419`), where `docs/05-ai-tool-plugins.md:1422` says "a missing
  known file is never recreated silently". The other durable rules stay in force without
  being stored.
* After an outage of the vault two rules can share a slot: `add_project_rules` appends
  the durable rules again behind newer session rules, although
  `docs/05-ai-tool-plugins.md` lets the newest answer win, and an edit or revocation
  then acts on the first match only, so that a revoked durable rule stays in memory
  until the next registration. The exceptions of `DurableRulesStored` are these three
  and the edit of a rule whose key only the file has.
* A timeout that finds its request taken and its decision not yet delivered denies,
  and the person's answer is dropped. An answer for a chat that races the closing of
  the chat installs its rule after the connection was forgotten.
  `delete_drive_connection` compares the project of a request with the checkout's root
  path, which never equals `checkout:<id>`.
* The cooldown of a message starts before its delivery (`dispatch.rs:318`), while
  `docs/32-notifier-plugins.md:277` says: "Only successful deliveries start a cooldown."

## 6. Proofs

Each module of proofs extends the module of its component, or of two related ones, and
is about their specifications, for every value of the constants that its named
assumption admits: any sets of tickets, workers, stores, operations or requests, any
leases and retention periods, and any bounds on clocks, faults and calls. A proof has
an inductive invariant, which TLC checked on the instance of section 4 before it was
proved, one lemma per action, and a temporal step. What the theorems state is what the
runs check.

| Module | Inductive invariant | Theorems |
|---|---|---|
| `TicketClaimsProofs` | `IInv`: type, life cycle and history of every ticket; `AInv` adds `CountIsAttempts` and `Reviewed` | `TypeCorrect`, `LifecycleCorrect`, `HistoryCorrect`, `LiveLeaseTheorem`, `GuardTheorem`, `CountTheorem`, `HandoffTheorem` |
| `ClaimNextAcrossProofs` | `TypeOK`, and per call `Untouched`, `Ranked`, `Passed` | `AcrossTypeCorrect`, `EmptyAnswerTheorem`, `MergedOrderTheorem`, `NeverDisplacedTheorem` |
| `TicketTransferProofs` | `TypeOK`; per process `ProcOK`, `LocksOK`, `ReadOK`; `Copied` | `TransferTypeCorrect`, `NoEditLostTheorem`, `AttachmentsTheorem` |
| `DistClaimsProofs` | `TypeOK`, `Placed`, `Owned` | `DistTypeCorrect`, `StartedOnceTheorem`, `MarkerTheorem` |
| `OutboxProofs`, `ProviderOutbox` | `TypeOK`, `Rows`, `Jobs`, `Ordered`, `Sent`, `Applied`, `Superseded` | `OutboxTypeCorrect`, `ConfirmedReachedTheorem`, `LaterIntentTheorem`, `WritesInOrderTheorem` |
| `OutboxProofs`, `OutboxRetention` | `RetentionInv`: type, `RowsAdmitted`, `Fence`, `Marks`; `Undated` | `RetentionTypeCorrect`, `DatedAdmittedOnceTheorem`, `AdmittedOnceTheorem`, `SequenceTheorem` |
| `ServerProofs`, `Permissions` | `TypeOK`, `AskOK` per ask, `NoLostWakeup`, `RulesOK`, `LoadsOK` | `PermissionTypeCorrect`, `FailClosedTheorem`, `AnsweredOnceTheorem`, `NoLostWakeupTheorem`, `DurableRulesTheorem` |
| `ServerProofs`, `Notifications` | `NotifyInv`: type, `JournalOK`, `ProcsOK`, one flusher | `NotifyTypeCorrect`, `HeldAtMostOnce`, `HeldAreReported`, `SummariesCompletedOnce` |
| `SyncProofs`, `StoreSync` | `SyncInv`: type, `PayloadInv`, `StrandedInv`, `EditInv`, `WriterInv` | `SyncTypeCorrect`, `EditsAreKept`, `PayloadNeverReturns` |
| `SyncProofs`, `TicketMerge` | `MergeInv`: type, `Sound`, `CloneInv` per clone | `MergeTypeCorrect`, `SyncOrderIrrelevant`, `NothingIsForgotten`, `UncontestedIsKept` |
| `AdvisoryClaimsProofs` | `TypeOK`, `Writing`, `Gone`, `Holding`, `HeldByOne` | `AdvisoryTypeCorrect`, `HeldByOneTheorem`, `ReleaseTheorem`, `CleanupTheorem` |

### TicketClaims

From `ConstantsAssumption`: `NoWorker` is no worker, patches, statuses and leases
have their types. The properties of a ticket are proved per ticket value: lemmas show
that each helper (`Acquired`, `Extended`, `EndClaim`, `Patched`, `Closed`,
`NotWorking`) preserves type, life cycle and history, and the step lemma combines
them action by action. `HistoryWellFormed` alone is not inductive: a renewal appended
to a history is well formed only if the last event belongs to the holder, which is
`HistoryMatchesClaim`; so `IInv` holds both. `GuardOwnedThroughout` follows from
`IInv` alone: an attempt that is still the last claim event of a well-formed history
whose last event is no release is followed by renewals of its worker only.
`LiveLeaseRespected` needs the clock of a decision to lie in the past and nothing
else of the environment. For the count, every write appends at most one event and
adds to the counter exactly when that event is a claim, so the cardinality of the
claim positions follows it. For the handoff, `Reviewed` says that a review whose
`updated_at` still matches has seen the whole history; every operation that appends
an event stamps the ticket, which makes the review stale.

### ClaimNextAcross

From `AcrossAssumption`: finitely many tickets with a home and a priority. The peeked
order is that of copies, so the invariant ranks the candidate by the mark it was read
with (`Ranked`) and adds that this is its present mark as long as nobody touched it;
only with both does the claim of an untouched candidate follow the merged order. A
lost race ends an attempt only if its candidate was touched, and the fallback leaves
a store behind only when nothing in it was eligible (`Passed`), which gives the
honest empty answer for any number of attempts.

### TicketTransfer

From `TransferAssumption`; `Free`, the holder of a lock nobody has, is no process.
Nothing is assumed of the routes. `NoEditLost` and `AttachmentsKept` are about steps, so each
is shown action by action from the invariant. An edit adds to what the file has and a
tombstone is written only after the destination has the same ticket, because what a
process read, and wrote to its destination, is still there when it writes next
(`ReadOK`); this is mutual exclusion (`LocksOK`: a waiter holds the earlier lock of its
order, a worker holds both). Neither needs the absence of crashes: a crash writes
nothing, and the copy of the attachments precedes their removal (`Copied`).

### DistClaims

From `DistAssumption`. From the successful push of its marker to its release, a pass
owns the marker of its ticket unless a sweep took one of that ticket for expired
(`Owned`). So two workers on one ticket would both be the marker's value.
`MarkerNeverStolen` holds with and without sweeps.

### ProviderOutbox

From `OutboxAssumption`: finitely many operations; `Elsewhere`, an edit made at the
provider, is no operation. `LaterIntentStays` is not inductive, since it speaks of
confirmed rows, while the provider may show an operation whose answer was lost. The
invariant speaks of what landed: everything before an operation that was ever claimed
for sending is settled (`Ordered`), a job sends a row that is still being sent and is
the only one (`Jobs`), so a PUT cannot come from an operation before a landed one
(`Superseded`). What is confirmed, by an answer or by the readback of a discard, has
landed (`Applied`).

### OutboxRetention

From `RetentionAssumption`, for every behaviour of the clock. `Fence` says that an
admitted dated operation without a row lies below the floor: pruning deletes a dated
row only below the new floor, admission accepts only at or above it, and the floor
never retreats. `Marks` says that no sequence number exceeds the mark, deleted rows
included. An id without a timestamp has no floor; `Undated` says that as long as the
clock was not set back such an id lost its row at or after the cutoff, after which
none is admitted. That is the hypothesis of `AdmittedOnce`, and section 5 says why the
code needs it.

### Permissions

From `PermissionAssumption`. `verdict` is what the one who took the request out of the
queue decided. `AskOK` says that a queued request has no verdict and that what is under
delivery, delivered or collected agrees with it; so a second answer, a timeout and a
cascade find nothing to take, and an ask that ends without a verdict is denied.
`NoLostWakeup` is inductive by itself. `DurableRulesStored` is about steps and needs
little of the state: that a durable rule belongs to no connection (`Durable`), that the
file has one rule of a key (`OneOfAKey`, which `Deduped` and `Without` preserve), and
that a refused registration brings no rules (`LoadsOK`). `KeptStep` is the statement rule
by rule, and there is one lemma for every operation that writes the file or installs a
list; the lemmas on `Retain` say which positions a removal keeps.

### Notifications

From `NotifyAssumption`: an older log has no reservations, its summaries name no
messages and its other records name one. The theorems hold for any number of
processes, crashes and failed writes and for every size at which the log is compacted.

`HeldAtMostOnce` is the refinement of `HeldSummaries`: each step of the dispatcher
leaves the pending messages alone, adds one that was never seen, moves all of them to
a summary, or drops some. It rests on what every journal satisfies (`Consistent`): a
held record is of one message, no two reservations and no two summaries of this
version are of the same messages, and the reservation of such a summary is still in
the log. The last conjunct is what makes compaction safe: without its reservation a
summary would be read as one of an older version, which consumes everything before it.
`JournalOK` ties the log to the history, so that what a reservation took was reported
and nothing reported is pending; `ProcsOK` says that a process in the middle of a
summary holds the flush lock and that its reservation has no summary yet, so that it
completes it once. Recovery appends one summary per interrupted reservation. That it
keeps the log consistent, and makes nothing pending, is shown along the sequence of
logs it goes through.

### StoreSync

From `SyncAssumption`. `NoEditLost` says that, unless a rebase overlapped a
transaction, an acknowledged edit is in the file, or on the branch while a rebase
replays it, or in one of the two once that rebase lost its server, and that a published
one is at origin. It is not inductive: a replayed
commit could remove an edit, and a push could leave one out. `EditInv` adds that
without an overlap no commit of any of the three branches removes anything, that
outside a replay the file has all the branch has, that what was published is at
origin, and that a marked checkout has nothing acknowledged that origin lacks (so
resetting it loses nothing). `StrandedInv` says that a stranded checkout is never marked
and never comes to a rebase or a push again, so its branch, which has what was
acknowledged before the crash, stays as it is and the later edits are in the file.
`WriterInv` supplies that neither a marker nor a rewrite
meets a transaction that is about to write.

`PayloadGone` needs the checkout as well as origin: after a published rewrite an
unmarked checkout has nothing of the old history on its branch or its upstream, and a
marked one is not ahead of origin, so its push is refused, unless it is clean already
(`PayloadInv`). That a sync cycle and a rewrite exclude each other is part of the same
invariant; without it a rebase could put old commits on a rewritten branch. The lemmas
say what `Content`, `Committed`, `Unshared`, `Rewritten` and a rebase do to the commits
of a branch.

### TicketMerge

From `MergeAssumption`. `Pick3`, `Union3` and the body merge do not depend on which side
is called ours, if the stamps differ. `MergeCommutes` is about clones with one commit
each; with several it does not hold. This is not yet that syncs commute: git makes no
merge when the upstream equals the parent of the commit, and then the two orders would
take different paths if a commit could be empty. So the invariant says that every commit
differs from its parent (`CloneInv`), and for that the stamps in a ticket may not be
ahead of the clocks of the clones that gave them (`Sound`).

`NothingIsForgotten` is about every step, a rebase of any number of commits included.
Along the commits of a clone, and from its base to origin, notes and events only grow
and tags only shrink (`Follows`); a merge of two followers of one revision follows
both. A replay is a recursion over the commits; that it is well defined, and that an
invariant of one replayed commit holds at the end, is shown over the interval of
positions (`RecursionExists`, `IntervalInduction`, the latter from the least position
at which it would fail). `UncontestedIsKept` follows with the invariant that a field
origin has not changed since the base is, after each replayed commit, that commit's.

### AdvisoryClaims

From `AdvisoryAssumption`: the clocks of the machines are off by at most `Skew`, and
the properties found at the beginning were written by the same rules. The invariant
says:

* `Writing`: what is written, or still under way, expires within the horizon of the
  issue time of its operation, and a release is written only if it was asked for;
  hence an operation is `Buried`, beyond any reader's interest, at a time that follows
  from its id, and cleanup removes only events of buried operations;
* `Gone`: a released operation has its release among the properties or is buried, so a
  late claim or renewal of it counts for nobody;
* `Holding`: what a worker was told is in the properties as long as any clock counts
  it. A version 1 operation has no issue time and is never buried; that it was told or
  is being renewed means that it outlasts every other version 1 operation that stands
  (`Leads`).

A second holder would have found the first one's claim in its reading after the PUT
and would have been told of a conflict; this is where `HeldByOne` is needed for its
own induction step. `CleanupInvisible` follows from `Writing`.

### Only model-checked

Liveness: `CallEnds`, `TransferEnds`, `MarkersReaped`, `Settles`, `Published` and
`HeldIsReported` need fairness, which is beyond the prover. Every other property of
the runs is also a theorem.

## 7. Not modelled

The components marked `not_modelled` in `PROJECT.json`, for the reason given there;
most are parsing, formatting and I/O, and the server's life cycle, the terminals and
the process journal are left for later. Inside the modelled ones: ticket content,
links and dependencies (a dependency only makes a ticket ineligible, which `blocked`
and `ready` stand for); `copy_ticket`; the Trash purge; clock skew between the
servers of `DistClaims`; a write-behind request that takes effect after its caller
timed out; panics of a dispatch job; the size limits of the advisory ledger and
sources that are unlinked; embedded stores and worktrees in `StoreSync`; attachments
and review requests in `TicketMerge`, which merge as notes do; the encryption and
the labels of permission rules; the transition detection and the notifier plugins.

Smaller simplifications, none of which a property depends on:

* `ClaimNextAcross`: the exact claim of another worker takes any ticket without a holder,
  also a blocked one, as `prepare_claim` allows, and also a closed one, which it refuses.
* `StoreSync`: a git child that outlives the server finishes its rebase, or stops, in the
  step of the crash, before a new server runs. The conflict markers that a stopped rebase
  may leave in the file, and the person who repairs a stranded checkout, are left out.
* `Permissions`: `Install` also records the path of the file, which the code does right
  after it under another lock (`hosting.rs:79`). A revocation names its rule by the
  keyed id under which Settings lists it; the alternative of `permission.rs:1421`, a
  rule named by its literal action, is left out.
* `TicketMerge`: a sync is one step. A push that is rejected after a rebase, and the
  rebase that follows, are in `StoreSync`. Patches to the status `deleted` are excluded
  by `MergeAssumption`; the merge treats it as any other status.
* `AdvisoryClaims`: `Invalid` has no case for an event that expires beyond the horizon,
  because `valid_write` refuses to write one; `Admit` has neither the limits on the rows
  of the ledger nor their pruning by age.
