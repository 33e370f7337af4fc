---------------------------- MODULE Permissions ----------------------------
(***************************************************************************)
(* The permission bridge of hotsheet-aitools' permission.rs for one        *)
(* checkout project, with the ask and close routes of hotsheet-server that *)
(* drive it.  A tool asks; a remembered rule answers at once, or the       *)
(* request is queued until a person answers, the asking hook or connection *)
(* goes away, or the time is over.                                         *)
(*                                                                         *)
(* The bridge has two locks.  Queue and rules are under `inner`, delivered *)
(* decisions under `results`; whoever takes a request out of the queue     *)
(* delivers its decision, and wakes the waiters, in later steps.  A hook   *)
(* waits asynchronously (register, check, park), a drive under `results`.  *)
(* The vault is the encrypted rule file.  Its key can be refused and the   *)
(* file can disappear, and be restored.  Every write to it happens under   *)
(* `inner`, before the change it makes durable; but a registration reads   *)
(* it under the file's own lock and installs what it read in a later step. *)
(***************************************************************************)
EXTENDS Integers, Sequences, FiniteSets, SequencesExt, Positions

CONSTANTS
    Requests,    \* the asks, in no order
    Hooks,       \* those a hook raises over POST /permissions/ask
    Conns,       \* connections
    ConnOf,      \* the connection of an ask
    Actions,     \* what an ask wants to do
    ActionOf,    \* the action of an ask
    Patterns,    \* reviewed patterns
    Covers,      \* the actions a pattern matches
    None,        \* no decision, no connection; whoever lists the rules
    StartVaults, \* what the rule file may hold when the server first starts
    MaxEdits,    \* bound on changes made in Settings
    MaxOutages   \* bound on vault failures and restarts

Decisions == {"allow", "deny"}
Keys == Actions \cup Patterns

StoredType == [key : Keys, action : Actions, decision : Decisions]

\* One rule of a key: the file is written deduped.
OneOfAKey(v) == \A i, j \in DOMAIN v : v[i].key = v[j].key => i = j

ASSUME PermissionAssumption ==
    /\ Hooks \subseteq Requests
    /\ ConnOf \in [Requests -> Conns] /\ ActionOf \in [Requests -> Actions]
    /\ Actions \cap Patterns = {} /\ Covers \in [Patterns -> SUBSET Actions]
    /\ None \notin Conns \cup Decisions \cup Requests
    /\ StartVaults \subseteq {v \in Seq(StoredType) : OneOfAKey(v)}
    /\ MaxEdits \in Nat /\ MaxOutages \in Nat

VARIABLES
    rules,       \* inner: remembered rules, oldest first
    queue,       \* inner: pending requests
    results,     \* decisions delivered and not yet collected
    asks,        \* where each asking thread or task is
    deliveries,  \* answers between the queue and the waiters
    reviews,     \* requests allowed once whose rule is still under review
    loads,       \* registrations that have read the file and not installed
    known,       \* permission_rule_paths has the file: a load succeeded
    vault,       \* the rule file; while it is missing, what it had
    vaultState,  \* whether key and file are available
    edits, outages,
    verdict      \* history: the decision of whoever took a request

bridge == <<rules, queue, results, asks, deliveries, reviews>>
registry == <<loads, known>>
disk == <<vault, vaultState>>
bounds == <<edits, outages>>
vars == <<bridge, registry, disk, bounds, verdict>>

RuleType == [key : Keys, action : Actions, decision : Decisions,
             persist : BOOLEAN, conn : Conns \cup {None}]
Places == {"new", "loading", "asked", "waiting", "enabled", "notified", "parked",
           "expiring", "late", "hungup", "withdrawn", "gone", "allow", "deny"}
Ended == {"gone"} \cup Decisions
LoadType == [at : {"idle", "loaded", "refused"}, stored : Seq(StoredType)]
DeliveryType == [todo : [Requests -> Decisions \cup {None}], inserted : BOOLEAN]

-----------------------------------------------------------------------------
(* Rules.                                                                  *)

\* Rule::matches.
Matches(rule, action) ==
    IF rule.key \in Patterns THEN action \in Covers[rule.key] ELSE rule.key = action

Candidates(rs, r, chat, exact) ==
    {i \in DOMAIN rs : /\ rs[i].conn = IF chat THEN ConnOf[r] ELSE None
                       /\ (rs[i].key \in Actions) = exact
                       /\ Matches(rs[i], ActionOf[r])}

Answered(rs, r) ==
    \E chat, exact \in BOOLEAN : Candidates(rs, r, chat, exact) # {}

Newest(S) == CHOOSE i \in S : \A j \in S : j <= i

\* effective_rule: chat before project, exact before pattern, newest first.
EffectiveRule(rs, r) ==
    LET of(chat, exact) == Candidates(rs, r, chat, exact)
        S == IF of(TRUE, TRUE) # {} THEN of(TRUE, TRUE)
             ELSE IF of(TRUE, FALSE) # {} THEN of(TRUE, FALSE)
             ELSE IF of(FALSE, TRUE) # {} THEN of(FALSE, TRUE)
             ELSE of(FALSE, FALSE)
    IN  rs[Newest(S)]

Temporary(rs) == Retain(rs, {i \in DOMAIN rs : ~rs[i].persist})

FromVault(stored) ==
    [i \in DOMAIN stored |->
       [key |-> stored[i].key, action |-> stored[i].action,
        decision |-> stored[i].decision, persist |-> TRUE, conn |-> None]]

\* enforce_durable_health: no durable answer without its vault.
Healthy(rs) == IF vaultState = "ok" THEN rs ELSE Temporary(rs)

SameSlot(x, y) == x.key = y.key /\ x.conn = y.conn

\* install_rule: the newer answer replaces the slot, and the waiting requests
\* that a rule now answers are taken out of the queue.
Installed(rs, rule) ==
    Append(Retain(rs, {i \in DOMAIN rs : ~SameSlot(rs[i], rule)}), rule)

Cascaded(rs, waiting) == {q \in waiting : Answered(rs, q)}

Stored(rule) == [key |-> rule.key, action |-> rule.action, decision |-> rule.decision]

\* read_locked, for a change of the file: a missing one has no rules.
Readable == IF vaultState = "missing" THEN <<>> ELSE vault
Without(k) == Retain(Readable, {i \in DOMAIN Readable : Readable[i].key # k})
VaultHas(k) == \E i \in DOMAIN Readable : Readable[i].key = k

\* dedupe: of the rules of one key the last stays.  Whoever reads the file
\* does this first; here the one change that can write a second rule of a key
\* does it.
Deduped(v) == Retain(v, {i \in DOMAIN v : \A j \in DOMAIN v : i < j => v[j].key # v[i].key})

\* mutate: the file is written whole, and exists again.
Mutable == known /\ vaultState # "locked"
WriteVault(v) == Mutable /\ vault' = v /\ vaultState' = "ok"

NoLoad == [at |-> "idle", stored |-> <<>>]

-----------------------------------------------------------------------------
Init ==
    /\ rules = <<>> /\ queue = {} /\ deliveries = {} /\ reviews = {}
    /\ results = [r \in Requests |-> None]
    /\ verdict = [r \in Requests |-> None]
    /\ asks = [r \in Requests |-> "new"]
    /\ loads = [x \in Requests \cup {None} |-> NoLoad] /\ known = FALSE
    /\ vault \in StartVaults /\ vaultState = "ok"
    /\ edits = 0 /\ outages = 0

Goto(r, place) == asks' = [asks EXCEPT ![r] = place]

\* register_checkout_permission_rules, up to the load: the file is read under
\* its own lock, not the bridge's.
Load(x) ==
    /\ loads[x].at = "idle"
    /\ loads' = [loads EXCEPT ![x] =
          IF vaultState = "ok" THEN [at |-> "loaded", stored |-> vault]
          ELSE [at |-> "refused", stored |-> <<>>]]
    /\ UNCHANGED <<rules, queue, results, deliveries, reviews, known, disk, bounds, verdict>>

\* add_project_rules replaces the durable rules by the loaded ones; after a
\* refused load drop_durable_rules_for_project withdraws them.
Install(x) ==
    /\ loads[x].at # "idle"
    /\ rules' = Temporary(rules) \o FromVault(loads[x].stored)
    /\ known' = (known \/ loads[x].at = "loaded")
    /\ loads' = [loads EXCEPT ![x] = NoLoad]
    /\ UNCHANGED <<queue, results, deliveries, reviews, disk, bounds, verdict>>

\* ask_permission, for a hook, and create_drive_connection, for a drive,
\* register before anything is asked.
AskLoad(r) == asks[r] = "new" /\ Goto(r, "loading") /\ Load(r)
AskInstall(r) == asks[r] = "loading" /\ Goto(r, "asked") /\ Install(r)

\* enqueue: check the vault, apply the rules, or queue the request.
Enqueue(r) ==
    /\ asks[r] = "asked"
    /\ rules' = Healthy(rules)
    /\ IF Answered(rules', r)
       THEN /\ Goto(r, EffectiveRule(rules', r).decision)
            /\ verdict' = [verdict EXCEPT ![r] = EffectiveRule(rules', r).decision]
            /\ UNCHANGED queue
       ELSE /\ queue' = queue \cup {r}
            /\ Goto(r, "waiting")
            /\ UNCHANGED verdict
    /\ UNCHANGED <<results, deliveries, reviews, registry, disk, bounds>>

\* A waiter collects its result.
Collect(r) ==
    /\ results[r] # None
    /\ Goto(r, results[r])
    /\ results' = [results EXCEPT ![r] = None]

WaitUnchanged ==
    UNCHANGED <<rules, queue, deliveries, reviews, registry, disk, bounds, verdict>>

\* The asynchronous loop: register for the wakeup, ...
Enable(r) ==
    /\ r \in Hooks /\ asks[r] = "waiting"
    /\ Goto(r, "enabled")
    /\ UNCHANGED results /\ WaitUnchanged

\* ... look for a result, and park unless the wakeup came first.
Check(r) ==
    /\ r \in Hooks /\ asks[r] \in {"enabled", "notified"}
    /\ \/ Collect(r)
       \/ /\ results[r] = None
          /\ Goto(r, IF asks[r] = "enabled" THEN "parked" ELSE "waiting")
          /\ UNCHANGED results
    /\ WaitUnchanged

\* The blocking loop looks and parks under the results lock.
CheckOrPark(r) ==
    /\ r \notin Hooks /\ asks[r] = "waiting"
    /\ \/ Collect(r)
       \/ results[r] = None /\ Goto(r, "parked") /\ UNCHANGED results
    /\ WaitUnchanged

\* The deadline passes; a blocking waiter looks once more.
Timeout(r) ==
    /\ asks[r] = "parked"
    /\ \/ r \notin Hooks /\ Collect(r)
       \/ /\ r \in Hooks \/ results[r] = None
          /\ Goto(r, "expiring")
          /\ UNCHANGED results
    /\ WaitUnchanged

Took(r, d) == verdict' = [verdict EXCEPT ![r] = d]

\* Mutant of Expire: the request stays in the queue.
ExpireLeaving(r) ==
    /\ asks[r] = "expiring"
    /\ Goto(r, "deny") /\ Took(r, "deny")
    /\ UNCHANGED <<rules, queue, results, deliveries, reviews, registry, disk, bounds>>

\* expire: abandon the request, if nobody took it before, ...
Expire(r) ==
    /\ asks[r] = "expiring"
    /\ IF r \in queue
       THEN queue' = queue \ {r} /\ Goto(r, "deny") /\ Took(r, "deny")
       ELSE Goto(r, "late") /\ UNCHANGED <<queue, verdict>>
    /\ UNCHANGED <<rules, results, deliveries, reviews, registry, disk, bounds>>

\* Mutant of ExpireLate: no answer means consent.
ExpireLateOpen(r) ==
    /\ asks[r] = "late"
    /\ \/ Collect(r)
       \/ results[r] = None /\ Goto(r, "allow") /\ UNCHANGED results
    /\ WaitUnchanged

\* ... or take the answer that landed, if it was delivered already.
ExpireLate(r) ==
    /\ asks[r] = "late"
    /\ \/ Collect(r)
       \/ results[r] = None /\ Goto(r, "deny") /\ UNCHANGED results
    /\ WaitUnchanged

-----------------------------------------------------------------------------
(* Answers.                                                                *)

\* Take r and what the rules rs now answer out of the queue.
Take(r, d, rs) ==
    LET also == Cascaded(rs, queue \ {r})
        answer == [q \in Requests |-> IF q = r THEN d
                                      ELSE IF q \in also THEN EffectiveRule(rs, q).decision
                                      ELSE None] IN
    /\ queue' = queue \ ({r} \cup also)
    /\ verdict' = [q \in Requests |-> IF answer[q] = None THEN verdict[q] ELSE answer[q]]
    /\ deliveries' = deliveries \cup {[todo |-> answer, inserted |-> FALSE]}

\* The hook goes away: AsyncAsk is dropped, which cancels the request ...
HangUp(r) ==
    /\ r \in Hooks /\ asks[r] \in {"waiting", "enabled", "notified", "parked"}
    /\ IF r \in queue THEN Goto(r, "withdrawn") /\ Take(r, "deny", <<>>)
       ELSE Goto(r, "hungup") /\ UNCHANGED <<queue, verdict, deliveries>>
    /\ UNCHANGED <<rules, results, reviews, registry, disk, bounds>>

\* ... and, when its own cancellation is delivered, clears the decision.
HangUpClear(r) ==
    /\ \/ asks[r] = "hungup"
       \/ asks[r] = "withdrawn" /\ \A b \in deliveries : b.todo[r] = None
    /\ results' = [results EXCEPT ![r] = None]
    /\ Goto(r, "gone")
    /\ WaitUnchanged

\* The connection of a drive closes: its request is withdrawn, as a denial
\* that wakes the waiter.
Cancel(r) ==
    /\ r \in queue \ Hooks
    /\ Take(r, "deny", <<>>)
    /\ UNCHANGED <<rules, results, asks, reviews, registry, disk, bounds>>

\* A pattern is validated against the original action.
KeysFor(action) == {action} \cup {p \in Patterns : action \in Covers[p]}

\* rule_for_request.
Granted(r, k, d, durable, c) ==
    [key |-> k, action |-> ActionOf[r], decision |-> d, persist |-> durable, conn |-> c]

\* POST /permissions/{id} with scope once; an allowed one may stay under review.
ResolveOnce(r, d, review) ==
    /\ r \in queue
    /\ review => d = "allow"
    /\ Take(r, d, <<>>)
    /\ reviews' = IF review THEN reviews \cup {r} ELSE reviews
    /\ UNCHANGED <<rules, results, asks, registry, disk, bounds>>

\* Scope session or chat: a rule in memory.
ResolveForSession(r, d, k, chat) ==
    LET rs == Installed(rules, Granted(r, k, d, FALSE, IF chat THEN ConnOf[r] ELSE None)) IN
    /\ r \in queue /\ k \in KeysFor(ActionOf[r])
    /\ rules' = rs
    /\ Take(r, d, rs)
    /\ UNCHANGED <<results, asks, reviews, registry, disk, bounds>>

\* Mutant of Persist: the file is written later, if it can be.
PersistLater(rule) ==
    \/ WriteVault(Append(Without(rule.key), Stored(rule)))
    \/ ~Mutable /\ UNCHANGED disk

\* append_rule: a failed write refuses the whole operation; a missing file is
\* written anew, with this rule alone.
Persist(rule) == WriteVault(Append(Without(rule.key), Stored(rule)))

\* Scope always: the file first, then the live rule and the waiting requests.
ResolvePersisted(r, d, k) ==
    LET rule == Granted(r, k, d, TRUE, None)
        rs == Installed(rules, rule) IN
    /\ r \in queue /\ k \in KeysFor(ActionOf[r])
    /\ Persist(rule)
    /\ rules' = rs
    /\ Take(r, d, rs)
    /\ UNCHANGED <<results, asks, reviews, registry, bounds>>

\* POST /permissions/{id}/remember: the reviewed rule of an allowed request.
Remember(r, k) ==
    LET rule == Granted(r, k, "allow", TRUE, None)
        rs == Installed(rules, rule)
        also == Cascaded(rs, queue) IN
    /\ r \in reviews /\ k \in KeysFor(ActionOf[r])
    /\ Persist(rule)
    /\ rules' = rs
    /\ IF also = {} THEN UNCHANGED <<queue, verdict, deliveries>>
       ELSE \E q \in also : Take(q, EffectiveRule(rs, q).decision, rs)
    /\ reviews' = reviews \ {r}
    /\ UNCHANGED <<results, asks, registry, bounds>>

\* The second lock: the decisions of one answer are inserted together, ...
Insert(b) ==
    /\ b \in deliveries /\ ~b.inserted
    /\ results' = [r \in Requests |-> IF b.todo[r] = None THEN results[r] ELSE b.todo[r]]
    /\ deliveries' = (deliveries \ {b}) \cup {[b EXCEPT !.inserted = TRUE]}
    /\ UNCHANGED <<rules, queue, asks, reviews, registry, disk, bounds, verdict>>

\* notify_all and notify_waiters reach whoever sleeps or has registered.
Woken(r) == IF asks[r] = "parked" THEN "waiting"
            ELSE IF asks[r] = "enabled" THEN "notified"
            ELSE asks[r]

\* Mutant of Wake: nobody is woken.
WakeNobody(b) ==
    /\ b \in deliveries /\ b.inserted
    /\ deliveries' = deliveries \ {b}
    /\ UNCHANGED <<rules, queue, results, asks, reviews, registry, disk, bounds,
                   verdict>>

\* ... and then everyone is woken.
Wake(b) ==
    /\ b \in deliveries /\ b.inserted
    /\ asks' = [r \in Requests |-> Woken(r)]
    /\ deliveries' = deliveries \ {b}
    /\ UNCHANGED <<rules, queue, results, reviews, registry, disk, bounds, verdict>>

-----------------------------------------------------------------------------
(* Chats, Settings and the vault.                                          *)

\* Closing a chat forgets its rules.  The loop that then denies the requests
\* of the chat compares their project with the path of the checkout, which
\* none of a checkout's requests carries: they are left to Cancel and HangUp.
CloseChat(c) ==
    /\ \E i \in DOMAIN rules : rules[i].conn = c
    /\ rules' = Retain(rules, {i \in DOMAIN rules : rules[i].conn # c})
    /\ UNCHANGED <<queue, results, asks, deliveries, reviews, registry, disk, bounds, verdict>>

Edit ==
    /\ edits < MaxEdits /\ edits' = edits + 1
    /\ UNCHANGED <<queue, results, asks, deliveries, reviews, registry, outages, verdict>>

FirstOf(i) == \A j \in 1..(i-1) : ~SameSlot(rules[i], rules[j])

\* revoke_with_storage: the file first.  remove_rule writes it even when it
\* does not have the rule, which then stays in memory.
Revoke(i) ==
    /\ Edit /\ i \in DOMAIN rules /\ FirstOf(i)
    /\ IF rules[i].persist THEN WriteVault(Without(rules[i].key)) ELSE UNCHANGED disk
    /\ rules' = IF rules[i].persist /\ ~VaultHas(rules[i].key) THEN rules
                ELSE RemoveAt(rules, i)

\* update_decision: in place, in the file and in memory.
UpdateDecision(i, d) ==
    /\ Edit /\ i \in DOMAIN rules /\ FirstOf(i)
    /\ IF rules[i].persist
       THEN /\ VaultHas(rules[i].key)
            /\ WriteVault([j \in DOMAIN vault |->
                             IF vault[j].key = rules[i].key
                             THEN [vault[j] EXCEPT !.decision = d] ELSE vault[j]])
       ELSE UNCHANGED disk
    /\ rules' = [rules EXCEPT ![i].decision = d]

\* update_scope: a project rule becomes durable or temporary.
UpdateScope(i, durable) ==
    /\ Edit /\ i \in DOMAIN rules /\ FirstOf(i)
    /\ rules[i].conn = None /\ rules[i].persist # durable
    /\ IF durable THEN Persist(rules[i]) ELSE WriteVault(Without(rules[i].key))
    /\ rules' = IF ~durable /\ ~VaultHas(rules[i].key) THEN rules
                ELSE [rules EXCEPT ![i].persist = durable]

\* update_pattern: another matcher for the reviewed action, in a free slot.
UpdatePattern(i, k) ==
    /\ Edit /\ i \in DOMAIN rules /\ FirstOf(i)
    /\ k \in KeysFor(rules[i].action)
    /\ \A j \in DOMAIN rules \ {i} : ~SameSlot(rules[j], [rules[i] EXCEPT !.key = k])
    /\ IF rules[i].persist
       THEN /\ VaultHas(rules[i].key)
            /\ WriteVault(Deduped([j \in DOMAIN vault |->
                                     IF vault[j].key = rules[i].key
                                     THEN [vault[j] EXCEPT !.key = k] ELSE vault[j]]))
       ELSE UNCHANGED disk
    /\ rules' = [rules EXCEPT ![i].key = k]

\* GET /permissions/rules registers every checkout again.
ListLoad == Load(None) /\ UNCHANGED asks
ListInstall == Install(None) /\ UNCHANGED asks

\* The key is refused or the file is gone; later it is restored as it was.
VaultFails ==
    /\ vaultState = "ok" /\ vaultState' \in {"locked", "missing"}
    /\ outages < MaxOutages /\ outages' = outages + 1
    /\ UNCHANGED <<bridge, registry, vault, edits, verdict>>

VaultRestored ==
    /\ vaultState # "ok" /\ vaultState' = "ok"
    /\ UNCHANGED <<bridge, registry, vault, bounds, verdict>>

\* The server restarts: what is in memory is gone, and so are the askers.
Restart ==
    /\ outages < MaxOutages /\ outages' = outages + 1
    /\ rules' = <<>> /\ queue' = {} /\ deliveries' = {} /\ reviews' = {}
    /\ results' = [r \in Requests |-> None]
    /\ asks' = [r \in Requests |-> IF asks[r] \in Ended \cup {"new"} THEN asks[r] ELSE "gone"]
    /\ loads' = [x \in Requests \cup {None} |-> NoLoad] /\ known' = FALSE
    /\ UNCHANGED <<disk, edits, verdict>>

-----------------------------------------------------------------------------
Waiter(r) ==
    \/ Enqueue(r) \/ Enable(r) \/ Check(r) \/ CheckOrPark(r)
    \/ Expire(r) \/ ExpireLate(r) \/ HangUpClear(r)

Deliver == \E b \in deliveries : Insert(b) \/ Wake(b)

Human ==
    \/ \E r \in queue, d \in Decisions :
          \/ \E review \in BOOLEAN : ResolveOnce(r, d, review)
          \/ \E k \in Keys : \/ ResolvePersisted(r, d, k)
                             \/ \E chat \in BOOLEAN : ResolveForSession(r, d, k, chat)
    \/ \E r \in reviews, k \in Keys : Remember(r, k)
    \/ \E c \in Conns : CloseChat(c)
    \/ \E i \in DOMAIN rules :
          \/ Revoke(i)
          \/ \E d \in Decisions \ {rules[i].decision} : UpdateDecision(i, d)
          \/ \E durable \in BOOLEAN : UpdateScope(i, durable)
          \/ \E k \in Keys \ {rules[i].key} : UpdatePattern(i, k)
    \/ ListLoad \/ ListInstall

Next ==
    \/ \E r \in Requests : Waiter(r) \/ AskLoad(r) \/ AskInstall(r) \/ Timeout(r) \/ HangUp(r) \/ Cancel(r)
    \/ Deliver
    \/ Human
    \/ VaultFails \/ VaultRestored \/ Restart

Spec == Init /\ [][Next]_vars

-----------------------------------------------------------------------------
\* Every variable keeps its type.
TypeOK ==
    /\ rules \in Seq(RuleType) /\ vault \in Seq(StoredType)
    /\ queue \subseteq Requests /\ reviews \subseteq Requests
    /\ results \in [Requests -> Decisions \cup {None}]
    /\ verdict \in [Requests -> Decisions \cup {None}]
    /\ asks \in [Requests -> Places]
    /\ deliveries \subseteq DeliveryType
    /\ loads \in [Requests \cup {None} -> LoadType] /\ known \in BOOLEAN
    /\ vaultState \in {"ok", "locked", "missing"}
    /\ edits \in 0..MaxEdits /\ outages \in 0..MaxOutages

\* An ask is allowed only if whoever took its request out of the queue, or
\* the rule that answered it, allowed it: no race of an answer with a
\* timeout, a hang-up, a closed connection or a cascade turns a denial, or
\* silence, into an allowance.
FailClosed == \A r \in Requests : asks[r] = "allow" => verdict[r] = "allow"

\* A request is answered once: a verdict never changes, whatever the order
\* in which answers, timeouts, cancellations and cascades reach the queue.
AnsweredOnce ==
    [][\A r \in Requests : verdict[r] # None => verdict'[r] = verdict[r]]_vars

\* The keys of the durable rules in force that the file does not have, or has
\* with another decision.
Unstored ==
    {rules[i].key : i \in {n \in DOMAIN rules :
        rules[n].persist /\ \A j \in DOMAIN vault : Stored(rules[n]) # vault[j]}}

\* Two rules of one slot in memory: an answer for the session given while the
\* vault was away meets the durable rule at the next registration.  An edit
\* finds only the first of the two.
Doubled(k) ==
    \E i, j \in DOMAIN rules : i # j /\ rules[i].key = k /\ SameSlot(rules[i], rules[j])

\* The file has a rule that memory does not, and an edit writes another of its
\* key.
Shadowed(k) == VaultHas(k) /\ \A i \in DOMAIN rules : rules[i].persist => rules[i].key # k

InstallsLoad(x) == loads[x].at = "loaded" /\ loads'[x].at = "idle" /\ known'
InstallsStale == \E x \in DOMAIN loads : InstallsLoad(x) /\ loads[x].stored # vault
InstallsFresh == \E x \in DOMAIN loads : InstallsLoad(x) /\ loads[x].stored = vault
RecreatesVault == vaultState = "missing" /\ vaultState' = "ok" /\ vault' # vault

\* The durable rules in force are rules of the file with the same decision,
\* through answers, edits, outages and restarts: a grant that could not be
\* written is not in force, and one revoked in the file is not in memory.  Once
\* they agree, only four things part them: a registration installs a list
\* that the file no longer has, a missing file is written anew, and an edit
\* meets a rule that is doubled or shadowed.  Installing a load of the file as
\* it is makes them agree again.
DurableRulesStored ==
    [][/\ Unstored = {} =>
             \A k \in Unstored' : InstallsStale \/ RecreatesVault \/ Doubled(k) \/ Shadowed(k)
       /\ InstallsFresh => Unstored' = {}]_vars

\* A decision in reach of a sleeping ask always has a wakeup under way, so
\* the ask does not sleep until its timeout (a day): nothing is lost between
\* the check and the sleep, nor when one answer delivers to several asks.
NoLostWakeup ==
    \A r \in Requests :
        (results[r] # None /\ asks[r] = "parked")
        => \E b \in deliveries : b.inserted /\ b.todo[r] # None
=============================================================================
