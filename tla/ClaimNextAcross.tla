--------------------------- MODULE ClaimNextAcross ---------------------------
(***************************************************************************)
(* claim_next_across_with_eta of ops.rs: one worker selects the next ticket*)
(* over several stores.  Every store has a lock of its own, so the merged  *)
(* queue is never read atomically: the stores are peeked one after the     *)
(* other, without a lock, and the selected ticket is claimed in a          *)
(* transaction of its store that checks it again.  Other processes claim,  *)
(* release and edit tickets between any two of these steps.                *)
(***************************************************************************)
EXTENDS Integers, FiniteSets

CONSTANTS
    Stores,     \* number of stores; 1 is the default source
    Tickets,    \* ticket ids, ordered by creation like ULIDs
    Home,       \* the store of a ticket
    Priority,   \* the priority rank of a ticket, 0 the highest
    Workers,    \* the workers that call claim-next
    Others,     \* workers that claim exact tickets
    NoWorker,   \* an unset claimed_by
    Attempts    \* CLAIM_NEXT_ACROSS_ATTEMPTS

ASSUME AcrossAssumption ==
    /\ Stores \in Nat \ {0} /\ Attempts \in Nat \ {0}
    /\ Tickets \subseteq Nat \ {0} /\ IsFiniteSet(Tickets)
    /\ Home \in [Tickets -> 1..Stores]
    /\ Priority \in [Tickets -> Nat]
    /\ NoWorker \notin Workers \cup Others

VARIABLES
    holder,   \* the live claim of a ticket
    ready,    \* open, unblocked and not in final testing
    upNext,   \* the Up Next mark
    call,     \* the progress of a worker's call
    steady    \* history: tickets eligible under one key since the call began

vars == <<holder, ready, upNext, call, steady>>

None == 0

CallType == [at : {"idle", "peek", "claim", "fallback", "done"},
             store : 1..Stores, best : Tickets \cup {None}, mark : BOOLEAN,
             tries : 0..Attempts, got : Tickets \cup {None}]

Idle == [at |-> "idle", store |-> 1, best |-> None, mark |-> FALSE,
         tries |-> 0, got |-> None]

Eligible(t) == ready[t] /\ holder[t] = NoWorker

\* claim_next_order of two copies: Up Next first, then priority, then creation
\* order.  A copy carries the Up Next mark it was read with.
Precedes(a, markA, b, markB) ==
    \/ markA /\ ~markB
    \/ /\ markA = markB
       /\ \/ Priority[a] < Priority[b]
          \/ Priority[a] = Priority[b] /\ a < b

Before(a, b) == Precedes(a, upNext[a], b, upNext[b])

\* peek_claim_next: the first eligible ticket of a store, if there is one.
Peek(s) ==
    LET queue == {t \in Tickets : Home[t] = s /\ Eligible(t)} IN
    IF queue = {} THEN None
    ELSE CHOOSE t \in queue : \A u \in queue \ {t} : Before(t, u)

-----------------------------------------------------------------------------
Init ==
    /\ holder = [t \in Tickets |-> NoWorker]
    /\ ready \in [Tickets -> BOOLEAN]
    /\ upNext = [t \in Tickets |-> FALSE]
    /\ call = [w \in Workers |-> Idle]
    /\ steady = [w \in Workers |-> {}]

Running(w) == call[w].at \in {"peek", "claim", "fallback"}

\* Ticket t is claimed, released or edited: it is not steady for any call.
Disturb(t) ==
    steady' = [w \in Workers |-> IF Running(w) THEN steady[w] \ {t} ELSE steady[w]]

\* The call begins; with one store it is that store's atomic claim-next.
Begin(w) ==
    /\ call[w].at = "idle"
    /\ call' = [call EXCEPT ![w] =
                  [Idle EXCEPT !.at = IF Stores = 1 THEN "fallback" ELSE "peek"]]
    /\ steady' = [steady EXCEPT ![w] = {t \in Tickets : Eligible(t)}]
    /\ UNCHANGED <<holder, ready, upNext>>

\* One turn of the scan, which leaves best as the candidate so far.
Scanned(w, best, mark) ==
    LET c == call[w] IN
    /\ c.at = "peek"
    /\ call' = [call EXCEPT ![w] =
          IF c.store < Stores
          THEN [c EXCEPT !.store = c.store + 1, !.best = best, !.mark = mark]
          ELSE IF best = None THEN [c EXCEPT !.at = "done"]
          ELSE [c EXCEPT !.at = "claim", !.best = best, !.mark = mark]]
    /\ UNCHANGED <<holder, ready, upNext, steady>>

\* Mutant of PeekStore: the best candidate is compared by its present mark.
PeekStoreReread(w) ==
    LET c == call[w]
        found == Peek(c.store)
        better == found # None /\ (c.best = None \/ Before(found, c.best))
    IN  IF better THEN Scanned(w, found, upNext[found]) ELSE Scanned(w, c.best, c.mark)

\* A strictly better candidate replaces the copy of the best one so far.
PeekStore(w) ==
    LET c == call[w]
        found == Peek(c.store)
        better == /\ found # None
                  /\ c.best = None \/ Precedes(found, upNext[found], c.best, c.mark)
    IN  IF better THEN Scanned(w, found, upNext[found]) ELSE Scanned(w, c.best, c.mark)

Take(w, t) ==
    /\ holder' = [holder EXCEPT ![t] = w]
    /\ call' = [call EXCEPT ![w].at = "done", ![w].got = t]
    /\ Disturb(t)

\* Mutants of ClaimCandidate: no second check; a lost race ends the call; lost
\* races are not counted.
ClaimCandidateUnchecked(w) ==
    /\ call[w].at = "claim"
    /\ Take(w, call[w].best)
    /\ UNCHANGED <<ready, upNext>>

Retried(w, next) ==
    LET c == call[w] IN
    /\ c.at = "claim"
    /\ IF Eligible(c.best) THEN Take(w, c.best)
       ELSE call' = [call EXCEPT ![w] = next] /\ UNCHANGED <<holder, steady>>
    /\ UNCHANGED <<ready, upNext>>

ClaimCandidateOnce(w) == Retried(w, [Idle EXCEPT !.at = "done"])

ClaimCandidateUncounted(w) == Retried(w, [Idle EXCEPT !.at = "peek"])

\* claim_next_candidate: claim the selection only while it is still eligible,
\* else select again, and after the last attempt fall back.
ClaimCandidate(w) ==
    LET c == call[w] IN
    /\ c.at = "claim"
    /\ IF Eligible(c.best) THEN Take(w, c.best)
       ELSE /\ call' = [call EXCEPT ![w] =
                  [Idle EXCEPT !.at = IF c.tries + 1 < Attempts THEN "peek" ELSE "fallback",
                               !.tries = c.tries + 1]]
            /\ UNCHANGED <<holder, steady>>
    /\ UNCHANGED <<ready, upNext>>

\* Sustained contention: the atomic claim-next of one store after the other.
Fallback(w) ==
    LET c == call[w]
        found == Peek(c.store) IN
    /\ c.at = "fallback"
    /\ IF found # None THEN Take(w, found)
       ELSE /\ call' = [call EXCEPT ![w] =
                  IF c.store < Stores THEN [c EXCEPT !.store = c.store + 1]
                  ELSE [c EXCEPT !.at = "done"]]
            /\ UNCHANGED <<holder, steady>>
    /\ UNCHANGED <<ready, upNext>>

\* The caller takes the answer and may call again.
Return(w) ==
    /\ call[w].at = "done"
    /\ call' = [call EXCEPT ![w] = Idle]
    /\ steady' = [steady EXCEPT ![w] = {}]
    /\ UNCHANGED <<holder, ready, upNext>>

\* Other processes: an exact claim, which a blocked ticket does not refuse, a
\* release or lapse, an edit.  (A ticket that is closed would refuse it; `ready`
\* does not tell the two apart, and the claim of one is harmless here.)
ClaimExact(o, t) ==
    /\ holder[t] = NoWorker
    /\ holder' = [holder EXCEPT ![t] = o]
    /\ Disturb(t)
    /\ UNCHANGED <<ready, upNext, call>>

Release(t) ==
    /\ holder[t] # NoWorker
    /\ holder' = [holder EXCEPT ![t] = NoWorker]
    /\ UNCHANGED <<ready, upNext, call, steady>>

EditReady(t) ==
    /\ ready' = [ready EXCEPT ![t] = ~@]
    /\ Disturb(t)
    /\ UNCHANGED <<holder, upNext, call>>

EditUpNext(t) ==
    /\ upNext' = [upNext EXCEPT ![t] = ~@]
    /\ Disturb(t)
    /\ UNCHANGED <<holder, ready, call>>

Step(w) == PeekStore(w) \/ ClaimCandidate(w) \/ Fallback(w)

Next ==
    \/ \E w \in Workers : Begin(w) \/ Step(w) \/ Return(w)
    \/ \E o \in Others, t \in Tickets : ClaimExact(o, t)
    \/ \E t \in Tickets : Release(t) \/ EditReady(t) \/ EditUpNext(t)

\* A call in progress runs to its end: nothing in it waits for another party.
Fairness == \A w \in Workers : WF_vars(Step(w))

Spec == Init /\ [][Next]_vars /\ Fairness

-----------------------------------------------------------------------------
\* Every variable keeps its type.
TypeOK ==
    /\ holder \in [Tickets -> Workers \cup Others \cup {NoWorker}]
    /\ ready \in [Tickets -> BOOLEAN]
    /\ upNext \in [Tickets -> BOOLEAN]
    /\ call \in [Workers -> CallType]
    /\ steady \in [Workers -> SUBSET Tickets]

\* A call that comes back empty missed nothing: no ticket of any store was
\* eligible and untouched from its beginning to its end, however many races
\* it lost.
EmptyAnswerHonest ==
    \A w \in Workers :
        call[w].at = "done" /\ call[w].got = None => steady[w] = {}

\* The merged order: a selected ticket that nobody touched precedes every
\* ticket that was eligible all along, in whichever store.
MergedOrder ==
    [][\A w \in Workers :
          LET t == call[w].best IN
          (call[w].at = "claim" /\ call'[w].at = "done" /\ t \in steady[w])
          => \A u \in steady[w] \ {t} : Before(t, u)]_vars

\* Racing workers never receive the same ticket: a held ticket does not
\* change hands without being released.
NeverDisplaced ==
    [][\A t \in Tickets :
          holder[t] # NoWorker => holder'[t] \in {holder[t], NoWorker}]_vars

\* Contention cannot keep a call selecting for ever.
CallEnds == \A w \in Workers : Running(w) ~> ~Running(w)
=============================================================================
