---------------------------- MODULE TicketMerge ----------------------------
(***************************************************************************)
(* The semantic three-way merge of ticket files (hotsheet-ticketing's      *)
(* merge.rs and the merge driver of hotsheet-cli), composed with the       *)
(* operations of TicketClaims: clones of one store revise the same ticket, *)
(* each by the rules of ops.rs, and a sync replays a clone's commits, one  *)
(* by one, onto what the others published.                                 *)
(*                                                                         *)
(* A ticket is the fields TicketClaims keeps (its history is empty here:   *)
(* what an operation appends to it goes to the set of events), its notes   *)
(* and claim events, which are known by the stamp that created them, its   *)
(* tags, its paragraphs, and updated_at.  Stamps are ordered as their text *)
(* is, and the clocks of two clones need not agree.                        *)
(***************************************************************************)
EXTENDS Integers, Sequences, FiniteSets, SequencesExt

CONSTANTS
    Clones,
    Workers, NoWorker,
    OpenPatches,   \* the patches callers pass to update
    OldTags,       \* the tags of the ticket at first
    Paragraphs,    \* the paragraphs of its body
    MaxStamp,      \* bound on the clocks
    MaxOps         \* bound on the commits of a clone between two syncs

Ops == INSTANCE TicketClaims WITH
    Tickets <- {1}, Editors <- {}, Guarders <- {}, Reviewers <- {}, Leases <- {1},
    Patches <- OpenPatches, NewStatuses <- {"not_started"}, MaxTime <- MaxStamp,
    MaxHistory <- 2, clock <- 0, ticket <- <<>>, restoring <- {}, guards <- {}, reviews <- {}

ASSUME MergeAssumption ==
    /\ NoWorker \notin Workers
    /\ \A p \in OpenPatches : p \in Ops!PatchType /\ p.status # "deleted"
    /\ MaxStamp \in Nat /\ MaxOps \in Nat

VARIABLES
    origin,  \* the ticket at origin
    base,    \* per clone: the ticket as of its last sync
    local,   \* per clone: the commits since then
    clock    \* per clone: the stamp of its last operation

mergeVars == <<origin, base, local, clock>>

Stamps == Clones \X (1..MaxStamp)
TicketType == [fields : Ops!TicketType, events : SUBSET Stamps, notes : SUBSET Stamps,
               tags : SUBSET OldTags, body : [Paragraphs -> {<<>>} \cup Stamps],
               updated : 0..MaxStamp]

Tip(c) == IF local[c] = <<>> THEN base[c] ELSE Last(local[c])

-----------------------------------------------------------------------------
(* merge_tickets.                                                          *)

\* Mutant of OursWins: the upstream always wins.
OursWinsAlways(ours, theirs) == TRUE

OursWins(ours, theirs) == ours.updated >= theirs.updated

\* Mutant of Pick3: the newer side wins, changed or not.
Pick3Newest(old, ours, theirs, oursWin) == IF oursWin THEN ours ELSE theirs

Pick3(old, ours, theirs, oursWin) ==
    IF ours = theirs \/ theirs = old THEN ours
    ELSE IF ours = old THEN theirs
    ELSE IF oursWin THEN ours ELSE theirs

Union3(old, ours, theirs) == (ours \cup theirs) \ ((old \ ours) \cup (old \ theirs))

\* Mutant of MergeNotes: a note only one side has counts as deleted.
MergeNotesShared(ours, theirs) == ours \cap theirs

\* Notes and claim events are united by id.
MergeNotes(ours, theirs) == ours \cup theirs

\* Scalars, one by one; a phase needs a started ticket.
MergeFields(old, ours, theirs, oursWin) ==
    LET picked == [f \in DOMAIN old |-> Pick3(old[f], ours[f], theirs[f], oursWin)]
    IN  [picked EXCEPT !.phase = IF picked.status = "started" THEN @ ELSE "none"]

\* merge_body, with the text merge the driver runs when both sides changed it.
BodyConflict(old, ours, theirs) ==
    \E p \in Paragraphs : ours[p] # old[p] /\ theirs[p] # old[p] /\ ours[p] # theirs[p]

MergeBody(old, ours, theirs) ==
    [p \in Paragraphs |-> IF ours[p] = old[p] THEN theirs[p] ELSE ours[p]]

MergedUpdated(ours, theirs, oursWin) == IF oursWin THEN ours.updated ELSE theirs.updated

Merge(old, ours, theirs) ==
    LET oursWin == OursWins(ours, theirs) IN
    [fields |-> MergeFields(old.fields, ours.fields, theirs.fields, oursWin),
     events |-> old.events \cup MergeNotes(ours.events, theirs.events),
     notes |-> MergeNotes(ours.notes, theirs.notes),
     tags |-> Union3(old.tags, ours.tags, theirs.tags),
     body |-> MergeBody(old.body, ours.body, theirs.body),
     updated |-> MergedUpdated(ours, theirs, oursWin)]

\* One commit is merged onto what precedes it, with its parent as the base;
\* where the upstream equals that parent there is no merge.
Replayed(done, k) ==
    [parent |-> k,
     onto |-> IF done.onto = done.parent THEN k ELSE Merge(done.parent, done.onto, k),
     clean |-> done.clean /\ ~BodyConflict(done.parent.body, done.onto.body, k.body)]

\* git rebase: the commits are replayed one by one.
Rebased(start, upstream, commits) ==
    LET replay[i \in 0..Len(commits)] ==
            IF i = 0 THEN [parent |-> start, onto |-> upstream, clean |-> TRUE]
            ELSE Replayed(replay[i-1], commits[i])
    IN  replay[Len(commits)]

-----------------------------------------------------------------------------
New == [fields |-> Ops!NewTicket("not_started", FALSE), events |-> {}, notes |-> {},
        tags |-> OldTags, body |-> [p \in Paragraphs |-> <<>>], updated |-> 0]

MergeInit ==
    /\ origin = New
    /\ base = [c \in Clones |-> New]
    /\ local = [c \in Clones |-> <<>>]
    /\ clock = [c \in Clones |-> 0]

\* An operation of a clone: one transaction and one commit.
Record(c, now, k) ==
    /\ clock[c] < now /\ Len(local[c]) < MaxOps
    /\ clock' = [clock EXCEPT ![c] = now]
    /\ local' = [local EXCEPT ![c] = Append(@, k)]
    /\ UNCHANGED <<origin, base>>

\* What the operation recorded in the history becomes an event; Up Next
\* alone does not move updated_at.
Revise(c, now, fields) ==
    LET k == Tip(c) IN
    /\ fields # k.fields
    /\ Record(c, now, [k EXCEPT
          !.fields = [fields EXCEPT !.history = <<>>],
          !.events = IF fields.history = <<>> THEN @ ELSE @ \cup {<<c, now>>},
          !.updated = IF Ops!Substantive(k.fields, fields) THEN now ELSE @])

Claim(c, w, now) ==
    LET k == Tip(c).fields IN
    /\ k.status \in Ops!Open
    /\ Ops!ClaimAvailable(k, now) \/ k.claimedBy = w
    /\ Revise(c, now, Ops!StartClaimed(IF Ops!ClaimAvailable(k, now)
                                       THEN Ops!Acquired(k, w, now + 1)
                                       ELSE Ops!Reclaimed(k, w, now + 1, FALSE)))

Release(c, now) ==
    /\ Tip(c).fields.claimedBy # NoWorker
    /\ Revise(c, now, Ops!EndClaim(Tip(c).fields))

Update(c, p, now) == Revise(c, now, Ops!Patched(Tip(c).fields, p))

Close(c, now) == Revise(c, now, Ops!Closed(Tip(c).fields))

AddNote(c, now) == Record(c, now, [Tip(c) EXCEPT !.notes = @ \cup {<<c, now>>}, !.updated = now])

RemoveTag(c, t, now) ==
    /\ t \in Tip(c).tags
    /\ Record(c, now, [Tip(c) EXCEPT !.tags = @ \ {t}, !.updated = now])

EditBody(c, p, now) == Record(c, now, [Tip(c) EXCEPT !.body[p] = <<c, now>>, !.updated = now])

\* One sync cycle; a body conflict aborts it.
Sync(c) ==
    LET replayed == Rebased(base[c], origin, local[c]) IN
    /\ local[c] # <<>> \/ base[c] # origin
    /\ replayed.clean
    /\ origin' = replayed.onto
    /\ base' = [base EXCEPT ![c] = replayed.onto]
    /\ local' = [local EXCEPT ![c] = <<>>]
    /\ UNCHANGED clock

MergeNext ==
    \E c \in Clones :
        \/ Sync(c)
        \/ \E now \in 1..MaxStamp :
            \/ \E w \in Workers : Claim(c, w, now)
            \/ \E p \in OpenPatches : Update(c, p, now)
            \/ Release(c, now) \/ Close(c, now) \/ AddNote(c, now)
            \/ \E t \in OldTags : RemoveTag(c, t, now)
            \/ \E p \in Paragraphs : EditBody(c, p, now)

MergeSpec == MergeInit /\ [][MergeNext]_mergeVars

-----------------------------------------------------------------------------
\* Every variable keeps its type.
MergeTypeOK ==
    /\ origin \in TicketType
    /\ base \in [Clones -> TicketType]
    /\ local \in [Clones -> Seq(TicketType)] /\ \A c \in Clones : Len(local[c]) <= MaxOps
    /\ clock \in [Clones -> 0..MaxStamp]

\* Who syncs first does not matter: two clones with one commit each get the
\* same ticket in either order, unless their stamps are equal or their bodies
\* conflict.
MergeCommutes ==
    \A c, d \in Clones :
        /\ base[c] = base[d] /\ Len(local[c]) = 1 /\ Len(local[d]) = 1
        /\ Tip(c).updated # Tip(d).updated /\ Rebased(base[c], Tip(d), local[c]).clean
        => Rebased(base[c], Tip(d), local[c]).onto = Rebased(base[c], Tip(c), local[d]).onto

\* No sync makes a clone forget a note or a claim event that it had, and none
\* brings back a tag that was removed.
NothingForgotten ==
    [][\A c \in Clones : /\ Tip(c).notes \subseteq Tip(c)'.notes
                         /\ Tip(c).events \subseteq Tip(c)'.events
                         /\ Tip(c)'.tags \subseteq Tip(c).tags]_mergeVars

\* A field that no other clone touched since the last sync ends with the
\* value this clone gave it, however many commits are replayed and whatever
\* the clocks say.
UncontestedKept ==
    [][\A c \in Clones : (local[c] # <<>> /\ local'[c] = <<>>) =>
          \A f \in DOMAIN New.fields \ {"phase"} :
              origin.fields[f] = base[c].fields[f] =>
                  origin'.fields[f] = Tip(c).fields[f]]_mergeVars
=============================================================================
