--------------------------- MODULE TicketTransfer ---------------------------
(***************************************************************************)
(* Moving one ticket (one ULID) between stores: ops::move_ticket under     *)
(* FsStore::with_store_pair_transaction.  A move holds the mutation locks  *)
(* of both stores, reads the ticket of the source, writes it and its       *)
(* attachments to the destination, leaves a tombstone in the source and    *)
(* drops the source's attachments.  Edits hold one lock.  The lock is a    *)
(* lock on a file that the system releases when its process dies, so a     *)
(* crash (and an I/O error, which returns early) frees the locks and       *)
(* leaves the files as they are.                                           *)
(***************************************************************************)
EXTENDS Integers, FiniteSets

CONSTANTS
    Stores,     \* the stores, ordered by canonical path
    Procs,      \* the processes that edit and move
    Routes,     \* the <<source, destination>> pairs callers ask for
    Crashes,    \* bound on the crashes of a behaviour
    MaxEdits    \* bound on the edits of a behaviour

Free == "free"   \* nobody holds the lock

ASSUME TransferAssumption ==
    /\ Stores \subseteq Nat /\ Routes # {} /\ Free \notin Procs
    /\ Routes \subseteq Stores \X Stores
    /\ Crashes \in Nat /\ MaxEdits \in Nat

VARIABLES
    file,      \* the ticket file of each store
    attached,  \* whether a store has the ticket's attachments
    lock,      \* the process that holds a store's mutation lock
    proc,      \* what each process is doing
    begun,     \* the number of edits begun, which names them
    crashes    \* the crashes so far

vars == <<file, attached, lock, proc, begun, crashes>>

Edits == 1..MaxEdits

\* The edits a ticket file contains; a moved file is a tombstone.
FileType == [state : {"absent", "live", "moved"}, edits : SUBSET Edits]

Absent == [state |-> "absent", edits |-> {}]
Original == [state |-> "live", edits |-> {}]

Idle == [at |-> "idle"]

\* The paired transaction takes the locks in path order, a store paired with
\* itself takes one; an edit takes the lock of its store.
LockOrder(src, dest) ==
    IF src = dest THEN <<src>>
    ELSE IF src < dest THEN <<src, dest>> ELSE <<dest, src>>

-----------------------------------------------------------------------------
Init ==
    /\ \E r \in Routes :
          /\ file = [s \in Stores |-> IF s = r[1] THEN Original ELSE Absent]
          /\ attached = [s \in Stores |-> s = r[1]]
    /\ lock = [s \in Stores |-> Free]
    /\ proc = [p \in Procs |-> Idle]
    /\ begun = 0
    /\ crashes = 0

BeginMove(p, src, dest) ==
    /\ proc[p].at = "idle"
    /\ proc' = [proc EXCEPT ![p] =
          [at |-> "locking", edit |-> 0, src |-> src, dest |-> dest,
           wants |-> LockOrder(src, dest), read |-> Absent]]
    /\ UNCHANGED <<file, attached, lock, begun, crashes>>

\* Mutant of BeginEdit: an edit outside the transaction.
BeginEditUnlocked(p, s) ==
    /\ proc[p].at = "idle"
    /\ begun < MaxEdits
    /\ begun' = begun + 1
    /\ proc' = [proc EXCEPT ![p] =
          [at |-> "read", edit |-> begun + 1, src |-> s, dest |-> s,
           wants |-> <<>>, read |-> Absent]]
    /\ UNCHANGED <<file, attached, lock, crashes>>

\* Any operation that revises the ticket; WriteEdit has what it writes.
BeginEdit(p, s) ==
    /\ proc[p].at = "idle"
    /\ begun < MaxEdits
    /\ begun' = begun + 1
    /\ proc' = [proc EXCEPT ![p] =
          [at |-> "locking", edit |-> begun + 1, src |-> s, dest |-> s,
           wants |-> LockOrder(s, s), read |-> Absent]]
    /\ UNCHANGED <<file, attached, lock, crashes>>

\* with_ticket_transaction: wait for the lock of the next store.
Acquire(p) ==
    LET x == proc[p] IN
    /\ x.at = "locking"
    /\ lock[x.wants[1]] = Free
    /\ lock' = [lock EXCEPT ![x.wants[1]] = p]
    /\ proc' = [proc EXCEPT ![p] =
          IF x.wants = <<x.wants[1]>> THEN [x EXCEPT !.at = "read"]
          ELSE [x EXCEPT !.wants = <<x.wants[2]>>]]
    /\ UNCHANGED <<file, attached, begun, crashes>>

Finish(p) ==
    /\ lock' = [s \in Stores |-> IF lock[s] = p THEN Free ELSE lock[s]]
    /\ proc' = [proc EXCEPT ![p] = Idle]

\* Mutant of Read: without a file the operation starts over.
ReadRetries(p) ==
    LET x == proc[p] IN
    /\ x.at = "read"
    /\ lock' = [s \in Stores |-> IF lock[s] = p THEN Free ELSE lock[s]]
    /\ proc' = [proc EXCEPT ![p] =
          IF file[x.src].state = "absent"
          THEN [x EXCEPT !.at = "locking", !.wants = LockOrder(x.src, x.dest)]
          ELSE Idle]
    /\ UNCHANGED <<file, attached, begun, crashes>>

\* Read the source's file; without one the operation fails.
Read(p) ==
    LET x == proc[p] IN
    /\ x.at = "read"
    /\ IF file[x.src].state = "absent" THEN Finish(p)
       ELSE /\ proc' = [proc EXCEPT ![p] =
                  [x EXCEPT !.read = file[x.src],
                            !.at = IF x.edit # 0 THEN "edit" ELSE "dest"]]
            /\ UNCHANGED lock
    /\ UNCHANGED <<file, attached, begun, crashes>>

\* update applies whatever status the patch has, to a tombstone too: the edit
\* may keep the status, revive a tombstone or make one by hand.
WriteEdit(p) ==
    LET x == proc[p] IN
    /\ x.at = "edit"
    /\ \E st \in {"live", "moved"} :
          file' = [file EXCEPT ![x.src] =
                     [state |-> st, edits |-> x.read.edits \cup {x.edit}]]
    /\ Finish(p)
    /\ UNCHANGED <<attached, begun, crashes>>

\* Mutant of WriteDest: the attachments are not copied.
WriteDestOnly(p) ==
    LET x == proc[p] IN
    /\ x.at = "dest"
    /\ file' = [file EXCEPT ![x.dest] = x.read]
    /\ proc' = [proc EXCEPT ![p].at = "source"]
    /\ UNCHANGED <<attached, lock, begun, crashes>>

\* The destination gets the ticket as it was read, a tombstone included.
WriteDest(p) ==
    LET x == proc[p] IN
    /\ x.at = "dest"
    /\ file' = [file EXCEPT ![x.dest] = x.read]
    /\ proc' = [proc EXCEPT ![p].at = "copy"]
    /\ UNCHANGED <<attached, lock, begun, crashes>>

\* Without attachments in the source there is nothing to copy.
CopyAttachments(p) ==
    LET x == proc[p] IN
    /\ x.at = "copy"
    /\ attached' = [attached EXCEPT ![x.dest] = @ \/ attached[x.src]]
    /\ proc' = [proc EXCEPT ![p].at = "source"]
    /\ UNCHANGED <<file, lock, begun, crashes>>

\* The source becomes a tombstone: status moved, whatever it was.
WriteTombstone(p) ==
    LET x == proc[p] IN
    /\ x.at = "source"
    /\ file' = [file EXCEPT ![x.src] =
                  [x.read EXCEPT !.state = "moved"]]
    /\ proc' = [proc EXCEPT ![p].at = "drop"]
    /\ UNCHANGED <<attached, lock, begun, crashes>>

DropAttachments(p) ==
    /\ proc[p].at = "drop"
    /\ attached' = [attached EXCEPT ![proc[p].src] = FALSE]
    /\ Finish(p)
    /\ UNCHANGED <<file, begun, crashes>>

Crash(p) ==
    /\ proc[p].at # "idle"
    /\ crashes < Crashes
    /\ crashes' = crashes + 1
    /\ Finish(p)
    /\ UNCHANGED <<file, attached, begun>>

Step(p) ==
    \/ Acquire(p) \/ Read(p) \/ WriteEdit(p)
    \/ WriteDest(p) \/ CopyAttachments(p) \/ WriteTombstone(p) \/ DropAttachments(p)

Next ==
    \E p \in Procs :
        \/ \E r \in Routes : BeginMove(p, r[1], r[2])
        \/ \E s \in Stores : BeginEdit(p, s)
        \/ Step(p)
        \/ Crash(p)

\* A process inside a transaction keeps running, and the lock of a store is
\* eventually granted to a process that keeps asking for it.
Fairness == \A p \in Procs : SF_vars(Acquire(p)) /\ WF_vars(Step(p))

Spec == Init /\ [][Next]_vars /\ Fairness

-----------------------------------------------------------------------------
\* The locks and files keep their types; a process idles or transfers.
TypeOK ==
    /\ file \in [Stores -> FileType]
    /\ attached \in [Stores -> BOOLEAN]
    /\ lock \in [Stores -> Procs \cup {Free}]
    /\ \A p \in Procs :
          proc[p].at \in {"idle", "locking", "read", "edit",
                          "dest", "copy", "source", "drop"}
    /\ begun \in 0..MaxEdits
    /\ crashes \in 0..Crashes

Live == {s \in Stores : file[s].state = "live"}

\* The edits some live copy of the ticket has.
LiveEdits == UNION {file[s].edits : s \in Live}

Acts(p) == proc'[p] # proc[p]

\* No edit of a live ticket is lost by a step of a move, of another edit or by
\* a crash, because both hold the locks from their read to their last write.
\* The three exceptions are steps that discard the ticket as it stands: a move
\* writes over a live copy in its destination, the second write of a move onto
\* the ticket's own store retires it, or an edit retires it by hand.
NoEditLost ==
    [][\A e \in LiveEdits \ LiveEdits' :
         \E p \in Procs :
            LET x == proc[p] IN
            /\ Acts(p)
            /\ \/ x.at = "dest" /\ x.dest \in Live /\ e \in file[x.dest].edits
               \/ x.at = "source" /\ x.src = x.dest /\ e \in x.read.edits
               \/ /\ x.at = "edit" /\ e \in x.read.edits
                  /\ file'[x.src].state = "moved"]_vars

\* The last copy of the attachments goes only with a move of the ticket onto
\* its own store: every other move, cut off by a crash or not, has copied them
\* before the source drops them.
AttachmentsKept ==
    [][(\E s \in Stores : attached[s]) =>
          \/ \E s \in Stores : attached'[s]
          \/ \E p \in Procs : /\ Acts(p) /\ proc[p].at = "drop"
                              /\ proc[p].src = proc[p].dest]_vars

\* Every transfer and edit ends: opposite moves between two stores cannot
\* wait for each other.
TransferEnds == \A p \in Procs : proc[p].at # "idle" ~> proc[p].at = "idle"
=============================================================================
