------------------------ MODULE TicketTransferProofs ------------------------
(***************************************************************************)
(* Theorems about TicketTransfer for every set of stores, processes and    *)
(* routes: which steps may lose an edit or the last of the attachments,    *)
(* wherever crashes cut operations off.                                    *)
(***************************************************************************)
EXTENDS TicketTransfer, Sequences, TLAPS

Holding == {"read", "edit", "dest", "copy", "source", "drop"}
Moving == {"dest", "copy", "source", "drop"}

BusyType == [at : Holding \cup {"locking"}, edit : 0..MaxEdits, src : Stores, dest : Stores,
             wants : Seq(Stores), read : FileType]

\* A process is idle or runs an operation; only a move goes on to a second
\* store.
ProcOK(p) ==
    proc[p] # Idle =>
       /\ proc[p].edit = 0 => <<proc[p].src, proc[p].dest>> \in Routes
       /\ proc[p].edit # 0 => proc[p].src = proc[p].dest /\ proc[p].at \notin Moving
       /\ proc[p].at = "edit" => proc[p].edit # 0

\* A process waits for its locks in order, and has them once it reads.
LocksOK(p) ==
    LET x == proc[p]
        order == LockOrder(x.src, x.dest) IN
    /\ x.at = "locking" =>
          \/ x.wants = order
          \/ x.src # x.dest /\ x.wants = <<order[2]>> /\ lock[order[1]] = p
    /\ x.at \in Holding => lock[x.src] = p /\ lock[x.dest] = p

\* What a process has read, and written to its destination, is still there.
ReadOK(p) ==
    LET x == proc[p] IN
    /\ x.at \in {"edit", "dest", "copy", "source"} => file[x.src] = x.read
    /\ x.at \in {"copy", "source"} => file[x.dest] = x.read

\* The copy is there before the source's attachments are dropped.
Copied ==
    \A p \in Procs : proc[p].at \in {"source", "drop"} =>
        (attached[proc[p].src] => attached[proc[p].dest])

IInv ==
    /\ TypeOK
    /\ proc \in [Procs -> {Idle} \cup BusyType]
    /\ \A p \in Procs : ProcOK(p) /\ LocksOK(p) /\ ReadOK(p)
    /\ Copied

-----------------------------------------------------------------------------
(* What the steps have in common.                                          *)

LEMMA BusyFacts ==
    ASSUME IInv, NEW p \in Procs, proc[p].at # "idle"
    PROVE  /\ proc[p] \in BusyType /\ proc[p] # Idle
           /\ proc[p].src \in Stores /\ proc[p].dest \in Stores
           /\ ProcOK(p) /\ LocksOK(p) /\ ReadOK(p)
<1>1. proc[p] # Idle
  BY DEF Idle
<1>2. proc[p] \in BusyType
  BY <1>1 DEF IInv
<1> QED
  BY <1>1, <1>2 DEF BusyType, IInv

LEMMA LockOrderFacts ==
    ASSUME NEW s \in Stores, NEW t \in Stores
    PROVE  /\ LockOrder(s, t) \in Seq(Stores)
           /\ s = t => LockOrder(s, t) = <<s>>
           /\ s # t => \/ LockOrder(s, t) = <<s, t>>
                       \/ LockOrder(s, t) = <<t, s>>
BY TransferAssumption DEF LockOrder

\* The part of the invariant that speaks of one process.
Own(q) ==
    /\ ProcOK(q) /\ LocksOK(q) /\ ReadOK(q)
    /\ proc[q].at \in {"source", "drop"} => (attached[proc[q].src] => attached[proc[q].dest])

\* A step of one process keeps what another relies on: it leaves the locks the
\* other holds, and the files and attachments under them.
LEMMA OthersKeep ==
    ASSUME IInv, NEW q \in Procs, proc'[q] = proc[q],
           \A s \in Stores : lock[s] = q =>
               lock'[s] = q /\ file'[s] = file[s] /\ attached'[s] = attached[s]
    PROVE  Own(q)'
<1>1. CASE proc[q].at = "idle"
  <2>1. proc[q] = Idle
    BY <1>1 DEF IInv, BusyType, Holding
  <2> QED
    BY <1>1, <2>1 DEF Own, ProcOK, LocksOK, ReadOK, Holding
<1>2. CASE proc[q].at # "idle"
  <2>1. /\ proc[q] \in BusyType /\ proc[q].src \in Stores /\ proc[q].dest \in Stores
        /\ ProcOK(q) /\ LocksOK(q) /\ ReadOK(q)
    BY <1>2, BusyFacts
  <2>2. ProcOK(q)'
    BY <2>1 DEF ProcOK
  <2>3. LocksOK(q)'
    <3> DEFINE order == LockOrder(proc[q].src, proc[q].dest)
    <3>1. proc[q].src # proc[q].dest => order[1] \in Stores
      BY <2>1, LockOrderFacts
    <3> QED
      BY <2>1, <3>1 DEF LocksOK
  <2>4. ReadOK(q)'
    BY <2>1 DEF ReadOK, LocksOK, Holding
  <2>5. Copied
    BY DEF IInv
  <2>6. proc[q].at \in {"source", "drop"} =>
           (attached'[proc[q].src] => attached'[proc[q].dest])
    BY <2>1, <2>5 DEF Copied, LocksOK, Holding
  <2> QED
    BY <2>2, <2>3, <2>4, <2>6 DEF Own
<1> QED
  BY <1>1, <1>2

\* The parts of the invariant put together.
LEMMA Together ==
    ASSUME TypeOK', proc' \in [Procs -> {Idle} \cup BusyType],
           \A q \in Procs : Own(q)'
    PROVE  IInv'
<1>1. Copied'
  BY DEF Copied, Own
<1> QED
  BY <1>1 DEF IInv, Own

\* An operation that ends, or dies, gives its locks back.
LEMMA FinishFacts ==
    ASSUME IInv, NEW p \in Procs, Finish(p)
    PROVE  /\ lock' \in [Stores -> Procs \cup {Free}]
           /\ proc' \in [Procs -> {Idle} \cup BusyType]
           /\ proc'[p] = Idle /\ \A q \in Procs \ {p} : proc'[q] = proc[q]
           /\ \A q \in Procs \ {p}, s \in Stores : lock[s] = q => lock'[s] = q
           /\ Own(p)'
           /\ \A q \in Procs : proc'[q].at \in Holding \cup {"idle", "locking"}
<1>1. /\ proc \in [Procs -> {Idle} \cup BusyType] /\ lock \in [Stores -> Procs \cup {Free}]
      /\ proc' = [proc EXCEPT ![p] = Idle]
      /\ lock' = [s \in Stores |-> IF lock[s] = p THEN Free ELSE lock[s]]
  BY DEF IInv, TypeOK, Finish
<1>2. proc'[p] = Idle /\ proc'[p].at = "idle"
  BY <1>1 DEF Idle
<1>3. Own(p)'
  BY <1>2 DEF Own, ProcOK, LocksOK, ReadOK, Holding
<1>4. proc' \in [Procs -> {Idle} \cup BusyType]
  BY <1>1
<1>5. ASSUME NEW q \in Procs PROVE proc'[q].at \in Holding \cup {"idle", "locking"}
  <2>1. proc'[q] = Idle \/ proc'[q] \in BusyType
    BY <1>4
  <2> QED
    BY <2>1 DEF BusyType, Idle
<1> QED
  BY <1>1, <1>2, <1>3, <1>4, <1>5

LEMMA AtType ==
    ASSUME proc' \in [Procs -> {Idle} \cup BusyType]
    PROVE  \A p \in Procs : proc'[p].at \in {"idle", "locking", "read", "edit",
                                             "dest", "copy", "source", "drop"}
<1> SUFFICES ASSUME NEW p \in Procs
             PROVE  proc'[p].at \in {"idle", "locking", "read", "edit",
                                     "dest", "copy", "source", "drop"}
  OBVIOUS
<1>1. proc'[p] = Idle \/ proc'[p] \in BusyType
  OBVIOUS
<1> QED
  BY <1>1 DEF BusyType, Idle, Holding

\* A step of a process that goes on, without writing anything.
LEMMA GoOn ==
    ASSUME IInv, NEW p \in Procs, NEW y \in BusyType, proc' = [proc EXCEPT ![p] = y],
           lock' \in [Stores -> Procs \cup {Free}],
           \A s \in Stores : lock[s] \in Procs => lock'[s] = lock[s],
           begun' \in 0..MaxEdits, UNCHANGED <<file, attached, crashes>>, Own(p)'
    PROVE  IInv'
<1>1. /\ proc' \in [Procs -> {Idle} \cup BusyType]
      /\ \A q \in Procs \ {p} : proc'[q] = proc[q]
  BY DEF IInv
<1>2. TypeOK'
  BY <1>1, AtType DEF IInv, TypeOK
<1>3. \A q \in Procs \ {p} : Own(q)'
  BY <1>1, OthersKeep
<1> QED
  BY <1>1, <1>2, <1>3, Together

-----------------------------------------------------------------------------
(* The steps.                                                              *)

LEMMA InitInv == Init => IInv
<1> SUFFICES ASSUME Init PROVE IInv
  OBVIOUS
<1>1. PICK r \in Routes :
          /\ file = [s \in Stores |-> IF s = r[1] THEN Original ELSE Absent]
          /\ attached = [s \in Stores |-> s = r[1]]
  BY DEF Init
<1>2. r[1] \in Stores
  BY TransferAssumption
<1>3. Original \in FileType /\ Absent \in FileType
  BY DEF Original, Absent, FileType
<1>4. \A p \in Procs : proc[p] = Idle /\ proc[p].at = "idle"
  BY DEF Init, Idle
<1>5. TypeOK
  BY <1>1, <1>3, <1>4, TransferAssumption DEF Init, TypeOK
<1>6. proc \in [Procs -> {Idle} \cup BusyType]
  BY DEF Init
<1>7. \A p \in Procs : ProcOK(p) /\ LocksOK(p) /\ ReadOK(p)
  BY <1>4 DEF ProcOK, LocksOK, ReadOK, Holding
<1>8. Copied
  BY <1>4 DEF Copied
<1> QED
  BY <1>5, <1>6, <1>7, <1>8 DEF IInv

LEMMA BeginInv ==
    ASSUME IInv, NEW p \in Procs,
           NEW src \in Stores, NEW dest \in Stores, NEW edit \in 0..MaxEdits,
           edit = 0 => <<src, dest>> \in Routes, edit # 0 => src = dest,
           proc[p].at = "idle", begun' \in 0..MaxEdits,
           proc' = [proc EXCEPT ![p] =
              [at |-> "locking", edit |-> edit, src |-> src, dest |-> dest,
               wants |-> LockOrder(src, dest), read |-> Absent]],
           UNCHANGED <<file, attached, lock, crashes>>
    PROVE  IInv'
<1> DEFINE y == [at |-> "locking", edit |-> edit, src |-> src, dest |-> dest,
                 wants |-> LockOrder(src, dest), read |-> Absent]
<1>1. Absent \in FileType /\ LockOrder(src, dest) \in Seq(Stores)
  BY LockOrderFacts DEF Absent, FileType
<1>2. y \in BusyType
  BY <1>1 DEF BusyType
<1>3. proc'[p] = y
  BY DEF IInv
<1>4. Own(p)'
  BY <1>3 DEF Own, ProcOK, LocksOK, ReadOK, Holding, Moving
<1>5. lock' \in [Stores -> Procs \cup {Free}]
  BY DEF IInv, TypeOK
<1> HIDE DEF y
<1> QED
  BY <1>2, <1>4, <1>5, GoOn DEF y

LEMMA AcquireInv ==
    ASSUME IInv, NEW p \in Procs, Acquire(p)
    PROVE  IInv'
<1> DEFINE x == proc[p]
           order == LockOrder(x.src, x.dest)
           y == IF x.wants = <<x.wants[1]>> THEN [x EXCEPT !.at = "read"]
                ELSE [x EXCEPT !.wants = <<x.wants[2]>>]
<1>1. x.at = "locking" /\ x.at # "idle"
  BY DEF Acquire
<1>2. /\ x \in BusyType /\ x # Idle /\ x.src \in Stores /\ x.dest \in Stores
      /\ ProcOK(p) /\ LocksOK(p)
  BY <1>1, BusyFacts
<1>3. /\ lock[x.wants[1]] = Free /\ lock' = [lock EXCEPT ![x.wants[1]] = p]
      /\ proc' = [proc EXCEPT ![p] = y]
      /\ UNCHANGED <<file, attached, begun, crashes>>
  BY DEF Acquire
<1>4. x.wants = order \/ (x.src # x.dest /\ x.wants = <<order[2]>> /\ lock[order[1]] = p)
  BY <1>1, <1>2 DEF LocksOK
<1>5. /\ x.src = x.dest => order = <<x.src>>
      /\ x.src # x.dest => order = <<x.src, x.dest>> \/ order = <<x.dest, x.src>>
  BY <1>2, LockOrderFacts
<1>6. lock \in [Stores -> Procs \cup {Free}] /\ begun \in 0..MaxEdits
  BY DEF IInv, TypeOK
<1>7. x.wants[1] \in Stores
  BY <1>2, <1>4, <1>5
<1>8. lock' \in [Stores -> Procs \cup {Free}] /\ lock'[x.wants[1]] = p
  BY <1>3, <1>6, <1>7
<1>9. \A s \in Stores : lock[s] \in Procs => lock'[s] = lock[s]
  BY <1>3, <1>6, <1>7, TransferAssumption
<1>10. proc'[p] = y
  BY <1>3 DEF IInv
<1>11. y \in BusyType /\ Own(p)'
  <2>1. CASE x.wants = <<x.wants[1]>>
    <3>1. y = [x EXCEPT !.at = "read"]
      BY <2>1
    <3>2. /\ y \in BusyType /\ y.at = "read" /\ y.src = x.src /\ y.dest = x.dest
          /\ y.edit = x.edit
      BY <1>2, <3>1 DEF BusyType, Holding
    <3>3. lock'[x.src] = p /\ lock'[x.dest] = p
      <4>1. CASE x.src = x.dest
        BY <1>4, <1>5, <1>8, <4>1
      <4>2. CASE x.src # x.dest
        <5>1. x.wants = <<order[2]>> /\ lock[order[1]] = p
          BY <1>4, <1>5, <2>1, <4>2
        <5>2. lock'[order[1]] = p /\ lock'[order[2]] = p
          BY <1>2, <1>5, <1>8, <1>9, <4>2, <5>1
        <5> QED
          BY <1>5, <4>2, <5>2
      <4> QED
        BY <4>1, <4>2
    <3> HIDE DEF y
    <3>4. ProcOK(p)'
      BY <1>2, <1>10, <3>2 DEF ProcOK, Moving
    <3>5. LocksOK(p)' /\ ReadOK(p)'
      BY <1>10, <3>2, <3>3 DEF LocksOK, ReadOK
    <3> QED
      BY <1>10, <3>2, <3>4, <3>5 DEF Own
  <2>2. CASE x.wants # <<x.wants[1]>>
    <3>1. y = [x EXCEPT !.wants = <<x.wants[2]>>]
      BY <2>2
    <3>2. x.src # x.dest /\ x.wants = order
      BY <1>4, <1>5, <2>2
    <3>3. x.wants[2] \in Stores
      BY <1>2, <1>5, <3>2
    <3>4. /\ y \in BusyType /\ y.at = "locking" /\ y.src = x.src /\ y.dest = x.dest
          /\ y.edit = x.edit /\ y.wants = <<x.wants[2]>>
      <4>1. <<x.wants[2]>> \in Seq(Stores)
        BY <3>3
      <4> QED
        BY <1>1, <1>2, <3>1, <4>1 DEF BusyType
    <3>5. lock'[order[1]] = p
      BY <1>8, <3>2
    <3> HIDE DEF y
    <3>6. ProcOK(p)'
      BY <1>2, <1>10, <3>4 DEF ProcOK, Moving
    <3>7. LocksOK(p)' /\ ReadOK(p)'
      BY <1>10, <3>2, <3>4, <3>5 DEF LocksOK, ReadOK, Holding
    <3> QED
      BY <1>10, <3>4, <3>6, <3>7 DEF Own
  <2> QED
    BY <2>1, <2>2
<1> HIDE DEF y
<1> QED
  BY <1>1, <1>3, <1>6, <1>8, <1>9, <1>11, GoOn

\* An operation ends before it wrote anything, or dies anywhere.
LEMMA EndInv ==
    ASSUME IInv, NEW p \in Procs, Finish(p), UNCHANGED <<file, attached, begun>>,
           crashes' \in 0..Crashes
    PROVE  IInv'
<1>1. TypeOK'
  BY FinishFacts, AtType DEF IInv, TypeOK
<1>2. \A q \in Procs : Own(q)'
  BY FinishFacts, OthersKeep
<1> QED
  BY <1>1, <1>2, FinishFacts, Together

LEMMA ReadInv ==
    ASSUME IInv, NEW p \in Procs, Read(p)
    PROVE  IInv'
<1> DEFINE x == proc[p]
           y == [x EXCEPT !.read = file[x.src], !.at = IF x.edit # 0 THEN "edit" ELSE "dest"]
<1>1. x.at = "read" /\ UNCHANGED <<file, attached, begun, crashes>>
  BY DEF Read
<1>2. CASE file[x.src].state = "absent"
  BY <1>1, <1>2, EndInv DEF Read, IInv, TypeOK
<1>3. CASE file[x.src].state # "absent"
  <2>1. proc' = [proc EXCEPT ![p] = y] /\ UNCHANGED lock
    BY <1>3 DEF Read
  <2>2. /\ x \in BusyType /\ x # Idle /\ x.src \in Stores /\ x.dest \in Stores
        /\ ProcOK(p) /\ LocksOK(p)
    BY <1>1, BusyFacts
  <2>3. file[x.src] \in FileType
    BY <2>2 DEF IInv, TypeOK
  <2>4. /\ y \in BusyType /\ y.src = x.src /\ y.dest = x.dest /\ y.edit = x.edit
        /\ y.read = file[x.src]
        /\ y.at = IF x.edit # 0 THEN "edit" ELSE "dest"
    BY <2>2, <2>3 DEF BusyType, Holding
  <2> HIDE DEF y
  <2>5. proc'[p] = y
    BY <2>1 DEF IInv
  <2>6. ProcOK(p)'
    BY <2>2, <2>4, <2>5 DEF ProcOK, Moving
  <2>7. LocksOK(p)' /\ ReadOK(p)'
    BY <1>1, <2>1, <2>2, <2>4, <2>5 DEF LocksOK, ReadOK, Holding
  <2>8. Own(p)'
    BY <2>4, <2>5, <2>6, <2>7 DEF Own
  <2>9. lock' \in [Stores -> Procs \cup {Free}] /\ begun' \in 0..MaxEdits
    BY <1>1, <2>1 DEF IInv, TypeOK
  <2> QED
    BY <1>1, <2>1, <2>4, <2>8, <2>9, GoOn
<1> QED
  BY <1>2, <1>3

LEMMA WriteEditInv ==
    ASSUME IInv, NEW p \in Procs, WriteEdit(p)
    PROVE  IInv'
<1> DEFINE x == proc[p]
<1>0. PICK st \in {"live", "moved"} :
          file' = [file EXCEPT ![x.src] =
                     [state |-> st, edits |-> x.read.edits \cup {x.edit}]]
  BY DEF WriteEdit
<1> DEFINE f == [state |-> st, edits |-> x.read.edits \cup {x.edit}]
<1>1. /\ x.at = "edit" /\ Finish(p) /\ UNCHANGED <<attached, begun, crashes>>
      /\ file' = [file EXCEPT ![x.src] = f]
  BY <1>0 DEF WriteEdit
<1>2. /\ x \in BusyType /\ x # Idle /\ x.src \in Stores
      /\ ProcOK(p) /\ LocksOK(p) /\ ReadOK(p)
  BY <1>1, BusyFacts
<1>3. x.edit \in Edits /\ x.read \in FileType /\ lock[x.src] = p /\ file[x.src] = x.read
  BY <1>1, <1>2, TransferAssumption DEF ProcOK, LocksOK, ReadOK, BusyType, Holding, Edits
<1>4. f \in FileType
  BY <1>3 DEF FileType
<1> HIDE DEF f
<1>5. /\ file \in [Stores -> FileType]
      /\ file' \in [Stores -> FileType] /\ file'[x.src] = f
      /\ \A s \in Stores \ {x.src} : file'[s] = file[s]
  BY <1>1, <1>2, <1>4 DEF IInv, TypeOK
<1>6. TypeOK'
  BY <1>1, <1>3, <1>5, FinishFacts, AtType DEF IInv, TypeOK
<1>7. \A q \in Procs : Own(q)'
  <2>1. ASSUME NEW q \in Procs \ {p} PROVE Own(q)'
    BY <1>1, <1>3, <1>5, FinishFacts, OthersKeep
  <2> QED
    BY <1>1, <2>1, FinishFacts
<1> QED
  BY <1>1, <1>6, <1>7, FinishFacts, Together

\* A step inside a move to its next place.
LEMMA PlaceFacts ==
    ASSUME IInv, NEW p \in Procs, proc[p].at \in {"dest", "copy", "source"},
           NEW at \in {"copy", "source", "drop"}, proc' = [proc EXCEPT ![p].at = at]
    PROVE  /\ proc[p] \in BusyType /\ proc[p].src \in Stores /\ proc[p].dest \in Stores
           /\ proc[p].read \in FileType /\ file[proc[p].src] = proc[p].read
           /\ proc[p].at \in {"copy", "source"} => file[proc[p].dest] = proc[p].read
           /\ lock[proc[p].src] = p /\ lock[proc[p].dest] = p
           /\ proc' \in [Procs -> {Idle} \cup BusyType]
           /\ proc'[p].at = at /\ proc'[p].src = proc[p].src /\ proc'[p].dest = proc[p].dest
           /\ proc'[p].read = proc[p].read
           /\ \A q \in Procs \ {p} : proc'[q] = proc[q]
           /\ ProcOK(p)' /\ (UNCHANGED lock => LocksOK(p)')
<1>1. /\ proc[p] \in BusyType /\ proc[p] # Idle
      /\ proc[p].src \in Stores /\ proc[p].dest \in Stores
      /\ ProcOK(p) /\ LocksOK(p) /\ ReadOK(p)
  BY BusyFacts
<1> DEFINE y == [proc[p] EXCEPT !.at = at]
<1>2. /\ y \in BusyType /\ y.at = at /\ y.src = proc[p].src /\ y.dest = proc[p].dest
      /\ y.edit = proc[p].edit /\ y.read = proc[p].read
  BY <1>1 DEF BusyType, Holding
<1>3. proc' = [proc EXCEPT ![p] = y]
  BY DEF IInv
<1> HIDE DEF y
<1>4. /\ proc' \in [Procs -> {Idle} \cup BusyType] /\ proc'[p] = y
      /\ \A q \in Procs \ {p} : proc'[q] = proc[q]
  BY <1>2, <1>3 DEF IInv
<1>5. proc[p].edit = 0 /\ ProcOK(p)'
  BY <1>1, <1>2, <1>4 DEF ProcOK, Moving
<1>6. lock[proc[p].src] = p /\ lock[proc[p].dest] = p /\ (UNCHANGED lock => LocksOK(p)')
  BY <1>1, <1>2, <1>4 DEF LocksOK, Holding
<1>7. /\ proc[p].read \in FileType /\ file[proc[p].src] = proc[p].read
      /\ proc[p].at \in {"copy", "source"} => file[proc[p].dest] = proc[p].read
  BY <1>1 DEF ReadOK, BusyType
<1> QED
  BY <1>1, <1>2, <1>4, <1>5, <1>6, <1>7

LEMMA WriteDestInv ==
    ASSUME IInv, NEW p \in Procs, WriteDest(p)
    PROVE  IInv'
<1> DEFINE x == proc[p]
<1>1. /\ x.at = "dest" /\ proc' = [proc EXCEPT ![p].at = "copy"]
      /\ file' = [file EXCEPT ![x.dest] = x.read]
      /\ UNCHANGED <<attached, lock, begun, crashes>>
  BY DEF WriteDest
<1>2. /\ x.src \in Stores /\ x.dest \in Stores
      /\ x.read \in FileType /\ file[x.src] = x.read
      /\ lock[x.src] = p /\ lock[x.dest] = p
      /\ proc' \in [Procs -> {Idle} \cup BusyType]
      /\ proc'[p].at = "copy" /\ proc'[p].src = x.src /\ proc'[p].dest = x.dest
      /\ proc'[p].read = x.read
      /\ \A q \in Procs \ {p} : proc'[q] = proc[q]
      /\ ProcOK(p)' /\ LocksOK(p)'
  BY <1>1, PlaceFacts
<1>3. /\ file' \in [Stores -> FileType] /\ file'[x.dest] = x.read
      /\ \A s \in Stores \ {x.dest} : file'[s] = file[s]
  BY <1>1, <1>2 DEF IInv, TypeOK
<1>4. TypeOK'
  BY <1>1, <1>2, <1>3, AtType DEF IInv, TypeOK
<1>5. ReadOK(p)'
  BY <1>2, <1>3 DEF ReadOK
<1>6. \A q \in Procs : Own(q)'
  <2>1. ASSUME NEW q \in Procs \ {p} PROVE Own(q)'
    BY <1>1, <1>2, <1>3, OthersKeep
  <2>2. Own(p)'
    BY <1>2, <1>5 DEF Own
  <2> QED
    BY <2>1, <2>2
<1> QED
  BY <1>2, <1>4, <1>6, Together

LEMMA CopyAttachmentsInv ==
    ASSUME IInv, NEW p \in Procs, CopyAttachments(p)
    PROVE  IInv'
<1> DEFINE x == proc[p]
<1>1. /\ x.at = "copy" /\ proc' = [proc EXCEPT ![p].at = "source"]
      /\ attached' = [attached EXCEPT ![x.dest] = attached[x.dest] \/ attached[x.src]]
      /\ UNCHANGED <<file, lock, begun, crashes>>
  BY DEF CopyAttachments
<1>2. /\ x.src \in Stores /\ x.dest \in Stores
      /\ file[x.src] = x.read /\ file[x.dest] = x.read
      /\ lock[x.src] = p /\ lock[x.dest] = p
      /\ proc' \in [Procs -> {Idle} \cup BusyType]
      /\ proc'[p].at = "source" /\ proc'[p].src = x.src /\ proc'[p].dest = x.dest
      /\ proc'[p].read = x.read
      /\ \A q \in Procs \ {p} : proc'[q] = proc[q]
      /\ ProcOK(p)' /\ LocksOK(p)'
  BY <1>1, PlaceFacts
<1>3. /\ attached' \in [Stores -> BOOLEAN]
      /\ attached[x.src] => attached'[x.dest]
      /\ \A s \in Stores : attached[s] => attached'[s]
      /\ \A s \in Stores \ {x.dest} : attached'[s] = attached[s]
  <2>1. attached \in [Stores -> BOOLEAN] /\ (attached[x.dest] \/ attached[x.src]) \in BOOLEAN
    BY DEF IInv, TypeOK
  <2> QED
    BY <1>1, <1>2, <2>1
<1>4. TypeOK'
  BY <1>1, <1>2, <1>3, AtType DEF IInv, TypeOK
<1>5. ReadOK(p)'
  BY <1>1, <1>2 DEF ReadOK
<1>6. \A q \in Procs : Own(q)'
  <2>1. ASSUME NEW q \in Procs \ {p} PROVE Own(q)'
    BY <1>1, <1>2, <1>3, OthersKeep
  <2>2. attached'[x.src] => attached'[x.dest]
    BY <1>2, <1>3
  <2>3. Own(p)'
    BY <1>2, <1>5, <2>2 DEF Own
  <2> QED
    BY <2>1, <2>3
<1> QED
  BY <1>2, <1>4, <1>6, Together

LEMMA WriteTombstoneInv ==
    ASSUME IInv, NEW p \in Procs, WriteTombstone(p)
    PROVE  IInv'
<1> DEFINE x == proc[p]
           f == [x.read EXCEPT !.state = "moved"]
<1>1. /\ x.at = "source" /\ proc' = [proc EXCEPT ![p].at = "drop"]
      /\ file' = [file EXCEPT ![x.src] = f]
      /\ UNCHANGED <<attached, lock, begun, crashes>>
  BY DEF WriteTombstone
<1>2. /\ x.src \in Stores /\ x.dest \in Stores /\ x.read \in FileType
      /\ lock[x.src] = p /\ lock[x.dest] = p
      /\ proc' \in [Procs -> {Idle} \cup BusyType]
      /\ proc'[p].at = "drop" /\ proc'[p].src = x.src /\ proc'[p].dest = x.dest
      /\ \A q \in Procs \ {p} : proc'[q] = proc[q]
      /\ ProcOK(p)' /\ LocksOK(p)'
  BY <1>1, PlaceFacts
<1>3. f \in FileType /\ f.state = "moved"
  BY <1>2 DEF FileType
<1> HIDE DEF f
<1>4. /\ file' \in [Stores -> FileType] /\ file'[x.src] = f
      /\ \A s \in Stores \ {x.src} : file'[s] = file[s]
  BY <1>1, <1>2, <1>3 DEF IInv, TypeOK
<1>5. TypeOK'
  BY <1>1, <1>2, <1>4, AtType DEF IInv, TypeOK
<1>6. \A q \in Procs : Own(q)'
  <2>1. ASSUME NEW q \in Procs \ {p} PROVE Own(q)'
    BY <1>1, <1>2, <1>4, OthersKeep
  <2>2. ReadOK(p)'
    BY <1>2 DEF ReadOK
  <2>3. attached[x.src] => attached[x.dest]
    BY <1>1 DEF IInv, Copied
  <2>4. Own(p)'
    BY <1>1, <1>2, <2>2, <2>3 DEF Own
  <2> QED
    BY <2>1, <2>4
<1> QED
  BY <1>2, <1>5, <1>6, Together

LEMMA DropAttachmentsInv ==
    ASSUME IInv, NEW p \in Procs, DropAttachments(p)
    PROVE  IInv'
<1> DEFINE x == proc[p]
<1>1. /\ x.at = "drop" /\ attached' = [attached EXCEPT ![x.src] = FALSE]
      /\ Finish(p) /\ UNCHANGED <<file, begun, crashes>>
  BY DEF DropAttachments
<1>2. /\ x \in BusyType /\ x # Idle /\ x.src \in Stores /\ x.dest \in Stores
      /\ ProcOK(p) /\ LocksOK(p) /\ lock[x.src] = p
  BY <1>1, BusyFacts DEF LocksOK, Holding
<1>3. /\ attached' \in [Stores -> BOOLEAN]
      /\ \A s \in Stores \ {x.src} : attached'[s] = attached[s]
  BY <1>1, <1>2 DEF IInv, TypeOK
<1>4. TypeOK'
  BY <1>1, <1>3, FinishFacts, AtType DEF IInv, TypeOK
<1>5. \A q \in Procs : Own(q)'
  <2>1. ASSUME NEW q \in Procs \ {p} PROVE Own(q)'
    BY <1>1, <1>2, <1>3, FinishFacts, OthersKeep
  <2> QED
    BY <1>1, <2>1, FinishFacts
<1> QED
  BY <1>1, <1>4, <1>5, FinishFacts, Together

LEMMA StepInv == IInv /\ [Next]_vars => IInv'
<1> SUFFICES ASSUME IInv, [Next]_vars PROVE IInv'
  OBVIOUS
<1>1. CASE UNCHANGED vars
  <2>1. UNCHANGED <<file, attached, lock, proc, begun, crashes>>
    BY <1>1 DEF vars
  <2>2. TypeOK' /\ proc' \in [Procs -> {Idle} \cup BusyType]
    BY <2>1 DEF IInv, TypeOK
  <2>3. \A q \in Procs : Own(q)'
    BY <2>1, OthersKeep
  <2> QED
    BY <2>2, <2>3, Together
<1>2. ASSUME NEW p \in Procs, NEW r \in Routes, BeginMove(p, r[1], r[2]) PROVE IInv'
  <2>1. r[1] \in Stores /\ r[2] \in Stores /\ <<r[1], r[2]>> \in Routes /\ 0 \in 0..MaxEdits
    BY TransferAssumption
  <2> QED
    BY <1>2, <2>1, BeginInv DEF BeginMove, IInv, TypeOK
<1>3. ASSUME NEW p \in Procs, NEW s \in Stores, BeginEdit(p, s) PROVE IInv'
  <2>1. begun + 1 \in 0..MaxEdits /\ begun + 1 # 0
    BY <1>3, TransferAssumption DEF BeginEdit, IInv, TypeOK
  <2> QED
    BY <1>3, <2>1, BeginInv DEF BeginEdit
<1>4. ASSUME NEW p \in Procs, Step(p) PROVE IInv'
  BY <1>4, AcquireInv, ReadInv, WriteEditInv, WriteDestInv, CopyAttachmentsInv,
     WriteTombstoneInv, DropAttachmentsInv DEF Step
<1>5. ASSUME NEW p \in Procs, Crash(p) PROVE IInv'
  <2>1. crashes' \in 0..Crashes
    BY <1>5, TransferAssumption DEF Crash, IInv, TypeOK
  <2> QED
    BY <1>5, <2>1, EndInv DEF Crash
<1> QED
  BY <1>1, <1>2, <1>3, <1>4, <1>5 DEF Next

-----------------------------------------------------------------------------
(* What one step may lose.                                                 *)

LEMMA LiveEditsKept ==
    ASSUME NEW s \in Stores, file'[s] = file[s], s \in Live, NEW e \in file[s].edits
    PROVE  e \in LiveEdits'
<1>1. s \in Live' /\ e \in file'[s].edits
  BY DEF Live
<1> QED
  BY <1>1 DEF LiveEdits

\* Where a step of a process leaves the place it was at.
LEMMA ActsFacts ==
    ASSUME IInv, NEW p \in Procs,
           \/ Finish(p) /\ proc[p].at # "idle"
           \/ \E at \in {"copy", "source", "drop"} :
                 at # proc[p].at /\ proc[p].at # "idle" /\ proc' = [proc EXCEPT ![p].at = at]
    PROVE  Acts(p)
<1>1. proc[p] \in BusyType /\ proc[p] # Idle
  BY BusyFacts, FinishFacts
<1>2. CASE Finish(p)
  BY <1>1, <1>2, FinishFacts DEF Acts
<1>3. ASSUME NEW at \in {"copy", "source", "drop"}, at # proc[p].at,
             proc' = [proc EXCEPT ![p].at = at]
      PROVE  Acts(p)
  <2>1. proc'[p] = [proc[p] EXCEPT !.at = at] /\ proc'[p].at = at
    BY <1>1, <1>3 DEF IInv, BusyType
  <2> QED
    BY <1>3, <2>1 DEF Acts
<1> QED
  BY <1>2, <1>3

LostBy(e, p) ==
    LET x == proc[p] IN
    /\ Acts(p)
    /\ \/ x.at = "dest" /\ x.dest \in Live /\ e \in file[x.dest].edits
       \/ x.at = "source" /\ x.src = x.dest /\ e \in x.read.edits
       \/ x.at = "edit" /\ e \in x.read.edits /\ file'[x.src].state = "moved"

LEMMA WriteEditLoses ==
    ASSUME IInv, NEW p \in Procs, WriteEdit(p), NEW e \in LiveEdits, e \notin LiveEdits'
    PROVE  LostBy(e, p)
<1> DEFINE x == proc[p]
<1>1. PICK st \in {"live", "moved"} :
          file' = [file EXCEPT ![x.src] =
                     [state |-> st, edits |-> x.read.edits \cup {x.edit}]]
  BY DEF WriteEdit
<1>2. x.at = "edit" /\ Finish(p)
  BY DEF WriteEdit
<1>3. /\ file \in [Stores -> FileType] /\ x.src \in Stores /\ file[x.src] = x.read
  BY <1>2, BusyFacts DEF IInv, TypeOK, ReadOK
<1>4. PICK s \in Live : e \in file[s].edits
  BY DEF LiveEdits
<1>5. s \in Stores
  BY <1>4 DEF Live
<1>6. s = x.src
  BY <1>1, <1>3, <1>4, <1>5, LiveEditsKept
<1>7. file'[x.src] = [state |-> st, edits |-> x.read.edits \cup {x.edit}]
  BY <1>1, <1>3
<1>8. file'[x.src].state = st /\ e \in file'[x.src].edits /\ e \in x.read.edits
  BY <1>3, <1>4, <1>6, <1>7
<1>9. st = "moved"
  BY <1>3, <1>8 DEF LiveEdits, Live
<1>10. Acts(p)
  BY <1>2, ActsFacts
<1> QED
  BY <1>2, <1>8, <1>9, <1>10 DEF LostBy

LEMMA WriteDestLoses ==
    ASSUME IInv, NEW p \in Procs, WriteDest(p), NEW e \in LiveEdits, e \notin LiveEdits'
    PROVE  LostBy(e, p)
<1> DEFINE x == proc[p]
<1>1. /\ x.at = "dest" /\ proc' = [proc EXCEPT ![p].at = "copy"]
      /\ file' = [file EXCEPT ![x.dest] = x.read]
  BY DEF WriteDest
<1>2. file \in [Stores -> FileType] /\ x.dest \in Stores
  BY <1>1, BusyFacts DEF IInv, TypeOK
<1>3. PICK s \in Live : e \in file[s].edits
  BY DEF LiveEdits
<1>4. s \in Stores
  BY <1>3 DEF Live
<1>5. s = x.dest
  BY <1>1, <1>2, <1>3, <1>4, LiveEditsKept
<1>6. Acts(p)
  BY <1>1, ActsFacts
<1> QED
  BY <1>1, <1>3, <1>5, <1>6 DEF LostBy

LEMMA WriteTombstoneLoses ==
    ASSUME IInv, NEW p \in Procs, WriteTombstone(p), NEW e \in LiveEdits, e \notin LiveEdits'
    PROVE  LostBy(e, p)
<1> DEFINE x == proc[p]
<1>1. /\ x.at = "source" /\ proc' = [proc EXCEPT ![p].at = "drop"]
      /\ file' = [file EXCEPT ![x.src] = [x.read EXCEPT !.state = "moved"]]
  BY DEF WriteTombstone
<1>2. /\ file \in [Stores -> FileType] /\ x.src \in Stores /\ x.dest \in Stores
      /\ file[x.src] = x.read /\ file[x.dest] = x.read
  BY <1>1, BusyFacts DEF IInv, TypeOK, ReadOK
<1>3. PICK s \in Live : e \in file[s].edits
  BY DEF LiveEdits
<1>4. s \in Stores
  BY <1>3 DEF Live
<1>5. s = x.src
  BY <1>1, <1>2, <1>3, <1>4, LiveEditsKept
<1>6. x.src = x.dest
  <2> SUFFICES ASSUME x.src # x.dest PROVE FALSE
    OBVIOUS
  <2>1. file'[x.dest] = file[x.dest] /\ x.dest \in Live /\ e \in file[x.dest].edits
    BY <1>1, <1>2, <1>3, <1>5 DEF Live
  <2> QED
    BY <1>2, <2>1, LiveEditsKept
<1>7. Acts(p)
  BY <1>1, ActsFacts
<1> QED
  BY <1>1, <1>2, <1>3, <1>5, <1>6, <1>7 DEF LostBy

LEMMA StepLoses ==
    ASSUME IInv, [Next]_vars, NEW e \in LiveEdits, e \notin LiveEdits'
    PROVE  \E p \in Procs : LostBy(e, p)
<1>1. ~ UNCHANGED file
  BY DEF LiveEdits, Live
<1>2. PICK p \in Procs : WriteEdit(p) \/ WriteDest(p) \/ WriteTombstone(p)
  BY <1>1 DEF Next, Step, vars, BeginMove, BeginEdit, Acquire, Read, CopyAttachments,
              DropAttachments, Crash
<1> QED
  BY <1>2, WriteEditLoses, WriteDestLoses, WriteTombstoneLoses

LEMMA StepDrops ==
    ASSUME IInv, [Next]_vars, NEW s \in Stores, attached[s],
           \A t \in Stores : ~ attached'[t]
    PROVE  \E p \in Procs : /\ Acts(p) /\ proc[p].at = "drop"
                            /\ proc[p].src = proc[p].dest
<1>1. ~ UNCHANGED attached
  OBVIOUS
<1>2. PICK p \in Procs : CopyAttachments(p) \/ DropAttachments(p)
  BY <1>1 DEF Next, Step, vars, BeginMove, BeginEdit, Acquire, Read, WriteEdit, WriteDest,
              WriteTombstone, Crash
<1> DEFINE x == proc[p]
<1>3. attached \in [Stores -> BOOLEAN]
  BY DEF IInv, TypeOK
<1>4. ~ CopyAttachments(p)
  <2> SUFFICES ASSUME CopyAttachments(p) PROVE FALSE
    OBVIOUS
  <2>1. attached' = [attached EXCEPT ![x.dest] = attached[x.dest] \/ attached[x.src]]
    BY DEF CopyAttachments
  <2>2. attached'[s]
    BY <1>3, <2>1
  <2> QED
    BY <2>2
<1>5. /\ x.at = "drop" /\ Finish(p) /\ attached' = [attached EXCEPT ![x.src] = FALSE]
  BY <1>2, <1>4 DEF DropAttachments
<1>6. x.src \in Stores /\ x.dest \in Stores /\ (attached[x.src] => attached[x.dest])
  BY <1>5, BusyFacts DEF IInv, Copied
<1>7. s = x.src
  BY <1>3, <1>5
<1>8. x.src = x.dest
  BY <1>3, <1>5, <1>6, <1>7
<1>9. Acts(p)
  BY <1>5, ActsFacts
<1> QED
  BY <1>5, <1>8, <1>9

-----------------------------------------------------------------------------
(* The theorems.                                                           *)

\* Moves, edits and crashes, in any interleaving, keep the inductive invariant.
THEOREM TransferInvariance == Spec => []IInv
<1> QED
  BY InitInv, StepInv, PTL DEF Spec

\* Every variable of the transfer keeps its type.
THEOREM TransferTypeCorrect == Spec => []TypeOK
<1>1. IInv => TypeOK
  BY DEF IInv
<1> QED
  BY <1>1, TransferInvariance, PTL

\* With any crashes and any routes, an edit that a live copy of the ticket has
\* leaves the live copies only where a move writes over a live destination,
\* where a move onto the ticket's own store retires it, or where an edit does.
THEOREM NoEditLostTheorem == Spec => NoEditLost
<1>1. IInv /\ [Next]_vars =>
         [\A e \in LiveEdits \ LiveEdits' :
            \E p \in Procs :
               LET x == proc[p] IN
               /\ Acts(p)
               /\ \/ x.at = "dest" /\ x.dest \in Live /\ e \in file[x.dest].edits
                  \/ x.at = "source" /\ x.src = x.dest /\ e \in x.read.edits
                  \/ /\ x.at = "edit" /\ e \in x.read.edits
                     /\ file'[x.src].state = "moved"]_vars
  BY StepLoses DEF LostBy
<1> QED
  BY <1>1, TransferInvariance, PTL DEF Spec, NoEditLost

\* With any crashes and any routes, the last copy of the attachments goes only
\* where a move of the ticket onto its own store drops them.
THEOREM AttachmentsTheorem == Spec => AttachmentsKept
<1>1. IInv /\ [Next]_vars =>
         [(\E s \in Stores : attached[s]) =>
             \/ \E s \in Stores : attached'[s]
             \/ \E p \in Procs : /\ Acts(p) /\ proc[p].at = "drop"
                                 /\ proc[p].src = proc[p].dest]_vars
  BY StepDrops
<1> QED
  BY <1>1, TransferInvariance, PTL DEF Spec, AttachmentsKept
=============================================================================
