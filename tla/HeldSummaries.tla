--------------------------- MODULE HeldSummaries ---------------------------
(***************************************************************************)
(* What the delivery journal of hotsheet-notify promises about the         *)
(* notifications a channel holds back (docs/32-notifier-plugins.md, held   *)
(* summaries): a summary takes everything that is pending, what it took is *)
(* never pending again, and so no notification is admitted to two          *)
(* summaries.  The journal is bounded: what is pending may be dropped.     *)
(***************************************************************************)
CONSTANT Messages

VARIABLES
    seen,     \* the notifications that were ever held
    pending,  \* those that the next summary reports
    reported  \* those that a summary was admitted for

hvars == <<seen, pending, reported>>

Init ==
    /\ seen \subseteq Messages
    /\ pending \subseteq seen
    /\ reported = {}

\* A notification is held, and older ones may be dropped.
Hold(m) ==
    /\ m \in Messages \ seen
    /\ seen' = seen \cup {m}
    /\ m \in pending' /\ pending' \subseteq pending \cup {m}
    /\ UNCHANGED reported

Summarise ==
    /\ pending # {}
    /\ reported' = reported \cup pending
    /\ pending' = {}
    /\ UNCHANGED seen

Drop ==
    /\ pending' \subseteq pending
    /\ UNCHANGED <<seen, reported>>

Next == (\E m \in Messages : Hold(m)) \/ Summarise \/ Drop

Spec == Init /\ [][Next]_hvars
=============================================================================
