------------------------- MODULE MCAdvisoryClaims -------------------------
(* A server on a machine whose clock is behind, and a command on another.  *)
(* The issue has the version 1 claim of a worker of the first, and what a  *)
(* machine that is gone left: a claim and its release, which become        *)
(* reclaimable during the run.                                             *)
EXTENDS AdvisoryClaims

MCHostOf == [i \in Ops \cup Procs |->
                CASE i \in {"x", "z", "p"} -> "h" [] i \in {"y", "q"} -> "g" [] OTHER -> "f"]
MCOffset == [h \in Hosts |-> IF h = "h" THEN -1 ELSE 0]
MCFound == {[op |-> "z", kind |-> "claim", exp |-> 2],
            [op |-> "w", kind |-> "claim", exp |-> 3],
            [op |-> "w", kind |-> "release", exp |-> 0]}
MCBorn == [o \in Ops |-> IF o = "w" THEN 1 ELSE 0]
=============================================================================
