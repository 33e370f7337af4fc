------------------------- MODULE MCOutboxRetention -------------------------
(***************************************************************************)
(* Two dated ids, created at different times, and one legacy id.           *)
(***************************************************************************)
EXTENDS OutboxRetention

MCIdTime == [o \in {"a", "b"} |-> IF o = "a" THEN 0 ELSE 2]
=============================================================================
