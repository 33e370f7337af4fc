--------------------------- MODULE MCTicketMerge ---------------------------
(***************************************************************************)
(* Small instances of TicketMerge: two clones, and the patches that start, *)
(* finish, reopen and queue a ticket.                                      *)
(***************************************************************************)
EXTENDS TicketMerge, TLC

Patch(status, phase, upNext) ==
    [status |-> status, phase |-> phase, upNext |-> upNext, blocked |-> "keep", content |-> FALSE]

MCPatches == {Patch("started", "keep", "keep"), Patch("completed", "keep", "keep"),
              Patch("not_started", "keep", "keep"), Patch("keep", "final_testing", "keep"),
              Patch("keep", "keep", "on")}
=============================================================================
