--------------------------- MODULE MCTicketClaims ---------------------------
(***************************************************************************)
(* Small instances of TicketClaims.                                        *)
(***************************************************************************)
EXTENDS TicketClaims, TLC

WorkerSymmetry == Permutations(Workers)

Blank == [status |-> Keep, phase |-> Keep, upNext |-> Keep,
          blocked |-> Keep, content |-> FALSE]

\* One patch per field, and the combinations update treats specially.
MCPatches ==
    {[Blank EXCEPT !.status = s] : s \in Statuses}
    \cup {[Blank EXCEPT !.phase = p] : p \in {"none", "initial_testing", "final_testing"}}
    \cup {[Blank EXCEPT !.upNext = f] : f \in {"on", "off"}}
    \cup {[Blank EXCEPT !.blocked = f] : f \in {"on", "off"}}
    \cup {[Blank EXCEPT !.content = TRUE],
          [Blank EXCEPT !.status = "started", !.phase = "initial_testing"],
          [Blank EXCEPT !.status = "backlog", !.upNext = "on"]}

MCFewPatches ==
    {[Blank EXCEPT !.status = s] : s \in {"started", "completed", "deleted"}}
    \cup {[Blank EXCEPT !.phase = "initial_testing"], [Blank EXCEPT !.content = TRUE]}
=============================================================================
