------------------------- MODULE MCClaimNextAcross -------------------------
(***************************************************************************)
(* Two stores, and tickets of one priority in both of them.                *)
(***************************************************************************)
EXTENDS ClaimNextAcross

MCTickets == 1..3
MCHome == <<1, 1, 2>>
MCPriority == <<1, 0, 0>>
=============================================================================
