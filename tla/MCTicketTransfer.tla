-------------------------- MODULE MCTicketTransfer --------------------------
(***************************************************************************)
(* Two stores, moves in both directions and of a ticket onto its own store.*)
(***************************************************************************)
EXTENDS TicketTransfer

BothWays == {<<1, 2>>, <<2, 1>>, <<1, 1>>}
=============================================================================
