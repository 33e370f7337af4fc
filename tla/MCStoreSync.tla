---------------------------- MODULE MCStoreSync ----------------------------
(***************************************************************************)
(* Small instances of StoreSync: a server and a command line process write *)
(* in one checkout while another clone publishes.                          *)
(***************************************************************************)
EXTENDS StoreSync, TLC
=============================================================================
