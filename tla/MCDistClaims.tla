---------------------------- MODULE MCDistClaims ----------------------------
(***************************************************************************)
(* A small instance of DistClaims: two servers race for one ticket, and a  *)
(* turn may outlast its lease.                                             *)
(***************************************************************************)
EXTENDS DistClaims
=============================================================================
