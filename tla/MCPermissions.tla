---------------------------- MODULE MCPermissions ----------------------------
(***************************************************************************)
(* Small instances of Permissions.  r1 and r2 ask for the same action in   *)
(* one chat, r3 for another action in another chat.                        *)
(***************************************************************************)
EXTENDS Permissions, TLC

CONSTANTS r1, r2, r3, c1, c2, a, b, p, q

MCConnOf == [r \in Requests |-> IF r = r3 THEN c2 ELSE c1]
MCActionOf == [r \in Requests |-> IF r = r3 THEN b ELSE a]
MCStored(k, d) == [key |-> k, action |-> a, decision |-> d]
MCVaults == {<<>>, <<MCStored(p, "deny")>>, <<MCStored(p, "deny"), MCStored(a, "allow")>>}
MCCovers == [x \in Patterns |-> IF x = p THEN {a} ELSE {a, b}]

\* The bound on what is explored together: Settings is open beside at most one
\* of the two asks.
OneAtATime == (edits = 0 /\ loads[None] = NoLoad) \/ asks[r1] = "new"
=============================================================================
