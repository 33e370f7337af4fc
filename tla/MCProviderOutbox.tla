-------------------------- MODULE MCProviderOutbox --------------------------
(***************************************************************************)
(* Two edits of one ticket and one of another.                             *)
(***************************************************************************)
EXTENDS ProviderOutbox

MCTicketOf == [o \in {"a", "b", "c"} |-> IF o = "c" THEN "u" ELSE "t"]
MCBatches == {<<"a", "b">>, <<"c">>, <<"b", "a", "c">>}
=============================================================================
