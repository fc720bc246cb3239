------------------------- MODULE MC_ProcessIdentity -------------------------
(* Three distinct names, so that later definitions differ from the first. *)
EXTENDS ProcessIdentity

MCNames == { Tok("name", 1, 3), Tok("name", 2, 3), Tok("name", 3, 3) }
=============================================================================
