-------------------------------- MODULE MCHealth --------------------------------
(* Every environment and two polls that overtake each other. *)
EXTENDS Health
=============================================================================
