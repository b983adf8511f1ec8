--------------------------- MODULE MCAccountLookup ---------------------------
(* Three requests for accounts of one domain whose file gives a name or none.  *)
(* An entry lives three ticks and a GET may take two, so that an entry expires *)
(* while a GET is under way, and GETs of three requests overlap in every order.*)
EXTENDS AccountLookup
=============================================================================
