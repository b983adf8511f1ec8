--------------------------------- MODULE Option ---------------------------------
(***************************************************************************)
(* What is absent.  The modules of the backend share one value for the     *)
(* variant None of an Option<T> of Rust, for a field that Horizon leaves   *)
(* out, and for an answer that has not come.                               *)
(***************************************************************************)
CONSTANTS None
=============================================================================
