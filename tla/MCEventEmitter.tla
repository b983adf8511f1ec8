---------------------------- MODULE MCEventEmitter ----------------------------
(* One name, two handlers, three events, three registrations and one flush by  *)
(* user code: enough for a handler to track an event, to flush it before the   *)
(* outer flush has called the other handler, and to change the list it is      *)
(* called from.                                                                *)
EXTENDS EventEmitter
=============================================================================
