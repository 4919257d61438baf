--------------------------- MODULE MCHandlerLocks ---------------------------
(* HandlerLocks on a small instance. *)
EXTENDS HandlerLocks, TLC
=============================================================================
