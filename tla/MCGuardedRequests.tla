-------------------------- MODULE MCGuardedRequests --------------------------
(* The registry with guards and handlers apart, for checking with TLC.     *)
EXTENDS MCCondominiumRegistry, GuardedRequests
=============================================================================
