----------------------------- MODULE MCSession -----------------------------
(* Instances of Session for TLC.  Sessions share nothing but the process,  *)
(* so one already shows every interleaving of a session's own callbacks.   *)
EXTENDS SessionInv

CONSTANT s1

=============================================================================
