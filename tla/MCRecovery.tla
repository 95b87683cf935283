------------------------------ MODULE MCRecovery ------------------------------
(***************************************************************************)
(* The guided repair over two targets.  The guard allows one attempt and   *)
(* one wipe, so the repair Init may already hold uses each of them up.     *)
(***************************************************************************)
EXTENDS Recovery

=============================================================================
