----------------------------- MODULE Daemon_MC -----------------------------
(***************************************************************************)
(* Two processes after each other, a call, and two clients of the status.  *)
(***************************************************************************)
EXTENDS Daemon

CONSTANTS s1, r1, r2
=============================================================================
