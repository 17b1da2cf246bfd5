---------------------------- MODULE MCJobSystem ----------------------------
(* JobSystem with small sets of workers and jobs for TLC.                  *)
EXTENDS JobSystem
=============================================================================
