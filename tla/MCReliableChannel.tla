------------------------- MODULE MCReliableChannel -------------------------
(* ReliableChannel on small instances for TLC.                             *)
EXTENDS ReliableChannel
=============================================================================
