--------------------------- MODULE MCHostLimiter ---------------------------
(* Small instances of HostLimiter for TLC. *)
EXTENDS HostLimiter, TLC

CONSTANTS t1, t2, t3, h1, h2
=============================================================================
