----------------------------- MODULE MCProcesses -----------------------------
(* A small instance of Processes for TLC: both are given the same file. *)
EXTENDS Processes, TLC

CONSTANTS a, b, p   \* URLs and a page content

File == { <<[kind |-> "url", url |-> a]>> }

=============================================================================
