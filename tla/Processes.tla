------------------------------ MODULE Processes ------------------------------
(***************************************************************************)
(* Two sitesift processes on one database and one output file: nothing in   *)
(* cli.py or store.py stops a second `run`, `reclassify` or `requeue` from  *)
(* being started beside a first one.  SQLite serializes the transactions;   *)
(* each process has the memory of a Pipeline of its own and neither knows   *)
(* of the other.  The first process keeps the variables of Pipeline, the    *)
(* second one has those with a 2.                                           *)
(***************************************************************************)
EXTENDS Pipeline

CONSTANT MaxSessions2   \* bound on the sessions the second process starts

ASSUME ProcessesAssumption == MaxSessions2 \in Nat

VARIABLES command2, phase2, llm2, lines2, sessions2, work2, held2, verdict2, fault2, stats2

private2 == <<command2, phase2, llm2, lines2, sessions2, work2, held2, verdict2, fault2, stats2>>
bothVars == <<vars, private2>>

Other == INSTANCE Pipeline WITH
    MaxSessions <- MaxSessions2,
    command <- command2, phase <- phase2, llm <- llm2, lines <- lines2,
    sessions <- sessions2, work <- work2, held <- held2, verdict <- verdict2,
    fault <- fault2, stats <- stats2

BothInit == Init /\ Other!Init

BothNext ==
    \/ Next /\ UNCHANGED private2
    \/ Other!Next /\ UNCHANGED <<memory, control>>

BothSpec == BothInit /\ [][BothNext]_bothVars

(***************************************************************************)
(* Properties                                                               *)
(***************************************************************************)
\* requeue_stuck takes rows from under the other process, which goes on with
\* them all the same: when the last run of each has come to its end, whichever
\* was last, no row is left pending or stuck in its fetch.
JointlyDrained ==
    /\ phase = "ok" /\ command = "run"
    /\ phase2 = "ok" /\ command2 = "run"
    => \A u \in Urls : status[u] \notin {"pending", "fetching"}

\* While two recovered runs work side by side, a row in "fetching" still has a
\* live worker at its fetch, in one of them: none of their resets and errors
\* leaves a row that looks busy with nobody at it.
FetchingHasOwner ==
    /\ command = "run" /\ phase \in {"recovered", "work"}
    /\ command2 = "run" /\ phase2 \in {"recovered", "work"}
    => \A u \in Urls : status[u] = "fetching" =>
          {work[u], work2[u]} \cap {"begun", "fetching", "raised"} # {}

\* A finished row at which neither process has a worker stays as it is, however
\* the other one populates, recovers, crashes or resumes; only `requeue` may
\* reopen it.
JointlyFinishedStays ==
    [][\A u \in Urls : work2[u] \in Closed => OnlyReopened(u)]_bothVars
=============================================================================
