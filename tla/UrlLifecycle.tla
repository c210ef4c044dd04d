---------------------------- MODULE UrlLifecycle ----------------------------
(***************************************************************************)
(* The URL state machine that models.py (UrlStatus) speaks of, as the rest  *)
(* of the system may rely on it: what can become of the row of a URL, with  *)
(* nothing about sessions, workers, permits, exceptions or files.  A URL is *)
(* busy while some worker is responsible for it; URLs move independently.   *)
(***************************************************************************)
EXTENDS Integers

CONSTANTS Urls, Pages, Codes, None

VARIABLES status, attempts, lastError, evidence, record, busy

vars == <<status, attempts, lastError, evidence, record, busy>>

Failures == {"failed_fetch", "blocked_robots", "blocked_robots_unavailable",
             "skipped_nonhtml", "skipped_too_large"}

Init ==
    /\ status = [u \in Urls |-> "absent"]
    /\ attempts = [u \in Urls |-> 0]
    /\ lastError = [u \in Urls |-> None]
    /\ evidence = [u \in Urls |-> None]
    /\ record = [u \in Urls |-> None]
    /\ busy = {}

-----------------------------------------------------------------------------
KeepsWork(u) == (u \in busy') = (u \in busy)
KeepsHistory(u) == attempts'[u] = attempts[u] /\ lastError'[u] = lastError[u]
KeepsFindings(u) == evidence'[u] = evidence[u] /\ record'[u] = record[u]
KeepsRow(u) == status'[u] = status[u] /\ KeepsHistory(u) /\ KeepsFindings(u)

Stay(u) == KeepsRow(u) /\ KeepsWork(u)

\* A URL is listed once, to be fetched or to be left alone.
List(u) ==
    /\ u \notin busy /\ status[u] = "absent"
    /\ status'[u] \in {"pending", "skipped_filter"}
    /\ KeepsHistory(u) /\ KeepsFindings(u) /\ KeepsWork(u)

\* Work begins on a pending row, or on one with evidence to judge again.
TakeUp(u) ==
    /\ u \notin busy /\ u \in busy'
    /\ status[u] = "pending" \/ evidence[u] # None
    /\ KeepsRow(u)

\* Work ends, well or badly; the row says how far it came.
LetGo(u) == u \in busy /\ u \notin busy' /\ KeepsRow(u)

\* Only a pending row is fetched.
Fetch(u) ==
    /\ u \in busy /\ status[u] = "pending"
    /\ status'[u] = "fetching"
    /\ KeepsHistory(u) /\ KeepsFindings(u) /\ KeepsWork(u)

CountAttempt(u) ==
    /\ u \in busy /\ status[u] \in {"fetching", "pending"}
    /\ attempts'[u] = attempts[u] + 1
    /\ status'[u] = status[u] /\ lastError'[u] = lastError[u]
    /\ KeepsFindings(u) /\ KeepsWork(u)

\* A fetch brings new evidence.  A row requeued meanwhile takes it all the same.
Extract(u) ==
    /\ u \in busy /\ status[u] \in {"fetching", "pending"}
    /\ status'[u] = "extracted"
    /\ evidence'[u] \in Pages /\ record'[u] = record[u]
    /\ KeepsHistory(u) /\ KeepsWork(u)

\* A verdict is about the evidence that is stored.
Judge(u) ==
    /\ u \in busy /\ evidence[u] # None
    /\ \E human \in BOOLEAN, method \in {"blocked", "llm", "failed"} :
          /\ record'[u] = [page |-> evidence[u], method |-> method, human |-> human]
          /\ status'[u] = IF human THEN "needs_human" ELSE "classified"
    /\ evidence'[u] = evidence[u]
    /\ KeepsHistory(u) /\ KeepsWork(u)

\* What is known of the page survives a failure.
Fail(u) ==
    /\ u \in busy
    /\ status'[u] \in Failures /\ lastError'[u] \in Codes
    /\ attempts'[u] = attempts[u]
    /\ KeepsFindings(u) /\ KeepsWork(u)

\* A row left in its fetch with nobody at it is taken back.
Recover(u) ==
    /\ u \notin busy /\ status[u] = "fetching"
    /\ status'[u] = "pending"
    /\ KeepsHistory(u) /\ KeepsFindings(u) /\ KeepsWork(u)

\* The operator may ask for any row again, at any time; what is known of the
\* page stays until a fetch replaces it.
Requeue(u) ==
    /\ status[u] # "absent"
    /\ status'[u] = "pending" /\ attempts'[u] = 0 /\ lastError'[u] = None
    /\ KeepsFindings(u) /\ KeepsWork(u)

Move(u) ==
    \/ List(u) \/ TakeUp(u) \/ LetGo(u) \/ Fetch(u) \/ CountAttempt(u) \/ Extract(u)
    \/ Judge(u) \/ Fail(u) \/ Recover(u) \/ Requeue(u)

Next == \A u \in Urls : Move(u) \/ Stay(u)

Spec == Init /\ [][Next]_vars
=============================================================================
