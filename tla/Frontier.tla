------------------------------ MODULE Frontier ------------------------------
(***************************************************************************)
(* The SQLite frontier of sitesift (src/sitesift/frontier/store.py): one    *)
(* operator per FrontierStore method the pipeline and the CLI call.  Every  *)
(* method runs in one `with self._conn:` block, so each operator is one     *)
(* committed transaction and says what it does to every column modelled.    *)
(*                                                                          *)
(* Columns kept: urls.status, urls.attempts, urls.last_error_code, the      *)
(* evidence row and the page_records row.  Timestamps, http_status, tags,   *)
(* scope and the domains table are written and never read back by the code. *)
(* An evidence payload is abstracted to the page it was extracted from.     *)
(***************************************************************************)
EXTENDS Integers, FiniteSets

CONSTANTS
    Urls,       \* normalized URLs, the primary key of every table
    Pages,      \* the page contents a fetch can return
    None        \* SQL NULL, or a row that is not there

\* The ErrorCode values a URL can end its run with; E_ROBOTS_UNAVAIL still has its
\* status in the table of the pipeline, and no producer.
Codes ==
    {"E_DNS", "E_CONNECT", "E_TIMEOUT", "E_TOO_LARGE", "E_BOMB", "E_NONHTML",
     "E_REDIRECT_LOOP", "E_ROBOTS_BLOCK", "E_ROBOTS_UNAVAIL", "E_SSRF_BLOCKED",
     "E_HTTP_4XX", "E_HTTP_5XX", "E_RATE_LIMIT", "E_UNEXPECTED"}

\* A verdict as page_records keeps it: the page it judges (no column names the
\* page, the model remembers it), the method, and whether it was left to a human,
\* which save_page_record turns into the status.
Records == [page : Pages, method : {"blocked", "llm", "failed"}, human : BOOLEAN]

ASSUME FrontierAssumption ==
    /\ None \notin Pages
    /\ None \notin Codes
    /\ None \notin Records

VARIABLES
    status,     \* urls.status, or "absent" while the URL has no row
    attempts,   \* urls.attempts
    lastError,  \* urls.last_error_code
    evidence,   \* the page behind the evidence row
    record      \* the page_records row

store == <<status, attempts, lastError, evidence, record>>

\* Every member of the UrlStatus enumeration, reachable or not.
UrlStatus ==
    {"pending", "fetching", "fetched", "failed_fetch", "dead", "blocked_robots",
     "blocked_robots_unavailable", "skipped_filter", "skipped_nonhtml",
     "skipped_too_large", "extracted", "classified", "needs_human", "done"}

StoreTypeOK ==
    /\ status \in [Urls -> UrlStatus \cup {"absent"}]
    /\ attempts \in [Urls -> Nat]
    /\ lastError \in [Urls -> Codes \cup {None}]
    /\ evidence \in [Urls -> Pages \cup {None}]
    /\ record \in [Urls -> Records \cup {None}]

StoreInit ==
    /\ status = [u \in Urls |-> "absent"]
    /\ attempts = [u \in Urls |-> 0]
    /\ lastError = [u \in Urls |-> None]
    /\ evidence = [u \in Urls |-> None]
    /\ record = [u \in Urls |-> None]

-----------------------------------------------------------------------------
\* Slips a maintainer could make in the methods below; a run shows that each
\* one breaks the property that depends on it.

\* INSERT OR REPLACE: listing a URL again resets its row.
AddUrlReplaces(u, skip) ==
    /\ status' = [status EXCEPT ![u] = IF skip THEN "skipped_filter" ELSE "pending"]
    /\ UNCHANGED <<attempts, lastError, evidence, record>>

\* The error code lands in the status column.
SetFailedSwapped(u, s, code) ==
    /\ status' = [status EXCEPT ![u] = code]
    /\ lastError' = [lastError EXCEPT ![u] = s]
    /\ UNCHANGED <<attempts, evidence, record>>

\* No start-up recovery.
RequeueStuckSkipped == UNCHANGED store

\* The recorded error survives the requeue.
RequeueStatusKeepsError(s) ==
    /\ status' = [u \in Urls |-> IF status[u] = s THEN "pending" ELSE status[u]]
    /\ UNCHANGED <<attempts, lastError, evidence, record>>

\* INSERT OR IGNORE of the evidence: the first page fetched stays.
SaveEvidenceIgnores(u, page) ==
    /\ evidence' = [evidence EXCEPT ![u] = IF @ = None THEN page ELSE @]
    /\ status' = [status EXCEPT ![u] = "extracted"]
    /\ UNCHANGED <<attempts, lastError, record>>

\* Rows that were tried before are not offered again.
PendingUrlsUntried == {u \in Urls : status[u] = "pending" /\ attempts[u] = 0}

\* Rows whose evidence was never judged are fetched once more.
PendingUrlsExtracted == {u \in Urls : status[u] \in {"pending", "extracted"}}

-----------------------------------------------------------------------------
\* INSERT OR IGNORE: a URL that already has a row keeps it untouched.
AddUrl(u, skip) ==
    /\ status' = IF status[u] = "absent"
                 THEN [status EXCEPT ![u] = IF skip THEN "skipped_filter" ELSE "pending"]
                 ELSE status
    /\ UNCHANGED <<attempts, lastError, evidence, record>>

Added(u) == status[u] = "absent"

\* set_status without fields: the recorded error, if any, stays.
SetStatus(u, s) ==
    /\ status' = [status EXCEPT ![u] = s]
    /\ UNCHANGED <<attempts, lastError, evidence, record>>

\* set_status(..., last_error_code=code)
SetFailed(u, s, code) ==
    /\ status' = [status EXCEPT ![u] = s]
    /\ lastError' = [lastError EXCEPT ![u] = code]
    /\ UNCHANGED <<attempts, evidence, record>>

BumpAttempts(u) ==
    /\ attempts' = [attempts EXCEPT ![u] = @ + 1]
    /\ UNCHANGED <<status, lastError, evidence, record>>

\* Start-up recovery: only rows left in "fetching" go back to "pending".
RequeueStuck ==
    /\ status' = [u \in Urls |-> IF status[u] = "fetching" THEN "pending" ELSE status[u]]
    /\ UNCHANGED <<attempts, lastError, evidence, record>>

\* Operator-driven requeue of a whole status class: the error and the attempt
\* count go, the evidence and page_records rows stay.
RequeueStatus(s) ==
    LET hit == {u \in Urls : status[u] = s}
    IN  /\ status' = [u \in Urls |-> IF u \in hit THEN "pending" ELSE status[u]]
        /\ lastError' = [u \in Urls |-> IF u \in hit THEN None ELSE lastError[u]]
        /\ attempts' = [u \in Urls |-> IF u \in hit THEN 0 ELSE attempts[u]]
        /\ UNCHANGED <<evidence, record>>

SaveEvidence(u, page) ==
    /\ evidence' = [evidence EXCEPT ![u] = page]
    /\ status' = [status EXCEPT ![u] = "extracted"]
    /\ UNCHANGED <<attempts, lastError, record>>

SavePageRecord(u, rec) ==
    /\ record' = [record EXCEPT ![u] = rec]
    /\ status' = [status EXCEPT ![u] = IF rec.human THEN "needs_human" ELSE "classified"]
    /\ UNCHANGED <<attempts, lastError, evidence>>

-----------------------------------------------------------------------------
PendingUrls == {u \in Urls : status[u] = "pending"}

\* Every URL with an evidence row, whatever its status.
Reclassifiable == {u \in Urls : status[u] # "absent" /\ evidence[u] # None}
=============================================================================
