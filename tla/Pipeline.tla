------------------------------ MODULE Pipeline ------------------------------
(***************************************************************************)
(* src/sitesift/pipeline.py over the durable frontier: the sessions `run`,  *)
(* `reclassify` and `requeue` that follow each other on one database, with  *)
(* a kill, a Ctrl-C or a failing disk possible between any two commits.     *)
(*                                                                          *)
(* A session is one process.  Its workers share an event loop: between two  *)
(* awaits a worker runs alone, which Alone(u) says, but a kill can fall     *)
(* between two of its commits, so each commit is an action of its own.      *)
(* The fetch and the judging thread are the two awaits; what they return is *)
(* nondeterministic here and modelled in Fetcher and Ladder.                *)
(***************************************************************************)
EXTENDS Frontier, Sequences

CONSTANTS
    Inputs,         \* the input files: sequences of [kind, url] lines
    Filtered,       \* the URLs prefilter gives a skip reason for
    Blocking,       \* the pages whose flags are blocking
    FetchCodes,     \* the error codes the fetcher may return
    MaxConcurrency, \* settings.fetch.max_concurrency
    MaxLlm,         \* settings.classify.max_llm_concurrency
    Faults,         \* which of "crash", "interrupt", "write", "raise", "store" occur
    LiveRequeue,    \* the statuses `requeue` is run for while a session is working
    MaxSessions     \* bound on the number of sessions started

\* "url" normalizes to url; "malformed" raises NormalizationError; "raises"
\* raises anything else in the loop; "badscope" raises inside parse_input.
LineKinds == {"url", "malformed", "raises", "badscope"}
InputLines == [kind : LineKinds, url : Urls]

ASSUME PipelineAssumption ==
    /\ \A in \in Inputs : in \in Seq(InputLines)
    /\ Filtered \subseteq Urls
    /\ Blocking \subseteq Pages
    /\ FetchCodes \subseteq Codes \ {"E_UNEXPECTED"}
    /\ MaxConcurrency \in Int /\ MaxLlm \in Int
    /\ LiveRequeue \subseteq UrlStatus
    /\ MaxSessions \in Nat
    /\ IsFiniteSet(Urls)

VARIABLES
    command,    \* the command of the current or last session
    phase,      \* where that session is
    llm,        \* does the session have a model in the loop?
    lines,      \* the input lines a run has not populated yet
    sessions,   \* sessions started so far
    work,       \* where each URL's worker is
    held,       \* the worker's evidence variable
    verdict,    \* the worker's outcome variable
    fault,      \* the worker's error code
    stats,      \* the session's PipelineStats
    out         \* the last line the JSONL file holds for each URL

memory == <<llm, lines, work, held, verdict, fault, stats>>
control == <<command, phase, sessions>>
vars == <<store, memory, control, out>>

\* The counters; by_error is only a break-down of errors.
PipelineStats == [added : Nat, skipped : Nat, requeued : Nat,
                  classified : Nat, needsHuman : Nat, errors : Nat]
ZeroStats == [added |-> 0, skipped |-> 0, requeued |-> 0,
              classified |-> 0, needsHuman |-> 0, errors |-> 0]

Resting == {"idle", "ok", "aborted", "crashed"}
Phases == Resting \cup {"parse", "populate", "recovered", "work", "aborting"}

\* Worker states.  Hot: between two awaits, so no other worker moves.
Hot == {"begun", "errored", "judged", "raised", "poisoned"}
Waiting == {"queued", "fetching", "extracted"}   \* at an await a cancel can interrupt
Inside == Hot \cup {"fetching", "extracted", "judging"}
Closed == {"none", "done", "dropped", "thrown"}
WorkStates == Closed \cup Inside \cup {"queued"}

NoLine == [record |-> None, error |-> None]
VerdictLine(rec) == [record |-> rec, error |-> None]
ErrorLine(code) == [record |-> None, error |-> code]
Lines == [record : Records \cup {None}, error : Codes \cup {None}]

VerdictStatus == {"classified", "needs_human"}
ErrorStatus == {"failed_fetch", "blocked_robots", "blocked_robots_unavailable",
                "skipped_nonhtml", "skipped_too_large"}

\* _ERROR_STATUS, with failed_fetch for every code it does not list.
StatusFor(code) ==
    CASE code = "E_ROBOTS_BLOCK" -> "blocked_robots"
      [] code = "E_ROBOTS_UNAVAIL" -> "blocked_robots_unavailable"
      [] code = "E_NONHTML" -> "skipped_nonhtml"
      [] code \in {"E_TOO_LARGE", "E_BOMB"} -> "skipped_too_large"
      [] OTHER -> "failed_fetch"

\* What Ladder.classify may answer for a page, with or without a model.
Judgments(page) ==
    IF page \in Blocking THEN {[page |-> page, method |-> "blocked", human |-> FALSE]}
    ELSE IF ~llm THEN {[page |-> page, method |-> "blocked", human |-> TRUE]}
    ELSE [page : {page}, method : {"llm"}, human : BOOLEAN]
         \cup {[page |-> page, method |-> "failed", human |-> TRUE]}

\* anyio.Semaphore(max(1, n))
Permits(n) == IF n > 1 THEN n ELSE 1

Alone(u) == \A w \in Urls \ {u} : work[w] \notin Hot
-----------------------------------------------------------------------------
Init ==
    /\ StoreInit
    /\ command = "none" /\ phase = "idle" /\ llm = FALSE
    /\ lines = <<>> /\ sessions = 0
    /\ work = [u \in Urls |-> "none"]
    /\ held = [u \in Urls |-> None]
    /\ verdict = [u \in Urls |-> None]
    /\ fault = [u \in Urls |-> None]
    /\ stats = ZeroStats
    /\ out = [u \in Urls |-> NoLine]

\* The process is gone, and with it everything that was only in memory.
Forget ==
    /\ llm' = FALSE /\ lines' = <<>> /\ stats' = ZeroStats
    /\ work' = [u \in Urls |-> "none"]
    /\ held' = [u \in Urls |-> None]
    /\ verdict' = [u \in Urls |-> None]
    /\ fault' = [u \in Urls |-> None]

NewSession(cmd, ph, snapshot) ==
    /\ phase \in Resting
    /\ sessions < MaxSessions
    /\ sessions' = sessions + 1
    /\ command' = cmd /\ phase' = ph
    /\ llm' \in BOOLEAN
    /\ work' = [u \in Urls |-> IF u \in snapshot THEN "queued" ELSE "none"]
    /\ UNCHANGED <<store, held, verdict, fault, stats, out>>

StartRun ==
    /\ NewSession("run", "parse", {})
    /\ lines' \in Inputs

\* Every row with evidence gets a worker, whatever its status.
StartReclassify ==
    /\ NewSession("reclassify", "work", Reclassifiable)
    /\ UNCHANGED lines

\* `sitesift requeue --status s`: one transaction of a process of its own.
Requeue(s) ==
    /\ RequeueStatus(s)
    /\ \/ phase \in Resting /\ command' = "requeue" /\ phase' = "ok"
       \/ phase \notin Resting /\ s \in LiveRequeue /\ UNCHANGED <<command, phase>>
    /\ UNCHANGED <<memory, sessions, out>>

-----------------------------------------------------------------------------
\* parse_input runs to its end before the first add_url.
Parse ==
    /\ phase = "parse"
    /\ \A i \in DOMAIN lines : lines[i].kind # "badscope"
    /\ phase' = "populate"
    /\ UNCHANGED <<store, memory, command, sessions, out>>

ParseRaises ==
    /\ phase = "parse"
    /\ \E i \in DOMAIN lines : lines[i].kind = "badscope"
    /\ phase' = "aborted" /\ Forget
    /\ UNCHANGED <<store, command, sessions, out>>

AtLine(kind) == phase = "populate" /\ lines # <<>> /\ Head(lines).kind = kind

\* Only NormalizationError is caught in the populate loop.
SkipMalformed ==
    /\ AtLine("malformed")
    /\ lines' = Tail(lines)
    /\ stats' = [stats EXCEPT !.skipped = @ + 1]
    /\ UNCHANGED <<store, control, out, llm, work, held, verdict, fault>>

PopulateRaises ==
    /\ AtLine("raises")
    /\ phase' = "aborted" /\ Forget
    /\ UNCHANGED <<store, command, sessions, out>>

Populate ==
    /\ AtLine("url")
    /\ LET u == Head(lines).url
           new == IF Added(u) THEN 1 ELSE 0
           skip == IF u \in Filtered THEN new ELSE 0
       IN  /\ AddUrl(u, u \in Filtered)
           /\ stats' = [stats EXCEPT !.added = @ + new, !.skipped = @ + skip]
    /\ lines' = Tail(lines)
    /\ UNCHANGED <<control, out, llm, work, held, verdict, fault>>

Recover ==
    /\ phase = "populate" /\ lines = <<>>
    /\ phase' = "recovered"
    /\ RequeueStuck
    /\ stats' = [stats EXCEPT !.requeued = Cardinality({u \in Urls : status[u] = "fetching"})]
    /\ UNCHANGED <<command, sessions, out, llm, lines, work, held, verdict, fault>>

\* The pending rows of this moment get a worker each; later ones do not.
Launch ==
    /\ phase = "recovered"
    /\ phase' = "work"
    /\ work' = [u \in Urls |-> IF u \in PendingUrls THEN "queued" ELSE "none"]
    /\ UNCHANGED <<store, command, sessions, out, llm, lines, held, verdict, fault, stats>>

-----------------------------------------------------------------------------
\* Slip: an error path keeps its permit.
HasPermitLeaks(u) ==
    work[u] = "queued" =>
        Cardinality({w \in Urls : work[w] \in Inside \cup {"done"}}) < Permits(MaxConcurrency)

\* `async with sem`: one of max(1, max_concurrency) permits is free.
HasPermit(u) ==
    work[u] = "queued" =>
        Cardinality({w \in Urls : work[w] \in Inside}) < Permits(MaxConcurrency)

At(u, w) == phase \in {"work", "aborting"} /\ work[u] = w /\ Alone(u) /\ HasPermit(u)

Goto(u, w) == work' = [work EXCEPT ![u] = w]

\* The worker returns and its local variables go.
Finish(u, w) ==
    /\ Goto(u, w)
    /\ held' = [held EXCEPT ![u] = None]
    /\ verdict' = [verdict EXCEPT ![u] = None]
    /\ fault' = [fault EXCEPT ![u] = None]

\* The task group cancels the workers at an await; a thread that is judging is
\* shielded, and its worker runs on to the end.  What a worker threw ends it too.
Cancellable == {w \in Urls : work[w] \in Waiting}

Cancel(thrower) ==
    LET gone == Cancellable \cup thrower
    IN  /\ phase' = "aborting"
        /\ work' = [w \in Urls |-> IF w \in thrower THEN "thrown"
                                  ELSE IF w \in gone THEN "dropped" ELSE work[w]]
        /\ held' = [w \in Urls |-> IF w \in gone THEN None ELSE held[w]]
        /\ verdict' = [w \in Urls |-> IF w \in gone THEN None ELSE verdict[w]]
        /\ fault' = [w \in Urls |-> IF w \in gone THEN None ELSE fault[w]]
        /\ UNCHANGED <<store, command, sessions, llm, lines, stats>>

Begin(u) ==
    /\ At(u, "queued") /\ command = "run"
    /\ SetStatus(u, "fetching")
    /\ Goto(u, "begun")
    /\ UNCHANGED <<control, out, llm, lines, held, verdict, fault, stats>>

Bump(u) ==
    /\ At(u, "begun")
    /\ BumpAttempts(u)
    /\ Goto(u, "fetching")
    /\ UNCHANGED <<control, out, llm, lines, held, verdict, fault, stats>>

FetchOk(u) ==
    /\ At(u, "fetching")
    /\ \E page \in Pages :
          /\ SaveEvidence(u, page)
          /\ held' = [held EXCEPT ![u] = page]
    /\ Goto(u, "extracted")
    /\ UNCHANGED <<control, out, llm, lines, verdict, fault, stats>>

FetchFails(u) ==
    /\ At(u, "fetching")
    /\ \E code \in FetchCodes :
          /\ SetFailed(u, StatusFor(code), code)
          /\ fault' = [fault EXCEPT ![u] = code]
    /\ Goto(u, "errored")
    /\ UNCHANGED <<control, out, llm, lines, held, verdict, stats>>

\* The worker of `reclassify` starts from the stored evidence.
Load(u) ==
    /\ At(u, "queued") /\ command = "reclassify"
    /\ held' = [held EXCEPT ![u] = evidence[u]]
    /\ Goto(u, IF evidence[u] = None THEN "done" ELSE "extracted")
    /\ UNCHANGED <<store, control, out, llm, lines, verdict, fault, stats>>

\* _classify: a model in the loop adds the tighter gate.
StartJudging(u) ==
    /\ At(u, "extracted")
    /\ llm => Cardinality({w \in Urls : work[w] = "judging"}) < Permits(MaxLlm)
    /\ Goto(u, "judging")
    /\ UNCHANGED <<store, control, out, llm, lines, held, verdict, fault, stats>>

Judge(u) ==
    /\ At(u, "judging")
    /\ \E rec \in Judgments(held[u]) :
          /\ SavePageRecord(u, rec)
          /\ verdict' = [verdict EXCEPT ![u] = rec]
    /\ Goto(u, "judged")
    /\ UNCHANGED <<control, out, llm, lines, held, fault, stats>>

\* Slip: a deferred verdict is not counted as classified.
EmitMiscounts(u) ==
    /\ At(u, "judged")
    /\ out' = [out EXCEPT ![u] = VerdictLine(verdict[u])]
    /\ stats' = IF verdict[u].human THEN [stats EXCEPT !.needsHuman = @ + 1]
                ELSE [stats EXCEPT !.classified = @ + 1]
    /\ Finish(u, "done")
    /\ UNCHANGED <<store, control, llm, lines>>

Emit(u) ==
    /\ At(u, "judged")
    /\ out' = [out EXCEPT ![u] = VerdictLine(verdict[u])]
    /\ stats' = [stats EXCEPT !.classified = @ + 1,
                              !.needsHuman = IF verdict[u].human THEN @ + 1 ELSE @]
    /\ Finish(u, "done")
    /\ UNCHANGED <<store, control, llm, lines>>

\* The last steps of _handle_error and of _handle_unexpected.
EmitError(u) ==
    /\ At(u, "errored") \/ At(u, "poisoned")
    /\ out' = [out EXCEPT ![u] = ErrorLine(fault[u])]
    /\ stats' = [stats EXCEPT !.errors = @ + 1]
    /\ Finish(u, "done")
    /\ UNCHANGED <<store, control, llm, lines>>

-----------------------------------------------------------------------------
\* Where each kind of exception can leave a worker.  "raise": the fetch, the
\* extraction or the judging thread raises; "store": a transaction fails and
\* rolls back; "write": the JSONL line cannot be flushed.
RaiseSites ==
    [raise |-> {"fetching", "judging"},
     store |-> {"queued", "begun", "fetching", "judging", "raised"},
     write |-> {"judged", "errored", "poisoned"}]

\* A line that failed to flush stays in the buffer and may land later.
LineOf(u) == IF work[u] = "judged" THEN VerdictLine(verdict[u]) ELSE ErrorLine(fault[u])

Throws(u) ==
    \E kind \in Faults \cap DOMAIN RaiseSites :
        /\ \E w \in RaiseSites[kind] : At(u, w)
        /\ \/ UNCHANGED out
           \/ kind = "write" /\ out' = [out EXCEPT ![u] = LineOf(u)]

\* Slip: the worker has no `except Exception`.
RaiseUncaught(u) ==
    /\ command = "run" /\ work[u] \notin {"raised", "poisoned"}
    /\ Throws(u)
    /\ Cancel({u})

\* `except Exception` around _process, in the worker of `run` only.
Raise(u) ==
    /\ command = "run" /\ work[u] \notin {"raised", "poisoned"}
    /\ Throws(u)
    /\ Goto(u, "raised")
    /\ UNCHANGED <<store, control, llm, lines, held, verdict, fault, stats>>

\* Slip: the failure is set without its error code.
HandleUnexpectedSilently(u) ==
    /\ At(u, "raised")
    /\ SetStatus(u, "failed_fetch")
    /\ fault' = [fault EXCEPT ![u] = "E_UNEXPECTED"]
    /\ Goto(u, "poisoned")
    /\ UNCHANGED <<control, out, llm, lines, held, verdict, stats>>

HandleUnexpected(u) ==
    /\ At(u, "raised")
    /\ SetFailed(u, "failed_fetch", "E_UNEXPECTED")
    /\ fault' = [fault EXCEPT ![u] = "E_UNEXPECTED"]
    /\ Goto(u, "poisoned")
    /\ UNCHANGED <<control, out, llm, lines, held, verdict, stats>>

\* An exception nobody catches: from the handler itself, or in `reclassify`.
Abort(u) ==
    /\ command = "reclassify" \/ work[u] \in {"raised", "poisoned"}
    /\ Throws(u)
    /\ Cancel({u})

\* Ctrl-C cancels the main task.
Interrupt ==
    /\ "interrupt" \in Faults
    /\ phase = "work" /\ \A u \in Urls : work[u] \notin Hot
    /\ Cancel({})
    /\ UNCHANGED out

\* The task group is empty: close everything and leave.
Close ==
    /\ phase \in {"work", "aborting"}
    /\ \A u \in Urls : work[u] \in Closed
    /\ phase' = IF phase = "work" THEN "ok" ELSE "aborted"
    /\ Forget
    /\ UNCHANGED <<store, command, sessions, out>>

\* kill -9 at any moment of a session.
Crash ==
    /\ "crash" \in Faults /\ phase \notin Resting
    /\ phase' = "crashed"
    /\ Forget
    /\ UNCHANGED <<store, command, sessions, out>>

-----------------------------------------------------------------------------
Step(u) ==
    \/ Begin(u) \/ Bump(u) \/ FetchOk(u) \/ FetchFails(u) \/ Load(u)
    \/ StartJudging(u) \/ Judge(u) \/ Emit(u) \/ EmitError(u)
    \/ Raise(u) \/ HandleUnexpected(u) \/ Abort(u)

Prepare ==
    \/ Parse \/ ParseRaises \/ SkipMalformed \/ PopulateRaises \/ Populate
    \/ Recover \/ Launch

Next ==
    \/ StartRun \/ StartReclassify \/ Prepare \/ Close
    \/ \E u \in Urls : Step(u)
    \/ \E s \in UrlStatus : Requeue(s)
    \/ Interrupt \/ Crash

Spec == Init /\ [][Next]_vars

\* A live process keeps running: the loop runs every ready task, a fetch
\* ends (Fetcher) and a judging thread ends (its HTTP client times out).
FairSpec ==
    /\ Spec
    /\ WF_vars(Prepare) /\ WF_vars(Close)
    /\ \A u \in Urls : WF_vars(Step(u))

(***************************************************************************)
(* Properties                                                               *)
(***************************************************************************)
\* Every variable has a value of its type.
TypeOK ==
    /\ StoreTypeOK
    /\ command \in {"none", "run", "reclassify", "requeue"}
    /\ phase \in Phases
    /\ llm \in BOOLEAN
    /\ lines \in Seq(InputLines)
    /\ sessions \in Nat
    /\ work \in [Urls -> WorkStates]
    /\ held \in [Urls -> Pages \cup {None}]
    /\ verdict \in [Urls -> Records \cup {None}]
    /\ fault \in [Urls -> Codes \cup {None}]
    /\ stats \in PipelineStats
    /\ out \in [Urls -> Lines]

\* A row that says classified or needs_human has a page record, the record
\* judges the very page whose evidence is stored, and needs_human is exactly a
\* verdict left to a human, in whatever order fetches, crashes, requeues and
\* reclassifications came (save_evidence and save_page_record are separate
\* transactions).
EvidenceBacksVerdict ==
    \A u \in Urls : status[u] \in VerdictStatus =>
        /\ record[u] # None
        /\ record[u].page = evidence[u]
        /\ (status[u] = "needs_human") = record[u].human

\* A row that left the fetch without a verdict still has the evidence that
\* `reclassify` needs: the two-phase flow never has to fetch it again.
ExtractedIsJudgeable ==
    \A u \in Urls : status[u] = "extracted" => u \in Reclassifiable

\* Once a run has recovered, a row in "fetching" belongs to a live worker that
\* is at its fetch: requeue_stuck takes back every stuck row, and no exception
\* path leaves a row looking busy when its worker is gone.
FetchingIsOwned ==
    \A u \in Urls :
        command = "run" /\ phase \in {"recovered", "work"} /\ status[u] = "fetching"
        => work[u] \in {"begun", "fetching", "raised"}

\* When a worker is done, the last line written for its URL says what the
\* frontier says: the stored verdict, or the recorded error; a disk that fails
\* between the two is reported as that URL's error, never as a silent success.
DoneMatchesOutput ==
    \A u \in Urls : work[u] = "done" =>
        /\ status[u] \in VerdictStatus => out[u] = VerdictLine(record[u])
        /\ status[u] \in ErrorStatus => out[u] = ErrorLine(lastError[u])

\* The counters printed at the end account for every worker that finished,
\* each exactly once, on the normal and on both error paths.
StatsAddUp ==
    /\ stats.classified + stats.errors = Cardinality({u \in Urls : work[u] = "done"})
    /\ stats.needsHuman <= stats.classified

\* A run that ends leaves no row to do: all that was pending or stuck when it
\* started was taken, and nothing it took is left in the middle of its fetch.
RunDrains ==
    phase = "ok" /\ command = "run" =>
        \A u \in Urls : status[u] \notin {"pending", "fetching"}

\* Resuming touches nothing that is finished: a row that reached a terminal
\* status and has no worker at it changes only by an explicit requeue.
Terminal == VerdictStatus \cup ErrorStatus \cup {"skipped_filter"}

OnlyReopened(u) ==
    status[u] \in Terminal /\ work[u] \in Closed /\ status'[u] # status[u]
    => /\ status'[u] = "pending"
       /\ lastError'[u] = None /\ attempts'[u] = 0

LeavesFinished == \A u \in Urls : OnlyReopened(u)

FinishedStays == [][LeavesFinished]_vars

\* Every session ends by itself, also after an exception cancelled the rest.
SessionEnds == (phase \notin Resting) ~> (phase \in Resting)

\* One URL never aborts a run (the comment at the worker's except): whatever the
\* fetch, the extraction or the judging of the others raises, every URL a run has
\* taken comes to its end, unless somebody interrupts the run.  The store and the
\* output file work, or the handler itself fails and takes the batch with it.
Interrupted == phase = "aborting" /\ \A w \in Urls : work[w] # "thrown"

RunSurvives ==
    \A u \in Urls :
        (command = "run" /\ phase = "work" /\ work[u] = "queued")
            ~> (work[u] = "done" \/ Interrupted)

\* Every URL goes through its state machine and nothing else, whatever becomes
\* of the sessions, workers and processes that work at it.
Lifecycle == INSTANCE UrlLifecycle WITH busy <- {u \in Urls : work[u] \notin Closed}

FollowsLifecycle == Lifecycle!Spec

(***************************************************************************)
(* The inductive invariant behind the theorems of PipelineProofs            *)
(***************************************************************************)
\* Only a session that works has workers, and only a run prepares.
NoStrayWork == phase \notin {"work", "aborting"} => \A u \in Urls : work[u] = "none"
OnlyRunPrepares == phase \in {"parse", "populate", "recovered"} => command = "run"

\* What a worker holds while it judges is what the frontier stores.
HeldIsEvidence ==
    \A u \in Urls : work[u] \in {"extracted", "judging"} =>
        held[u] # None /\ held[u] = evidence[u]

\* A worker of `reclassify` finds the evidence its row was selected for.
LoadFinds ==
    command = "reclassify" => \A u \in Urls : work[u] = "queued" => evidence[u] # None

\* What a worker is about to write is what it stored, unless the row was
\* requeued under it.
VerdictReady ==
    \A u \in Urls : work[u] = "judged" =>
        /\ verdict[u] # None /\ verdict[u] = record[u]
        /\ status[u] \in VerdictStatus \cup {"pending"}

ErrorReady ==
    \A u \in Urls : work[u] \in {"errored", "poisoned"} =>
        \/ status[u] = "pending"
        \/ status[u] \in ErrorStatus /\ lastError[u] = fault[u]

\* A row is fetched from "pending" only, and stays out of the way of its fetch
\* unless it is requeued under it; FollowsLifecycle needs it besides IInv.
FetchesPending ==
    \A u \in Urls :
        /\ command = "run" /\ work[u] = "queued" => status[u] = "pending"
        /\ work[u] \in {"begun", "fetching"} => status[u] \in {"fetching", "pending"}

IInv ==
    /\ TypeOK /\ NoStrayWork /\ OnlyRunPrepares
    /\ HeldIsEvidence /\ EvidenceBacksVerdict /\ ExtractedIsJudgeable
    /\ FetchingIsOwned
    /\ LoadFinds /\ VerdictReady /\ ErrorReady /\ DoneMatchesOutput

(***************************************************************************)
(* Claims of the repository's text that the code does not keep              *)
(***************************************************************************)
\* "a kill -9 at any point leaves a consistent frontier that --resume continues
\* from": a later run to its end leaves no row half-way.
ResumeContinues ==
    phase = "ok" /\ command = "run" =>
        \A u \in Urls : status[u] \notin {"fetching", "extracted"}

\* normalize_url "raises NormalizationError for empty/unparseable input", which
\* the populate loop skips: no input line ends a run.
PopulateSurvives == [][phase = "populate" => phase' # "aborted"]_vars
=============================================================================
