--------------------------- MODULE PipelineProofs ---------------------------
(***************************************************************************)
(* Theorems about Pipeline for any URLs, pages, input files, concurrency,   *)
(* faults and number of sessions.                                           *)
(***************************************************************************)
EXTENDS Pipeline, FiniteSetTheorems, TLAPS

\* What the invariant says of one URL, its rows, its worker and its line.
Local(u) ==
    /\ work[u] \in {"extracted", "judging"} => held[u] # None /\ held[u] = evidence[u]
    /\ status[u] \in VerdictStatus =>
          /\ record[u] # None /\ record[u].page = evidence[u]
          /\ (status[u] = "needs_human") = record[u].human
    /\ status[u] = "extracted" => evidence[u] # None
    /\ command = "run" /\ phase \in {"recovered", "work"} /\ status[u] = "fetching"
          => work[u] \in {"begun", "fetching", "raised"}
    /\ command = "reclassify" /\ work[u] = "queued" => evidence[u] # None
    /\ work[u] = "judged" =>
          /\ verdict[u] # None /\ verdict[u] = record[u]
          /\ status[u] \in VerdictStatus \cup {"pending"}
    /\ work[u] \in {"errored", "poisoned"} =>
          \/ status[u] = "pending"
          \/ status[u] \in ErrorStatus /\ lastError[u] = fault[u]
    /\ work[u] = "done" =>
          /\ status[u] \in VerdictStatus => out[u] = VerdictLine(record[u])
          /\ status[u] \in ErrorStatus => out[u] = ErrorLine(lastError[u])

LEMMA IInvIsLocal ==
    IInv <=> TypeOK /\ NoStrayWork /\ OnlyRunPrepares /\ \A u \in Urls : Local(u)
BY DEF IInv, Local, HeldIsEvidence, EvidenceBacksVerdict, ExtractedIsJudgeable, Reclassifiable,
       FetchingIsOwned, LoadFinds, VerdictReady, ErrorReady, DoneMatchesOutput

\* A step of the worker of u moves nothing of another URL.
OthersStay(u) ==
    \A w \in Urls \ {u} :
        /\ status'[w] = status[w] /\ lastError'[w] = lastError[w]
        /\ evidence'[w] = evidence[w] /\ record'[w] = record[w]
        /\ work'[w] = work[w] /\ held'[w] = held[w] /\ verdict'[w] = verdict[w]
        /\ fault'[w] = fault[w] /\ out'[w] = out[w]

LEMMA WorkerKeeps ==
    ASSUME IInv, NEW u \in Urls, phase \in {"work", "aborting"}, UNCHANGED control,
           OthersStay(u), TypeOK', Local(u)'
    PROVE  IInv'
<1>1. \A w \in Urls : Local(w)
  BY IInvIsLocal
<1>2. ASSUME NEW w \in Urls, w # u PROVE Local(w)'
  BY <1>1, <1>2 DEF Local, OthersStay, control
<1>3. NoStrayWork' /\ OnlyRunPrepares'
  BY DEF NoStrayWork, OnlyRunPrepares, control
<1>4. (\A w \in Urls : Local(w))'
  BY <1>2
<1> QED BY <1>3, <1>4
        DEF IInv, Local, HeldIsEvidence, EvidenceBacksVerdict, ExtractedIsJudgeable,
            Reclassifiable, FetchingIsOwned, LoadFinds, VerdictReady, ErrorReady, DoneMatchesOutput

LEMMA AtSays ==
    ASSUME NEW u, NEW w, At(u, w)
    PROVE  phase \in {"work", "aborting"} /\ work[u] = w
BY DEF At

LEMMA BeginKeeps ==
    ASSUME IInv, NEW u \in Urls, Begin(u)
    PROVE  IInv'
<1>1. TypeOK /\ Local(u) /\ phase \in {"work", "aborting"} /\ work[u] = "queued"
  BY IInvIsLocal, AtSays DEF Begin
<1> USE <1>1 DEF Begin, SetStatus, Goto, control
<1>2. TypeOK'
  BY DEF TypeOK, StoreTypeOK, UrlStatus, WorkStates, Inside, Hot
<1>3. OthersStay(u)
  BY DEF OthersStay, TypeOK, StoreTypeOK
<1>4. Local(u)'
  BY DEF Local, TypeOK, StoreTypeOK, VerdictStatus, ErrorStatus
<1> QED BY <1>2, <1>3, <1>4, WorkerKeeps

LEMMA BumpKeeps ==
    ASSUME IInv, NEW u \in Urls, Bump(u)
    PROVE  IInv'
<1>1. TypeOK /\ Local(u) /\ phase \in {"work", "aborting"} /\ work[u] = "begun"
  BY IInvIsLocal, AtSays DEF Bump
<1> USE <1>1 DEF Bump, BumpAttempts, Goto, control
<1>2. TypeOK'
  BY DEF TypeOK, StoreTypeOK, WorkStates, Inside, Hot, Closed
<1>3. OthersStay(u)
  BY DEF OthersStay, TypeOK, StoreTypeOK
<1>4. Local(u)'
  BY DEF Local, TypeOK, StoreTypeOK, VerdictStatus, ErrorStatus
<1> QED BY <1>2, <1>3, <1>4, WorkerKeeps

\* The evidence row and what the worker holds are the same page.
LEMMA FetchOkKeeps ==
    ASSUME IInv, NEW u \in Urls, FetchOk(u)
    PROVE  IInv'
<1>1. TypeOK /\ Local(u) /\ phase \in {"work", "aborting"} /\ work[u] = "fetching"
  BY IInvIsLocal, AtSays DEF FetchOk
<1>5. PICK page \in Pages : SaveEvidence(u, page) /\ held' = [held EXCEPT ![u] = page]
  BY DEF FetchOk
<1> page # None
  BY FrontierAssumption
<1> USE <1>5
<1> USE <1>1 DEF FetchOk, SaveEvidence, Goto, control
<1>2. TypeOK'
  BY DEF TypeOK, StoreTypeOK, UrlStatus, WorkStates, Inside, Hot, Closed
<1>3. OthersStay(u)
  BY DEF OthersStay, TypeOK, StoreTypeOK
<1>4. Local(u)'
  BY DEF Local, TypeOK, StoreTypeOK, VerdictStatus, ErrorStatus
<1> QED BY <1>2, <1>3, <1>4, WorkerKeeps

LEMMA StatusForFails ==
    ASSUME NEW code
    PROVE  StatusFor(code) \in ErrorStatus /\ StatusFor(code) \in UrlStatus
BY DEF StatusFor, ErrorStatus, UrlStatus

LEMMA FetchFailsKeeps ==
    ASSUME IInv, NEW u \in Urls, FetchFails(u)
    PROVE  IInv'
<1>1. TypeOK /\ Local(u) /\ phase \in {"work", "aborting"} /\ work[u] = "fetching"
  BY IInvIsLocal, AtSays DEF FetchFails
<1>5. PICK code \in FetchCodes :
          SetFailed(u, StatusFor(code), code) /\ fault' = [fault EXCEPT ![u] = code]
  BY DEF FetchFails
<1>6. /\ StatusFor(code) \in ErrorStatus /\ StatusFor(code) \in UrlStatus
      /\ code \in Codes
  BY StatusForFails, PipelineAssumption
<1> USE <1>5, <1>6
<1> USE <1>1 DEF FetchFails, SetFailed, Goto, control
<1>2. TypeOK'
  BY DEF TypeOK, StoreTypeOK, Codes, WorkStates, Inside, Hot, Closed
<1>3. OthersStay(u)
  BY DEF OthersStay, TypeOK, StoreTypeOK
<1>4. Local(u)'
  BY DEF Local, TypeOK, StoreTypeOK, VerdictStatus, ErrorStatus
<1> QED BY <1>2, <1>3, <1>4, WorkerKeeps

LEMMA LoadKeeps ==
    ASSUME IInv, NEW u \in Urls, Load(u)
    PROVE  IInv'
<1>1. TypeOK /\ Local(u) /\ phase \in {"work", "aborting"} /\ work[u] = "queued" /\ command = "reclassify"
  BY IInvIsLocal, AtSays DEF Load
<1> USE <1>1 DEF Load, Goto, store, control
<1>2. TypeOK'
  BY DEF TypeOK, StoreTypeOK, WorkStates, Inside, Hot, Closed
<1>3. OthersStay(u)
  BY DEF OthersStay, TypeOK, StoreTypeOK
<1>4. Local(u)'
  BY DEF Local, TypeOK, StoreTypeOK, VerdictStatus, ErrorStatus
<1> QED BY <1>2, <1>3, <1>4, WorkerKeeps

LEMMA StartJudgingKeeps ==
    ASSUME IInv, NEW u \in Urls, StartJudging(u)
    PROVE  IInv'
<1>1. TypeOK /\ Local(u) /\ phase \in {"work", "aborting"} /\ work[u] = "extracted"
  BY IInvIsLocal, AtSays DEF StartJudging
<1> USE <1>1 DEF StartJudging, Goto, store, control
<1>2. TypeOK'
  BY DEF TypeOK, StoreTypeOK, WorkStates, Inside, Hot, Closed
<1>3. OthersStay(u)
  BY DEF OthersStay, TypeOK, StoreTypeOK
<1>4. Local(u)'
  BY DEF Local, TypeOK, StoreTypeOK, VerdictStatus, ErrorStatus
<1> QED BY <1>2, <1>3, <1>4, WorkerKeeps

LEMMA JudgmentsAreRecords ==
    ASSUME NEW page \in Pages, NEW rec \in Judgments(page)
    PROVE  rec \in Records /\ rec.page = page
<1>1. ASSUME NEW human \in BOOLEAN
      PROVE  \A m \in {"blocked", "llm", "failed"} :
                /\ [page |-> page, method |-> m, human |-> human] \in Records
                /\ [page |-> page, method |-> m, human |-> human].page = page
  BY DEF Records
<1>2. CASE page \in Blocking
  <2>1. rec = [page |-> page, method |-> "blocked", human |-> FALSE]
    BY <1>2 DEF Judgments
  <2> QED BY <1>1, <2>1
<1>3. CASE page \notin Blocking /\ ~llm
  <2>1. rec = [page |-> page, method |-> "blocked", human |-> TRUE]
    BY <1>3 DEF Judgments
  <2> QED BY <1>1, <2>1
<1>4. CASE page \notin Blocking /\ llm
  <2>1. CASE rec = [page |-> page, method |-> "failed", human |-> TRUE]
    BY <1>1, <2>1
  <2>2. CASE rec \in [page : {page}, method : {"llm"}, human : BOOLEAN]
    BY <2>2 DEF Records
  <2> QED BY <1>4, <2>1, <2>2 DEF Judgments
<1> QED BY <1>2, <1>3, <1>4

LEMMA CountersSet ==
    ASSUME NEW s \in PipelineStats, NEW c \in Nat, NEW n \in Nat
    PROVE  [s EXCEPT !.classified = c, !.needsHuman = n] \in PipelineStats
BY DEF PipelineStats

LEMMA LinesAreLines ==
    /\ \A rec \in Records \cup {None} : VerdictLine(rec) \in Lines
    /\ \A code \in Codes \cup {None} : ErrorLine(code) \in Lines
BY DEF VerdictLine, ErrorLine, Lines

\* The verdict is of the page the worker holds, and that is the evidence.
LEMMA JudgeKeeps ==
    ASSUME IInv, NEW u \in Urls, Judge(u)
    PROVE  IInv'
<1>1. TypeOK /\ Local(u) /\ phase \in {"work", "aborting"} /\ work[u] = "judging"
  BY IInvIsLocal, AtSays DEF Judge
<1>2. held[u] \in Pages /\ held[u] = evidence[u]
  BY <1>1 DEF Local, TypeOK
<1>3. PICK rec \in Judgments(held[u]) :
          SavePageRecord(u, rec) /\ verdict' = [verdict EXCEPT ![u] = rec]
  BY DEF Judge
<1>4. rec \in Records /\ rec.page = evidence[u] /\ rec.human \in BOOLEAN /\ rec # None
  BY <1>2, JudgmentsAreRecords, FrontierAssumption DEF Records
<1> USE <1>1, <1>3, <1>4 DEF Judge, SavePageRecord, Goto, control
<1>5. TypeOK'
  BY DEF TypeOK, StoreTypeOK, UrlStatus, WorkStates, Inside, Hot
<1>6. OthersStay(u)
  BY DEF OthersStay, TypeOK, StoreTypeOK
<1>7. Local(u)'
  BY DEF Local, TypeOK, StoreTypeOK, VerdictStatus, ErrorStatus
<1> QED BY <1>5, <1>6, <1>7, WorkerKeeps

\* The line written is the verdict stored.
LEMMA EmitKeeps ==
    ASSUME IInv, NEW u \in Urls, Emit(u)
    PROVE  IInv'
<1>1. TypeOK /\ Local(u) /\ phase \in {"work", "aborting"} /\ work[u] = "judged"
  BY IInvIsLocal, AtSays DEF Emit
<1> VerdictLine(verdict[u]) \in Lines /\ ErrorLine(fault[u]) \in Lines
  BY <1>1, LinesAreLines DEF TypeOK
<1> USE <1>1 DEF Emit, Finish, Goto, store, control
<1>2. TypeOK'
  <2>1. stats' \in PipelineStats
    <3>1. PICK n \in Nat : stats' = [stats EXCEPT !.classified = stats.classified + 1,
                                                 !.needsHuman = n]
      <4>1. stats.needsHuman \in Nat /\ stats.needsHuman + 1 \in Nat
        BY DEF TypeOK, PipelineStats
      <4> QED BY <4>1
    <3>2. stats.classified + 1 \in Nat
      BY DEF TypeOK, PipelineStats
    <3>3. stats \in PipelineStats
      BY DEF TypeOK
    <3> HIDE <1>1 DEF Emit
    <3>4. [stats EXCEPT !.classified = stats.classified + 1, !.needsHuman = n] \in PipelineStats
      BY ONLY <3>2, <3>3, CountersSet, n \in Nat
    <3> QED BY <3>1, <3>4
  <2> QED BY <2>1 DEF TypeOK, StoreTypeOK, WorkStates, Inside, Hot, Closed
<1>3. OthersStay(u)
  BY DEF OthersStay, TypeOK, StoreTypeOK
<1>4. Local(u)'
  BY DEF Local, TypeOK, StoreTypeOK, VerdictStatus, ErrorStatus
<1> QED BY <1>2, <1>3, <1>4, WorkerKeeps

LEMMA EmitErrorKeeps ==
    ASSUME IInv, NEW u \in Urls, EmitError(u)
    PROVE  IInv'
<1>1. TypeOK /\ Local(u) /\ phase \in {"work", "aborting"} /\ work[u] \in {"errored", "poisoned"}
  BY IInvIsLocal, AtSays DEF EmitError
<1> VerdictLine(verdict[u]) \in Lines /\ ErrorLine(fault[u]) \in Lines
  BY <1>1, LinesAreLines DEF TypeOK
<1> USE <1>1 DEF EmitError, Finish, Goto, store, control
<1>2. TypeOK'
  <2>1. stats' \in PipelineStats
    BY DEF TypeOK, PipelineStats
  <2> QED BY <2>1 DEF TypeOK, StoreTypeOK, WorkStates, Inside, Hot, Closed
<1>3. OthersStay(u)
  BY DEF OthersStay, TypeOK, StoreTypeOK
<1>4. Local(u)'
  BY DEF Local, TypeOK, StoreTypeOK, VerdictStatus, ErrorStatus
<1> QED BY <1>2, <1>3, <1>4, WorkerKeeps

LEMMA HandleUnexpectedKeeps ==
    ASSUME IInv, NEW u \in Urls, HandleUnexpected(u)
    PROVE  IInv'
<1>1. TypeOK /\ Local(u) /\ phase \in {"work", "aborting"} /\ work[u] = "raised"
  BY IInvIsLocal, AtSays DEF HandleUnexpected
<1> USE <1>1 DEF HandleUnexpected, SetFailed, Goto, control
<1>2. TypeOK'
  BY DEF TypeOK, StoreTypeOK, UrlStatus, Codes, WorkStates, Inside, Hot, Closed
<1>3. OthersStay(u)
  BY DEF OthersStay, TypeOK, StoreTypeOK
<1>4. Local(u)'
  BY DEF Local, TypeOK, StoreTypeOK, VerdictStatus, ErrorStatus
<1> QED BY <1>2, <1>3, <1>4, WorkerKeeps

\* The exception is caught: only the worker's place changes, and perhaps the
\* line it was writing lands all the same.
LEMMA RaiseKeeps ==
    ASSUME IInv, NEW u \in Urls, Raise(u)
    PROVE  IInv'
<1>1. TypeOK /\ Local(u)
  BY IInvIsLocal
<1>2. /\ phase \in {"work", "aborting"}
      /\ work[u] \in {"fetching", "judging", "queued", "begun", "judged", "errored"}
      /\ out' = out \/ out' = [out EXCEPT ![u] = LineOf(u)]
  BY DEF Raise, Throws, RaiseSites, At
<1>3. LineOf(u) \in Lines
  BY <1>1, LinesAreLines DEF LineOf, TypeOK
<1> USE <1>1, <1>2, <1>3 DEF Raise, Goto, store, control
<1>4. TypeOK'
  <2>1. out' \in [Urls -> Lines]
    BY DEF TypeOK
  <2> QED BY <2>1 DEF TypeOK, StoreTypeOK, WorkStates, Inside, Hot
<1>5. OthersStay(u)
  BY DEF OthersStay, TypeOK, StoreTypeOK
<1>6. Local(u)'
  BY DEF Local, TypeOK, StoreTypeOK, VerdictStatus, ErrorStatus
<1> QED BY <1>4, <1>5, <1>6, WorkerKeeps

-----------------------------------------------------------------------------
\* Cancelling workers changes nothing they have stored or written.
LEMMA CancelKeeps ==
    ASSUME IInv, NEW thrower \in SUBSET Urls, Cancel(thrower), out' \in [Urls -> Lines],
           \A w \in Urls \ thrower : out'[w] = out[w],
           phase \in {"work", "aborting"}
    PROVE  IInv'
<1>1. TypeOK /\ OnlyRunPrepares /\ \A w \in Urls : Local(w)
  BY IInvIsLocal
<1> USE <1>1 DEF Cancel, store
<1>2. TypeOK'
  BY DEF TypeOK, StoreTypeOK, WorkStates, Closed, Phases
<1>3. ASSUME NEW w \in Urls PROVE Local(w)'
  <2>1. CASE w \in Cancellable \cup thrower
    BY <2>1 DEF Local, TypeOK
  <2>2. CASE w \notin Cancellable \cup thrower
    BY <2>2 DEF Local, TypeOK
  <2> QED BY <2>1, <2>2
<1>4. NoStrayWork' /\ OnlyRunPrepares'
  BY DEF NoStrayWork, OnlyRunPrepares
<1> QED BY <1>2, <1>3, <1>4
        DEF IInv, Local, HeldIsEvidence, EvidenceBacksVerdict, ExtractedIsJudgeable,
            Reclassifiable, FetchingIsOwned, LoadFinds, VerdictReady, ErrorReady, DoneMatchesOutput

LEMMA AbortKeeps ==
    ASSUME IInv, NEW u \in Urls, Abort(u)
    PROVE  IInv'
<1>1. TypeOK
  BY IInvIsLocal
<1>2. /\ phase \in {"work", "aborting"}
      /\ out' = out \/ out' = [out EXCEPT ![u] = LineOf(u)]
  BY DEF Abort, Throws, RaiseSites, At
<1>3. LineOf(u) \in Lines
  BY <1>1, LinesAreLines DEF LineOf, TypeOK
<1>4. out' \in [Urls -> Lines] /\ \A w \in Urls : w # u => out'[w] = out[w]
  BY <1>1, <1>2, <1>3 DEF TypeOK
<1>5. Cancel({u}) /\ {u} \in SUBSET Urls
  BY DEF Abort
<1> QED BY <1>2, <1>4, <1>5, CancelKeeps

LEMMA InterruptKeeps ==
    ASSUME IInv, Interrupt
    PROVE  IInv'
<1>1. out \in [Urls -> Lines]
  BY IInvIsLocal DEF TypeOK
<1> QED BY <1>1, CancelKeeps DEF Interrupt

\* The end of a process, however it ends, leaves the committed rows and lines.
LEMMA ForgetKeeps ==
    ASSUME IInv, Forget, UNCHANGED <<store, command, sessions, out>>,
           phase' \in {"ok", "aborted", "crashed"}
    PROVE  IInv'
<1>1. TypeOK /\ \A w \in Urls : Local(w)
  BY IInvIsLocal
<1> USE <1>1 DEF Forget, store
<1>2. TypeOK'
  <2>1. stats' \in PipelineStats
    BY DEF ZeroStats, PipelineStats
  <2>2. lines' \in Seq(InputLines)
    OBVIOUS
  <2> QED BY <2>1, <2>2 DEF TypeOK, StoreTypeOK, WorkStates, Closed, Phases, Resting
<1>3. ASSUME NEW w \in Urls PROVE Local(w)'
  BY DEF Local, TypeOK
<1>4. NoStrayWork' /\ OnlyRunPrepares'
  BY DEF NoStrayWork, OnlyRunPrepares
<1> QED BY <1>2, <1>3, <1>4
        DEF IInv, Local, HeldIsEvidence, EvidenceBacksVerdict, ExtractedIsJudgeable,
            Reclassifiable, FetchingIsOwned, LoadFinds, VerdictReady, ErrorReady, DoneMatchesOutput

\* A step of a session that has no worker yet keeps the invariant if it keeps
\* every row, or the few rows it changes, consistent by themselves.
LEMMA SessionKeeps ==
    ASSUME TypeOK', NoStrayWork', OnlyRunPrepares', \A w \in Urls : Local(w)'
    PROVE  IInv'
BY DEF IInv, Local, HeldIsEvidence, EvidenceBacksVerdict, ExtractedIsJudgeable,
            Reclassifiable, FetchingIsOwned, LoadFinds, VerdictReady, ErrorReady, DoneMatchesOutput

\* A new session finds only what earlier ones committed.
LEMMA NewSessionKeeps ==
    ASSUME IInv, NEW cmd \in {"run", "reclassify"}, NEW ph \in {"parse", "work"},
           NEW snapshot \in SUBSET Urls, NewSession(cmd, ph, snapshot),
           lines' \in Seq(InputLines),
           cmd = "run" => ph = "parse" /\ snapshot = {},
           cmd = "reclassify" => ph = "work" /\ \A w \in snapshot : evidence[w] # None
    PROVE  IInv'
<1>1. TypeOK /\ NoStrayWork /\ \A w \in Urls : Local(w)
  BY IInvIsLocal
<1>2. /\ phase \in Resting /\ sessions' = sessions + 1 /\ command' = cmd /\ phase' = ph
      /\ llm' \in BOOLEAN
      /\ work' = [u \in Urls |-> IF u \in snapshot THEN "queued" ELSE "none"]
      /\ UNCHANGED <<store, held, verdict, fault, stats, out>>
  BY DEF NewSession
<1>3. TypeOK'
  BY <1>1, <1>2 DEF TypeOK, StoreTypeOK, store, WorkStates, Closed, Phases
<1>4. NoStrayWork' /\ OnlyRunPrepares'
  BY <1>1, <1>2 DEF NoStrayWork, OnlyRunPrepares
<1>5. ASSUME NEW w \in Urls PROVE Local(w)'
  <2>1. work'[w] = (IF w \in snapshot THEN "queued" ELSE "none")
    BY <1>2
  <2>2. Local(w) /\ UNCHANGED <<status, lastError, evidence, record>>
    BY <1>1, <1>2 DEF store
  <2> QED BY <1>2, <2>1, <2>2 DEF Local
<1> QED BY <1>3, <1>4, <1>5, SessionKeeps

LEMMA StartsKeep ==
    ASSUME IInv, StartRun \/ StartReclassify
    PROVE  IInv'
<1>1. CASE StartRun
  BY <1>1, NewSessionKeeps, PipelineAssumption DEF StartRun
<1>2. CASE StartReclassify
  <2>1. lines' \in Seq(InputLines)
    BY <1>2, IInvIsLocal DEF StartReclassify, TypeOK
  <2>2. Reclassifiable \in SUBSET Urls /\ \A w \in Reclassifiable : evidence[w] # None
    BY DEF Reclassifiable
  <2>3. NewSession("reclassify", "work", Reclassifiable)
    BY <1>2 DEF StartReclassify
  <2> QED BY <2>1, <2>2, <2>3, NewSessionKeeps
<1> QED BY <1>1, <1>2

\* Parsing and skipping a line change no row.
LEMMA LinesKeep ==
    ASSUME IInv, Parse \/ SkipMalformed
    PROVE  IInv'
<1>1. TypeOK /\ NoStrayWork /\ OnlyRunPrepares /\ \A w \in Urls : Local(w)
  BY IInvIsLocal
<1>2. /\ phase \in {"parse", "populate"} /\ phase' \in {"parse", "populate"}
      /\ UNCHANGED <<store, command, sessions, out, llm, work, held, verdict, fault>>
      /\ lines' = lines \/ (lines # <<>> /\ lines' = Tail(lines))
      /\ stats' = stats \/ stats' = [stats EXCEPT !.skipped = @ + 1]
  <2>1. CASE Parse
    BY <2>1 DEF Parse, memory
  <2>2. CASE SkipMalformed
    BY <2>2 DEF SkipMalformed, AtLine, control
  <2> QED BY <2>1, <2>2
<1>3. lines' \in Seq(InputLines) /\ stats' \in PipelineStats
  <2>1. lines \in Seq(InputLines) /\ stats \in PipelineStats
    BY <1>1 DEF TypeOK
  <2>2. lines # <<>> => Tail(lines) \in Seq(InputLines)
    BY <2>1
  <2>3. [stats EXCEPT !.skipped = @ + 1] \in PipelineStats
    BY <2>1 DEF PipelineStats
  <2> QED BY <1>2, <2>1, <2>2, <2>3
<1>4. TypeOK'
  BY <1>1, <1>2, <1>3 DEF TypeOK, StoreTypeOK, store, Phases
<1>5. NoStrayWork' /\ OnlyRunPrepares'
  BY <1>1, <1>2 DEF NoStrayWork, OnlyRunPrepares
<1>6. ASSUME NEW w \in Urls PROVE Local(w)'
  BY <1>1, <1>2 DEF Local, store
<1> QED BY <1>4, <1>5, <1>6, SessionKeeps

\* A listed URL touches its row only when it has none.
LEMMA PopulateKeeps ==
    ASSUME IInv, Populate
    PROVE  IInv'
<1>1. TypeOK /\ NoStrayWork /\ OnlyRunPrepares /\ \A w \in Urls : Local(w)
  BY IInvIsLocal
<1>2. PICK u \in Urls : u = Head(lines).url
  <2>1. lines \in Seq(InputLines) /\ lines # <<>>
    BY <1>1 DEF Populate, AtLine, TypeOK
  <2>2. Head(lines) \in InputLines
    BY <2>1
  <2> QED BY <2>2 DEF InputLines
<1>3. /\ phase = "populate" /\ lines # <<>> /\ lines' = Tail(lines)
      /\ AddUrl(u, u \in Filtered)
      /\ UNCHANGED <<control, out, llm, work, held, verdict, fault>>
  BY <1>2 DEF Populate, AtLine
<1>4. PICK new \in {0, 1}, skip \in {0, 1} :
          stats' = [stats EXCEPT !.added = @ + new, !.skipped = @ + skip]
  BY DEF Populate
<1>5. stats' \in PipelineStats
  <2>1. stats.added + new \in Nat /\ stats.skipped + skip \in Nat /\ stats \in PipelineStats
    BY <1>1 DEF TypeOK, PipelineStats
  <2>2. \A n, m \in Nat : [stats EXCEPT !.added = n, !.skipped = m] \in PipelineStats
    BY <2>1 DEF PipelineStats
  <2> QED BY <1>4, <2>1, <2>2
<1>6. \A w \in Urls : \/ status'[w] = status[w]
                      \/ status[w] = "absent" /\ status'[w] \in {"pending", "skipped_filter"}
  BY <1>1, <1>3 DEF AddUrl, TypeOK, StoreTypeOK
<1>7. TypeOK'
  <2>1. status' \in [Urls -> UrlStatus \cup {"absent"}]
    BY <1>1, <1>3 DEF AddUrl, TypeOK, StoreTypeOK, UrlStatus
  <2> QED BY <1>1, <1>3, <1>5, <2>1 DEF AddUrl, TypeOK, StoreTypeOK, control
<1>8. NoStrayWork' /\ OnlyRunPrepares'
  BY <1>1, <1>3 DEF NoStrayWork, OnlyRunPrepares, control
<1>9. ASSUME NEW w \in Urls PROVE Local(w)'
  <2>1. work[w] = "none"
    BY <1>1, <1>3 DEF NoStrayWork
  <2> QED BY <1>1, <1>3, <1>6, <2>1 DEF Local, AddUrl, control, VerdictStatus, ErrorStatus
<1> QED BY <1>7, <1>8, <1>9, SessionKeeps

\* After the recovery no row is in "fetching", and no worker is there yet.
LEMMA RecoverKeeps ==
    ASSUME IInv, Recover
    PROVE  IInv'
<1>1. TypeOK /\ NoStrayWork /\ OnlyRunPrepares /\ \A w \in Urls : Local(w)
  BY IInvIsLocal
<1>2. /\ phase = "populate" /\ phase' = "recovered" /\ RequeueStuck
      /\ UNCHANGED <<command, sessions, out, llm, lines, work, held, verdict, fault>>
  BY DEF Recover
<1>3. stats' \in PipelineStats
  <2> DEFINE stuck == {u \in Urls : status[u] = "fetching"}
  <2>1. Cardinality(stuck) \in Nat
    <3>1. IsFiniteSet(Urls) /\ stuck \in SUBSET Urls
      BY PipelineAssumption
    <3> QED BY <3>1, FS_Subset, FS_CardinalityType
  <2>2. stats' = [stats EXCEPT !.requeued = Cardinality(stuck)]
    BY DEF Recover
  <2> HIDE DEF stuck
  <2> QED BY <1>1, <2>1, <2>2 DEF TypeOK, PipelineStats
<1>4. TypeOK'
  <2>1. status' \in [Urls -> UrlStatus \cup {"absent"}]
    BY <1>1, <1>2 DEF RequeueStuck, TypeOK, StoreTypeOK, UrlStatus
  <2> QED BY <1>1, <1>2, <1>3, <2>1 DEF RequeueStuck, TypeOK, StoreTypeOK, Phases
<1>5. NoStrayWork' /\ OnlyRunPrepares'
  BY <1>1, <1>2 DEF NoStrayWork, OnlyRunPrepares
<1>6. ASSUME NEW w \in Urls PROVE Local(w)'
  <2>1. work[w] = "none" /\ status'[w] # "fetching"
    BY <1>1, <1>2 DEF NoStrayWork, RequeueStuck
  <2>2. status'[w] = status[w] \/ status'[w] = "pending"
    BY <1>2 DEF RequeueStuck
  <2> QED BY <1>1, <1>2, <2>1, <2>2 DEF Local, RequeueStuck, VerdictStatus, ErrorStatus
<1> QED BY <1>4, <1>5, <1>6, SessionKeeps

LEMMA LaunchKeeps ==
    ASSUME IInv, Launch
    PROVE  IInv'
<1>1. TypeOK /\ NoStrayWork /\ OnlyRunPrepares /\ \A w \in Urls : Local(w)
  BY IInvIsLocal
<1>2. /\ phase = "recovered" /\ phase' = "work" /\ command = "run"
      /\ work' = [u \in Urls |-> IF u \in PendingUrls THEN "queued" ELSE "none"]
      /\ UNCHANGED <<store, command, sessions, out, llm, lines, held, verdict, fault, stats>>
  BY <1>1 DEF Launch, OnlyRunPrepares
<1>3. TypeOK'
  BY <1>1, <1>2 DEF TypeOK, StoreTypeOK, store, WorkStates, Closed, Phases
<1>4. NoStrayWork' /\ OnlyRunPrepares'
  BY <1>2 DEF NoStrayWork, OnlyRunPrepares
<1>5. ASSUME NEW w \in Urls PROVE Local(w)'
  <2>1. work[w] = "none" /\ work'[w] \in {"queued", "none"}
    BY <1>1, <1>2 DEF NoStrayWork
  <2>2. Local(w)
    BY <1>1
  <2> QED BY <1>2, <2>1, <2>2 DEF Local, store
<1> QED BY <1>3, <1>4, <1>5, SessionKeeps

\* A requeue, also under a working session, takes rows back to "pending" only.
LEMMA RequeueKeeps ==
    ASSUME IInv, NEW s \in UrlStatus, Requeue(s)
    PROVE  IInv'
<1>1. TypeOK /\ NoStrayWork /\ OnlyRunPrepares /\ \A w \in Urls : Local(w)
  BY IInvIsLocal
<1>2. /\ RequeueStatus(s) /\ UNCHANGED <<memory, sessions, out>>
      /\ \/ phase \in Resting /\ command' = "requeue" /\ phase' = "ok"
         \/ UNCHANGED <<command, phase>>
  BY DEF Requeue
<1>3. /\ UNCHANGED <<evidence, record>>
      /\ \A w \in Urls : \/ status'[w] = "pending"
                         \/ status'[w] = status[w] /\ lastError'[w] = lastError[w]
  BY <1>2 DEF RequeueStatus
<1>4. TypeOK'
  <2>1. StoreTypeOK'
    BY <1>1, <1>2 DEF RequeueStatus, TypeOK, StoreTypeOK, UrlStatus
  <2> QED BY <1>1, <1>2, <2>1 DEF TypeOK, memory, Phases, Resting
<1>5. NoStrayWork' /\ OnlyRunPrepares'
  BY <1>1, <1>2 DEF NoStrayWork, OnlyRunPrepares, memory, Resting
<1>6. ASSUME NEW w \in Urls PROVE Local(w)'
  <2>1. Local(w)
    BY <1>1
  <2>2. /\ UNCHANGED <<work, held, verdict, fault, out, evidence, record>>
        /\ command' = "run" \/ command' = "reclassify" => UNCHANGED <<command, phase>>
    BY <1>2, <1>3 DEF memory
  <2>3. CASE status'[w] = "pending"
    BY <2>1, <2>2, <2>3 DEF Local, VerdictStatus, ErrorStatus
  <2>4. CASE status'[w] = status[w] /\ lastError'[w] = lastError[w]
    BY <2>1, <2>2, <2>4 DEF Local
  <2> QED BY <1>3, <2>3, <2>4
<1> QED BY <1>4, <1>5, <1>6, SessionKeeps

-----------------------------------------------------------------------------
LEMMA InitEstablishes == Init => IInv
<1> SUFFICES ASSUME Init PROVE IInv
  OBVIOUS
<1> USE DEF Init, StoreInit
<1>1. TypeOK
  <2>1. stats \in PipelineStats
    BY DEF ZeroStats, PipelineStats
  <2>2. NoLine \in Lines
    BY DEF NoLine, Lines
  <2>3. lines \in Seq(InputLines)
    OBVIOUS
  <2> QED BY <2>1, <2>2, <2>3
          DEF TypeOK, StoreTypeOK, Phases, Resting, WorkStates, Closed
<1>2. NoStrayWork /\ OnlyRunPrepares
  BY DEF NoStrayWork, OnlyRunPrepares
<1>3. \A w \in Urls : Local(w)
  BY DEF Local, VerdictStatus, ErrorStatus
<1> QED BY <1>1, <1>2, <1>3, IInvIsLocal

LEMMA NextKeeps == IInv /\ [Next]_vars => IInv'
<1> SUFFICES ASSUME IInv, [Next]_vars PROVE IInv'
  OBVIOUS
<1>1. CASE StartRun \/ StartReclassify
  BY <1>1, StartsKeep
<1>2. CASE Prepare
  <2>1. CASE ParseRaises \/ PopulateRaises
    BY <2>1, ForgetKeeps DEF ParseRaises, PopulateRaises
  <2> QED BY <1>2, <2>1, LinesKeep, PopulateKeeps, RecoverKeeps, LaunchKeeps DEF Prepare
<1>3. CASE Close \/ Crash
  BY <1>3, ForgetKeeps DEF Close, Crash
<1>4. ASSUME NEW u \in Urls, Step(u) PROVE IInv'
  BY <1>4, BeginKeeps, BumpKeeps, FetchOkKeeps, FetchFailsKeeps, LoadKeeps, StartJudgingKeeps,
     JudgeKeeps, EmitKeeps, EmitErrorKeeps, RaiseKeeps, HandleUnexpectedKeeps, AbortKeeps
     DEF Step
<1>5. ASSUME NEW s \in UrlStatus, Requeue(s) PROVE IInv'
  BY <1>5, RequeueKeeps
<1>6. CASE Interrupt
  BY <1>6, InterruptKeeps
<1>7. CASE UNCHANGED vars
  BY <1>7 DEF vars, store, memory, control, IInv, TypeOK, StoreTypeOK, NoStrayWork,
     OnlyRunPrepares, HeldIsEvidence, EvidenceBacksVerdict, ExtractedIsJudgeable,
     Reclassifiable, FetchingIsOwned, LoadFinds, VerdictReady, ErrorReady, DoneMatchesOutput
<1> QED BY <1>1, <1>2, <1>3, <1>4, <1>5, <1>6, <1>7 DEF Next

-----------------------------------------------------------------------------
\* The inductive invariant holds throughout.
THEOREM Invariance == Spec => []IInv
BY InitEstablishes, NextKeeps, PTL DEF Spec

\* Every variable keeps its type, through any sequence of sessions and faults.
THEOREM TypeCorrect == Spec => []TypeOK
<1>1. IInv => TypeOK
  BY DEF IInv
<1> QED BY <1>1, Invariance, PTL

\* However fetches, crashes, requeues and reclassifications follow each other,
\* a stored verdict judges the stored evidence.
THEOREM VerdictsAreBacked == Spec => []EvidenceBacksVerdict
<1>1. IInv => EvidenceBacksVerdict
  BY DEF IInv
<1> QED BY <1>1, Invariance, PTL

\* A row that stopped between its two phases can still be judged.
THEOREM Judgeable == Spec => []ExtractedIsJudgeable
<1>1. IInv => ExtractedIsJudgeable
  BY DEF IInv
<1> QED BY <1>1, Invariance, PTL

\* Between the recovery of a run and its end, whoever looks busy is.
THEOREM FetchingOwned == Spec => []FetchingIsOwned
<1>1. IInv => FetchingIsOwned
  BY DEF IInv
<1> QED BY <1>1, Invariance, PTL

\* The line a finished worker leaves in the output says what the frontier says.
THEOREM OutputMatches == Spec => []DoneMatchesOutput
<1>1. IInv => DoneMatchesOutput
  BY DEF IInv
<1> QED BY <1>1, Invariance, PTL
-----------------------------------------------------------------------------
(* The counters: one for every worker that is done.                         *)
Finished == {u \in Urls : work[u] = "done"}

LEMMA FinishedFinite ==
    /\ IsFiniteSet(Finished) /\ Cardinality(Finished) \in Nat
    /\ \A u \in Urls \ Finished : Cardinality(Finished \cup {u}) = Cardinality(Finished) + 1
<1>1. IsFiniteSet(Finished)
  BY PipelineAssumption, FS_Subset DEF Finished
<1> QED BY <1>1, FS_CardinalityType, FS_AddElement

\* What neither counts nor finishes a worker, and what starts from nothing.
LEMMA CountsSame ==
    ASSUME StatsAddUp, Finished' = Finished,
           stats'.classified = stats.classified, stats'.errors = stats.errors,
           stats'.needsHuman = stats.needsHuman
    PROVE  StatsAddUp'
BY DEF StatsAddUp, Finished

LEMMA CountsZero == ASSUME stats' = ZeroStats, Finished' = {} PROVE StatsAddUp'
BY FS_EmptySet DEF StatsAddUp, Finished, ZeroStats

LEMMA WorkerCounts == ASSUME IInv, StatsAddUp, NEW u \in Urls, Step(u) PROVE StatsAddUp'
<1>1. TypeOK /\ Local(u)
  BY IInvIsLocal
<1>2. work \in [Urls -> WorkStates] /\ stats \in PipelineStats
  BY <1>1 DEF TypeOK
<1>3. ASSUME work[u] # "done", Goto(u, "done"), NEW s, stats' = s, s.classified \in Nat,
             s.errors \in Nat, s.needsHuman \in Nat,
             s.classified + s.errors = stats.classified + stats.errors + 1,
             s.needsHuman <= s.classified
      PROVE  StatsAddUp'
  <2>1. Finished' = Finished \cup {u} /\ u \notin Finished
    BY <1>2, <1>3 DEF Goto, Finished
  <2>2. Cardinality(Finished') = stats.classified + stats.errors + 1
    BY <2>1, FinishedFinite DEF StatsAddUp, Finished
  <2> QED BY <1>3, <2>2 DEF StatsAddUp, Finished
<1>4. CASE Emit(u)
  <2>1. work[u] # "done" /\ Goto(u, "done")
    BY <1>4, AtSays DEF Emit, Finish
  <2>2. stats' = [stats EXCEPT !.classified = @ + 1,
                               !.needsHuman = IF verdict[u].human THEN @ + 1 ELSE @]
    BY <1>4 DEF Emit
  <2>3. /\ stats'.classified = stats.classified + 1 /\ stats'.errors = stats.errors
        /\ stats'.needsHuman \in {stats.needsHuman, stats.needsHuman + 1}
    BY <1>2, <2>2 DEF PipelineStats
  <2> QED BY <1>2, <1>3, <2>1, <2>3 DEF PipelineStats, StatsAddUp
<1>5. CASE EmitError(u)
  <2>1. work[u] # "done" /\ Goto(u, "done") /\ stats' = [stats EXCEPT !.errors = @ + 1]
    BY <1>5, AtSays DEF EmitError, Finish
  <2>2. /\ stats'.classified = stats.classified /\ stats'.errors = stats.errors + 1
        /\ stats'.needsHuman = stats.needsHuman
    BY <1>2, <2>1 DEF PipelineStats
  <2> QED BY <1>2, <1>3, <2>1, <2>2 DEF PipelineStats, StatsAddUp
<1>6. CASE Load(u)
  <2>1. work[u] = "queued" /\ Goto(u, "extracted") /\ UNCHANGED stats
    BY <1>1, <1>6, AtSays DEF Load, Local
  <2>2. Finished' = Finished
    BY <1>2, <2>1 DEF Goto, Finished
  <2> QED BY <2>1, <2>2, CountsSame
<1>7. CASE Abort(u)
  <2>1. work[u] # "done"
    BY <1>7, AtSays DEF Abort, Throws, RaiseSites
  <2>2. Cancel({u})
    BY <1>7 DEF Abort
  <2>3. Finished' = Finished /\ UNCHANGED stats
    BY <1>2, <2>1, <2>2 DEF Cancel, Cancellable, Waiting, Finished
  <2> QED BY <2>3, CountsSame
<1>8. CASE Raise(u)
  <2>1. work[u] # "done" /\ Goto(u, "raised") /\ UNCHANGED stats
    BY <1>8, AtSays DEF Raise, Throws, RaiseSites
  <2>2. Finished' = Finished
    BY <1>2, <2>1 DEF Goto, Finished
  <2> QED BY <2>1, <2>2, CountsSame
<1>9. CASE \/ Begin(u) \/ Bump(u) \/ FetchOk(u) \/ FetchFails(u) \/ StartJudging(u) \/ Judge(u)
           \/ HandleUnexpected(u)
  <2>1. /\ work[u] # "done" /\ UNCHANGED stats
        /\ \E w \in WorkStates \ {"done"} : Goto(u, w)
    BY <1>9, AtSays DEF Begin, Bump, FetchOk, FetchFails, StartJudging, Judge, HandleUnexpected,
       WorkStates, Inside, Hot
  <2>2. Finished' = Finished
    BY <1>2, <2>1 DEF Goto, Finished
  <2> QED BY <2>1, <2>2, CountsSame
<1> QED BY <1>4, <1>5, <1>6, <1>7, <1>8, <1>9 DEF Step

LEMMA NextCounts == IInv /\ StatsAddUp /\ [Next]_vars => StatsAddUp'
<1> SUFFICES ASSUME IInv, StatsAddUp, [Next]_vars PROVE StatsAddUp'
  OBVIOUS
<1>0. stats \in PipelineStats /\ work \in [Urls -> WorkStates]
  BY DEF IInv, TypeOK
<1>1. CASE StartRun \/ StartReclassify
  <2>1. phase \in Resting /\ UNCHANGED stats /\ \A u \in Urls : work'[u] # "done"
    BY <1>1 DEF StartRun, StartReclassify, NewSession
  <2>2. Finished' = Finished
    BY <2>1 DEF Finished, IInv, NoStrayWork, Resting
  <2> QED BY <2>1, <2>2, CountsSame
<1>2. CASE ParseRaises \/ PopulateRaises \/ Close \/ Crash
  BY <1>2, CountsZero DEF ParseRaises, PopulateRaises, Close, Crash, Forget, Finished
<1>3. CASE Parse \/ \E s \in UrlStatus : Requeue(s)
  BY <1>3, CountsSame DEF Parse, Requeue, memory, Finished
<1>4. CASE SkipMalformed \/ Populate \/ Recover
  <2>1. work' = work
    BY <1>4 DEF SkipMalformed, Populate, Recover
  <2>2. /\ stats'.classified = stats.classified /\ stats'.errors = stats.errors
        /\ stats'.needsHuman = stats.needsHuman
    BY <1>0, <1>4 DEF SkipMalformed, Populate, Recover, PipelineStats
  <2> QED BY <2>1, <2>2, CountsSame DEF Finished
<1>5. CASE Launch
  <2>1. UNCHANGED stats /\ Finished' = {}
    BY <1>5 DEF Launch, Finished
  <2>2. Finished = {}
    BY <1>5 DEF Launch, Finished, IInv, NoStrayWork
  <2> QED BY <2>1, <2>2, CountsSame
<1>6. ASSUME NEW u \in Urls, Step(u) PROVE StatsAddUp'
  BY <1>6, WorkerCounts
<1>7. CASE Interrupt
  <2>1. Finished' = Finished /\ UNCHANGED stats
    BY <1>0, <1>7 DEF Interrupt, Cancel, Cancellable, Waiting, Finished
  <2> QED BY <2>1, CountsSame
<1>8. CASE UNCHANGED vars
  BY <1>8, CountsSame DEF vars, memory, Finished
<1> QED BY <1>1, <1>2, <1>3, <1>4, <1>5, <1>6, <1>7, <1>8 DEF Next, Prepare

\* The counters a session prints account for every worker that is done, each
\* once, on the normal and on both error paths (`PipelineStats`).
THEOREM CountersAddUp == Spec => []StatsAddUp
<1>1. Init => StatsAddUp
  BY FS_EmptySet DEF Init, StatsAddUp, ZeroStats
<1> QED BY <1>1, NextCounts, Invariance, PTL DEF Spec

(***************************************************************************)
(* Pipeline implements UrlLifecycle: whatever the sessions do, every URL    *)
(* makes a move of its state machine or stays where it is.                  *)
(***************************************************************************)
\* A worker of u moves no other row and no other worker.
Apart(u) ==
    \A w \in Urls \ {u} :
        /\ status'[w] = status[w] /\ attempts'[w] = attempts[w] /\ lastError'[w] = lastError[w]
        /\ evidence'[w] = evidence[w] /\ record'[w] = record[w]
        /\ work'[w] = work[w]

SameRow(w) ==
    /\ status'[w] = status[w] /\ attempts'[w] = attempts[w] /\ lastError'[w] = lastError[w]
    /\ evidence'[w] = evidence[w] /\ record'[w] = record[w]

LEMMA RowStays ==
    ASSUME NEW w \in Urls, SameRow(w), work'[w] \in Closed <=> work[w] \in Closed
    PROVE  Lifecycle!Stay(w)
BY DEF SameRow, Lifecycle!Stay, Lifecycle!KeepsRow, Lifecycle!KeepsHistory,
       Lifecycle!KeepsFindings, Lifecycle!KeepsWork

LEMMA RowLetGo ==
    ASSUME NEW w \in Urls, SameRow(w), work'[w] \in Closed
    PROVE  Lifecycle!LetGo(w) \/ Lifecycle!Stay(w)
<1>1. CASE work[w] \in Closed
  BY <1>1, RowStays
<1>2. CASE work[w] \notin Closed
  BY <1>2 DEF SameRow, Lifecycle!LetGo, Lifecycle!KeepsRow, Lifecycle!KeepsHistory,
     Lifecycle!KeepsFindings
<1> QED BY <1>1, <1>2

LEMMA OneMoves ==
    ASSUME NEW u \in Urls, Apart(u), Lifecycle!Move(u) \/ Lifecycle!Stay(u)
    PROVE  Lifecycle!Next
<1>1. ASSUME NEW w \in Urls \ {u} PROVE Lifecycle!Stay(w)
  BY RowStays DEF Apart, SameRow
<1> QED BY <1>1 DEF Lifecycle!Next

-----------------------------------------------------------------------------
LEMMA BeginMoves ==
    ASSUME IInv, FetchesPending, NEW u \in Urls, Begin(u)
    PROVE  Lifecycle!Next
<1>1. TypeOK /\ work[u] = "queued" /\ command = "run" /\ status[u] = "pending"
  BY IInvIsLocal, AtSays DEF Begin, FetchesPending
<1> USE <1>1 DEF Begin, SetStatus, Goto
<1>2. Apart(u)
  BY DEF Apart, TypeOK, StoreTypeOK
<1>3. Lifecycle!Fetch(u)
  BY DEF TypeOK, StoreTypeOK, Closed, Lifecycle!Fetch, Lifecycle!KeepsHistory,
     Lifecycle!KeepsFindings, Lifecycle!KeepsWork
<1> QED BY <1>2, <1>3, OneMoves DEF Lifecycle!Move

LEMMA BumpMoves ==
    ASSUME IInv, FetchesPending, NEW u \in Urls, Bump(u)
    PROVE  Lifecycle!Next
<1>1. TypeOK /\ work[u] = "begun" /\ status[u] \in {"fetching", "pending"}
  BY IInvIsLocal, AtSays DEF Bump, FetchesPending
<1> USE <1>1 DEF Bump, BumpAttempts, Goto
<1>2. Apart(u)
  BY DEF Apart, TypeOK, StoreTypeOK
<1>3. Lifecycle!CountAttempt(u)
  BY DEF TypeOK, StoreTypeOK, Closed, Lifecycle!CountAttempt,
     Lifecycle!KeepsFindings, Lifecycle!KeepsWork
<1> QED BY <1>2, <1>3, OneMoves DEF Lifecycle!Move

LEMMA FetchOkMoves ==
    ASSUME IInv, FetchesPending, NEW u \in Urls, FetchOk(u)
    PROVE  Lifecycle!Next
<1>1. TypeOK /\ work[u] = "fetching" /\ status[u] \in {"fetching", "pending"}
  BY IInvIsLocal, AtSays DEF FetchOk, FetchesPending
<1>2. PICK page \in Pages : SaveEvidence(u, page)
  BY DEF FetchOk
<1> USE <1>1, <1>2 DEF FetchOk, SaveEvidence, Goto
<1>3. Apart(u)
  BY DEF Apart, TypeOK, StoreTypeOK
<1>4. Lifecycle!Extract(u)
  BY DEF TypeOK, StoreTypeOK, Closed, Lifecycle!Extract, Lifecycle!KeepsHistory,
     Lifecycle!KeepsWork
<1> QED BY <1>3, <1>4, OneMoves DEF Lifecycle!Move

LEMMA FailureMoves ==
    ASSUME TypeOK, NEW u \in Urls, work[u] \notin Closed, NEW w, w \notin Closed, Goto(u, w),
           NEW code \in Codes, NEW s \in ErrorStatus, SetFailed(u, s, code)
    PROVE  Lifecycle!Next
<1> USE DEF SetFailed, Goto
<1>1. Apart(u)
  BY DEF Apart, TypeOK, StoreTypeOK
<1>2. Lifecycle!Fail(u)
  BY DEF TypeOK, StoreTypeOK, ErrorStatus, Lifecycle!Fail, Lifecycle!Failures,
     Lifecycle!KeepsFindings, Lifecycle!KeepsWork
<1> QED BY <1>1, <1>2, OneMoves DEF Lifecycle!Move

LEMMA FailuresMove ==
    ASSUME IInv, NEW u \in Urls, FetchFails(u) \/ HandleUnexpected(u)
    PROVE  Lifecycle!Next
<1>1. TypeOK
  BY IInvIsLocal
<1>2. CASE FetchFails(u)
  <2>1. PICK code \in FetchCodes : SetFailed(u, StatusFor(code), code)
    BY <1>2 DEF FetchFails
  <2>2. code \in Codes /\ StatusFor(code) \in ErrorStatus
    BY PipelineAssumption, StatusForFails
  <2>3. work[u] = "fetching" /\ Goto(u, "errored")
    BY <1>2, AtSays DEF FetchFails
  <2> QED BY <1>1, <2>1, <2>2, <2>3, FailureMoves DEF Closed
<1>3. CASE HandleUnexpected(u)
  <2>1. /\ work[u] = "raised" /\ Goto(u, "poisoned")
        /\ SetFailed(u, "failed_fetch", "E_UNEXPECTED")
    BY <1>3, AtSays DEF HandleUnexpected
  <2>2. "E_UNEXPECTED" \in Codes /\ "failed_fetch" \in ErrorStatus
    BY DEF Codes, ErrorStatus
  <2> QED BY <1>1, <2>1, <2>2, FailureMoves DEF Closed
<1> QED BY <1>2, <1>3

LEMMA JudgeMoves ==
    ASSUME IInv, NEW u \in Urls, Judge(u)
    PROVE  Lifecycle!Next
<1>1. TypeOK /\ Local(u) /\ work[u] = "judging"
  BY IInvIsLocal, AtSays DEF Judge
<1>2. held[u] \in Pages /\ held[u] = evidence[u] /\ evidence[u] # None
  BY <1>1 DEF Local, TypeOK
<1>3. PICK rec \in Judgments(held[u]) : SavePageRecord(u, rec)
  BY DEF Judge
<1>4. rec \in Records /\ rec.page = evidence[u]
  BY <1>2, JudgmentsAreRecords
<1>5. PICK human \in BOOLEAN, method \in {"blocked", "llm", "failed"} :
          rec = [page |-> evidence[u], method |-> method, human |-> human]
  BY <1>4 DEF Records
<1>6. Goto(u, "judged")
  BY DEF Judge
<1> USE <1>1, <1>3, <1>5, <1>6 DEF SavePageRecord, Goto
<1>7. Apart(u)
  BY DEF Apart, TypeOK, StoreTypeOK
<1>8. /\ record'[u] = [page |-> evidence[u], method |-> method, human |-> human]
      /\ status'[u] = IF human THEN "needs_human" ELSE "classified"
  BY DEF TypeOK, StoreTypeOK
<1>9. Lifecycle!Judge(u)
  BY <1>2, <1>8 DEF TypeOK, StoreTypeOK, Closed, Lifecycle!Judge, Lifecycle!KeepsHistory,
     Lifecycle!KeepsWork
<1> QED BY <1>7, <1>9, OneMoves DEF Lifecycle!Move

\* The steps of a worker that commit nothing.
LEMMA SilentMoves ==
    ASSUME IInv, NEW u \in Urls,
           Load(u) \/ StartJudging(u) \/ Emit(u) \/ EmitError(u) \/ Raise(u)
    PROVE  Lifecycle!Next
<1>1. TypeOK
  BY IInvIsLocal
<1>2. UNCHANGED store /\ work[u] \notin Closed
      /\ \E w \in WorkStates : work' = [work EXCEPT ![u] = w]
  BY AtSays DEF Load, StartJudging, Emit, EmitError, Raise, Throws, RaiseSites, Finish, Goto,
     Closed, WorkStates, Inside, Hot
<1>3. Apart(u) /\ SameRow(u)
  BY <1>1, <1>2 DEF Apart, SameRow, store, TypeOK
<1>4. Lifecycle!Move(u) \/ Lifecycle!Stay(u)
  <2>1. CASE work'[u] \in Closed
    BY <1>3, <2>1, RowLetGo DEF Lifecycle!Move
  <2>2. CASE work'[u] \notin Closed
    BY <1>2, <1>3, <2>2, RowStays
  <2> QED BY <2>1, <2>2
<1> QED BY <1>3, <1>4, OneMoves

-----------------------------------------------------------------------------
\* A session that is cancelled, closed or killed lets go of its rows.
LEMMA EndsMove ==
    ASSUME UNCHANGED store, \A w \in Urls : work'[w] \in Closed \/ work'[w] = work[w]
    PROVE  Lifecycle!Next
<1>1. ASSUME NEW w \in Urls PROVE Lifecycle!Move(w) \/ Lifecycle!Stay(w)
  <2>1. SameRow(w)
    BY DEF SameRow, store
  <2> QED BY <2>1, RowStays, RowLetGo DEF Lifecycle!Move
<1> QED BY <1>1 DEF Lifecycle!Next

\* Workers are only sent out for pending rows, or for rows with evidence.
LEMMA TakeUpsMove ==
    ASSUME TypeOK, UNCHANGED store, NEW rows \in SUBSET Urls,
           work' = [w \in Urls |-> IF w \in rows THEN "queued" ELSE "none"],
           \A w \in Urls : work[w] = "none",
           \A w \in rows : status[w] = "pending" \/ evidence[w] # None
    PROVE  Lifecycle!Next
<1>1. ASSUME NEW w \in Urls PROVE Lifecycle!Move(w) \/ Lifecycle!Stay(w)
  <2>1. SameRow(w)
    BY DEF SameRow, store
  <2>2. CASE w \in rows
    BY <2>1, <2>2 DEF Closed, SameRow, Lifecycle!Move, Lifecycle!TakeUp, Lifecycle!KeepsRow,
       Lifecycle!KeepsHistory, Lifecycle!KeepsFindings
  <2>3. CASE w \notin rows
    BY <2>1, <2>3, RowStays DEF Closed
  <2> QED BY <2>2, <2>3
<1> QED BY <1>1 DEF Lifecycle!Next

LEMMA StartsMove ==
    ASSUME IInv, StartRun \/ StartReclassify \/ Launch
    PROVE  Lifecycle!Next
<1>1. TypeOK /\ NoStrayWork /\ UNCHANGED store
  BY IInvIsLocal DEF StartRun, StartReclassify, NewSession, Launch
<1>2. \A w \in Urls : work[w] = "none"
  BY <1>1 DEF NoStrayWork, StartRun, StartReclassify, NewSession, Launch, Resting
<1>3. CASE StartRun
  <2>1. work' = [w \in Urls |-> IF w \in {} THEN "queued" ELSE "none"]
    BY <1>3 DEF StartRun, NewSession
  <2>2. {} \in SUBSET Urls /\ \A w \in {} : status[w] = "pending" \/ evidence[w] # None
    OBVIOUS
  <2> QED BY <1>1, <1>2, <2>1, <2>2, TakeUpsMove
<1>4. CASE StartReclassify
  <2>1. work' = [w \in Urls |-> IF w \in Reclassifiable THEN "queued" ELSE "none"]
    BY <1>4 DEF StartReclassify, NewSession
  <2>2. Reclassifiable \in SUBSET Urls
        /\ \A w \in Reclassifiable : status[w] = "pending" \/ evidence[w] # None
    BY DEF Reclassifiable
  <2> QED BY <1>1, <1>2, <2>1, <2>2, TakeUpsMove
<1>5. CASE Launch
  <2>1. work' = [w \in Urls |-> IF w \in PendingUrls THEN "queued" ELSE "none"]
    BY <1>5 DEF Launch
  <2>2. PendingUrls \in SUBSET Urls
        /\ \A w \in PendingUrls : status[w] = "pending" \/ evidence[w] # None
    BY DEF PendingUrls
  <2> QED BY <1>1, <1>2, <2>1, <2>2, TakeUpsMove
<1> QED BY <1>3, <1>4, <1>5

LEMMA PopulateMoves ==
    ASSUME IInv, Populate
    PROVE  Lifecycle!Next
<1>1. TypeOK /\ NoStrayWork
  BY IInvIsLocal
<1>2. PICK u \in Urls : AddUrl(u, u \in Filtered)
  <2>1. lines \in Seq(InputLines) /\ lines # <<>>
    BY <1>1 DEF Populate, AtLine, TypeOK
  <2>2. Head(lines) \in InputLines
    BY <2>1
  <2> QED BY <2>2 DEF InputLines, Populate
<1>3. UNCHANGED work /\ \A w \in Urls : work[w] = "none"
  BY <1>1 DEF Populate, AtLine, NoStrayWork
<1>4. Apart(u)
  BY <1>1, <1>2, <1>3 DEF Apart, AddUrl, TypeOK, StoreTypeOK
<1>5. CASE status[u] = "absent"
  <2>1. Lifecycle!List(u)
    BY <1>1, <1>2, <1>3, <1>5 DEF AddUrl, TypeOK, StoreTypeOK, Closed, Lifecycle!List,
       Lifecycle!KeepsHistory, Lifecycle!KeepsFindings, Lifecycle!KeepsWork
  <2> QED BY <1>4, <2>1, OneMoves DEF Lifecycle!Move
<1>6. CASE status[u] # "absent"
  <2>1. SameRow(u)
    BY <1>2, <1>6 DEF AddUrl, SameRow
  <2> QED BY <1>3, <1>4, <2>1, OneMoves, RowStays
<1> QED BY <1>5, <1>6

LEMMA RecoverMoves ==
    ASSUME IInv, Recover
    PROVE  Lifecycle!Next
<1>1. TypeOK /\ NoStrayWork
  BY IInvIsLocal
<1>2. RequeueStuck /\ UNCHANGED work /\ \A w \in Urls : work[w] = "none"
  BY <1>1 DEF Recover, NoStrayWork
<1>3. ASSUME NEW w \in Urls PROVE Lifecycle!Move(w) \/ Lifecycle!Stay(w)
  <2>1. CASE status[w] = "fetching"
    BY <1>2, <2>1 DEF RequeueStuck, Closed, Lifecycle!Move, Lifecycle!Recover,
       Lifecycle!KeepsHistory, Lifecycle!KeepsFindings, Lifecycle!KeepsWork
  <2>2. CASE status[w] # "fetching"
    BY <1>2, <2>2, RowStays DEF RequeueStuck, SameRow
  <2> QED BY <2>1, <2>2
<1> QED BY <1>3 DEF Lifecycle!Next

LEMMA RequeueMoves ==
    ASSUME IInv, NEW s \in UrlStatus, Requeue(s)
    PROVE  Lifecycle!Next
<1>1. RequeueStatus(s) /\ UNCHANGED work
  BY DEF Requeue, memory
<1>2. s # "absent"
  BY DEF UrlStatus
<1>3. ASSUME NEW w \in Urls PROVE Lifecycle!Move(w) \/ Lifecycle!Stay(w)
  <2>1. CASE status[w] = s
    BY <1>1, <1>2, <2>1 DEF RequeueStatus, Lifecycle!Move, Lifecycle!Requeue,
       Lifecycle!KeepsFindings, Lifecycle!KeepsWork
  <2>2. CASE status[w] # s
    BY <1>1, <2>2, RowStays DEF RequeueStatus, SameRow
  <2> QED BY <2>1, <2>2
<1> QED BY <1>3 DEF Lifecycle!Next

-----------------------------------------------------------------------------
\* A worker of a run is queued for a pending row only, and only its own fetch
\* or a requeue moves the row before the fetch returns.
LEMMA FetchesPendingKept ==
    ASSUME IInv, FetchesPending, [Next]_vars
    PROVE  FetchesPending'
<1>1. TypeOK /\ NoStrayWork
  BY IInvIsLocal
<1>2. CASE StartRun \/ StartReclassify \/ Close \/ Crash \/ ParseRaises \/ PopulateRaises
  BY <1>2 DEF FetchesPending, StartRun, StartReclassify, NewSession, Close, Crash, ParseRaises,
     PopulateRaises, Forget
<1>3. CASE Parse \/ SkipMalformed \/ Populate \/ Recover
  BY <1>1, <1>3 DEF FetchesPending, NoStrayWork, Parse, SkipMalformed, Populate, Recover, AtLine,
     memory
<1>4. CASE Launch
  BY <1>1, <1>4 DEF FetchesPending, Launch, PendingUrls, store
<1>5. ASSUME NEW u \in Urls, Step(u) PROVE FetchesPending'
  <2> SUFFICES ASSUME NEW w \in Urls
               PROVE  /\ command' = "run" /\ work'[w] = "queued" => status'[w] = "pending"
                      /\ work'[w] \in {"begun", "fetching"} => status'[w] \in {"fetching", "pending"}
    BY DEF FetchesPending
  <2>1. command' = command
    BY <1>5 DEF Step, Begin, Bump, FetchOk, FetchFails, Load, StartJudging, Judge, Emit, EmitError,
       Raise, HandleUnexpected, Abort, Cancel, control
  <2>2. \/ status'[w] = status[w]
           /\ (work'[w] = work[w] \/ work'[w] \notin {"queued", "begun", "fetching"})
        \/ work'[w] \in {"begun", "fetching"} /\ status'[w] \in {"fetching", "pending"}
        \/ work'[w] \notin {"queued", "begun", "fetching"}
    <3>1. CASE Begin(u)
      BY <1>1, <3>1 DEF Begin, SetStatus, Goto, TypeOK, StoreTypeOK
    <3>2. CASE Bump(u)
      BY <1>1, <3>2, AtSays DEF Bump, BumpAttempts, Goto, TypeOK, StoreTypeOK, FetchesPending
    <3>3. CASE FetchOk(u) \/ FetchFails(u) \/ Judge(u) \/ HandleUnexpected(u)
      BY <1>1, <3>3 DEF FetchOk, SaveEvidence, FetchFails, SetFailed, Judge, SavePageRecord,
         HandleUnexpected, Goto, TypeOK, StoreTypeOK
    <3>4. CASE Load(u) \/ StartJudging(u) \/ Emit(u) \/ EmitError(u) \/ Raise(u) \/ Abort(u)
      BY <1>1, <3>4 DEF Load, StartJudging, Emit, EmitError, Raise, Abort, Cancel, Finish, Goto,
         store, TypeOK
    <3> QED BY <1>5, <3>1, <3>2, <3>3, <3>4 DEF Step
  <2> QED BY <2>1, <2>2 DEF FetchesPending
<1>6. ASSUME NEW s \in UrlStatus, Requeue(s) PROVE FetchesPending'
  <2> SUFFICES ASSUME NEW w \in Urls
               PROVE  /\ command' = "run" /\ work'[w] = "queued" => status'[w] = "pending"
                      /\ work'[w] \in {"begun", "fetching"} => status'[w] \in {"fetching", "pending"}
    BY DEF FetchesPending
  <2>1. status'[w] = "pending" \/ status'[w] = status[w]
    BY <1>6 DEF Requeue, RequeueStatus
  <2>2. work' = work /\ (command' = "run" => command' = command)
    BY <1>6 DEF Requeue, memory
  <2> QED BY <2>1, <2>2 DEF FetchesPending
<1>7. CASE Interrupt
  BY <1>7 DEF FetchesPending, Interrupt, Cancel, store
<1>8. CASE UNCHANGED vars
  BY <1>8 DEF FetchesPending, vars, store, memory, control
<1> QED BY <1>2, <1>3, <1>4, <1>5, <1>6, <1>7, <1>8 DEF Next, Prepare

\* A step of the pipeline is a move of its URLs, each along its state machine.
LEMMA NextMoves ==
    ASSUME IInv, FetchesPending, [Next]_vars
    PROVE  [Lifecycle!Next]_(Lifecycle!vars)
<1>1. CASE StartRun \/ StartReclassify \/ Launch
  BY <1>1, StartsMove
<1>2. CASE Parse \/ SkipMalformed \/ UNCHANGED vars
  BY <1>2 DEF Parse, SkipMalformed, vars, store, memory, Lifecycle!vars
<1>3. CASE Populate \/ Recover
  BY <1>3, PopulateMoves, RecoverMoves
<1>4. CASE Close \/ Crash \/ ParseRaises \/ PopulateRaises
  BY <1>4, EndsMove DEF Close, Crash, ParseRaises, PopulateRaises, Forget, Closed
<1>5. CASE Interrupt \/ \E u \in Urls : Abort(u)
  BY <1>5, EndsMove DEF Interrupt, Abort, Cancel, Cancellable, Closed
<1>6. ASSUME NEW u \in Urls, Step(u), ~Abort(u) PROVE Lifecycle!Next
  BY <1>6, BeginMoves, BumpMoves, FetchOkMoves, FailuresMove, JudgeMoves, SilentMoves DEF Step
<1>7. ASSUME NEW s \in UrlStatus, Requeue(s) PROVE Lifecycle!Next
  BY <1>7, RequeueMoves
<1> QED BY <1>1, <1>2, <1>3, <1>4, <1>5, <1>6, <1>7 DEF Next, Prepare

\* The pipeline implements the URL state machine: no kill, exception, requeue
\* or session, of any number, moves a row in a way the state machine does not
\* have.
THEOREM ImplementsLifecycle == Spec => FollowsLifecycle
<1>1. Init => Lifecycle!Init /\ FetchesPending
  BY DEF Init, StoreInit, Closed, Lifecycle!Init, FetchesPending
<1>2. IInv /\ FetchesPending /\ [Next]_vars => FetchesPending'
  BY FetchesPendingKept
<1>3. IInv /\ FetchesPending /\ [Next]_vars => [Lifecycle!Next]_(Lifecycle!vars)
  BY NextMoves
<1> QED BY <1>1, <1>2, <1>3, Invariance, PTL DEF Spec, FollowsLifecycle, Lifecycle!Spec

-----------------------------------------------------------------------------
(***************************************************************************)
(* Why a run that ends leaves nothing to do, and a resumed one touches      *)
(* nothing that is finished: every row that is pending or in its fetch is   *)
(* due to somebody.  The lemmas ask of the state only its shape, so that    *)
(* they also hold for a process that shares its database with another one   *)
(* (ProcessesProofs).                                                       *)
(***************************************************************************)
Shaped ==
    /\ status \in [Urls -> UrlStatus \cup {"absent"}]
    /\ work \in [Urls -> WorkStates]
    /\ NoStrayWork

Undone == {"pending", "fetching"}
AtFetch == {"begun", "fetching", "raised"}

\* The row of u is busy in its fetch: this process is at it, or not working.
Holds(u) == command = "run" /\ phase \in {"recovered", "work"} => work[u] \in AtFetch

\* This process will see to the row of u before its last run ends well.
Due(u) ==
    command = "run" =>
        /\ phase # "ok"
        /\ phase = "recovered" => status[u] = "pending"
        /\ phase = "work" => work[u] \in AtFetch \cup {"queued"}

\* Only a worker that starts its fetch puts a row there; who has a row at
\* hand keeps it until it is done with it, or an operator requeues it meanwhile.
Minds(u) ==
    /\ status'[u] = "fetching" /\ status[u] # "fetching" => Due(u)' /\ Holds(u)'
    /\ status'[u] = "fetching" /\ Holds(u) => Holds(u)'
    /\ LiveRequeue = {} =>
          /\ status'[u] \in Undone /\ Due(u) => Due(u)'
          /\ status'[u] \in Undone /\ status[u] \notin Undone => Due(u)'

-----------------------------------------------------------------------------
\* What the steps of a session's workers do to rows and workers.
LEMMA WorkerMoves ==
    ASSUME Shaped, NEW w \in Urls, Step(w)
    PROVE  /\ phase \in {"work", "aborting"} /\ command' = command
           /\ status' \in [Urls -> UrlStatus \cup {"absent"}]
           /\ work' \in [Urls -> WorkStates]
           /\ phase' \in {phase, "aborting"}
           /\ \A u \in Urls \ {w} :
                 /\ status'[u] = status[u]
                 /\ phase' = "work" => work'[u] = work[u]
           /\ status'[w] # status[w] => work[w] \notin Closed
           /\ \/ status'[w] = status[w]
              \/ status'[w] = "fetching" /\ work'[w] = "begun"
              \/ status'[w] \notin Undone
           /\ phase' = "work" /\ work[w] \in AtFetch \cup {"queued"} /\ command = "run" =>
                 \/ work'[w] \in AtFetch
                 \/ status'[w] \notin Undone
<1> USE DEF Shaped, WorkStates, Closed, Inside, Hot, UrlStatus, Undone, AtFetch, Goto, At
<1>1. CASE Begin(w)
  BY <1>1 DEF Begin, SetStatus, control
<1>2. CASE Bump(w)
  BY <1>2 DEF Bump, BumpAttempts, control
<1>3. CASE FetchOk(w)
  BY <1>3 DEF FetchOk, SaveEvidence, control
<1>4. CASE FetchFails(w)
  <2>1. PICK code \in FetchCodes : SetFailed(w, StatusFor(code), code)
    BY <1>4 DEF FetchFails
  <2>2. StatusFor(code) \in {"blocked_robots", "blocked_robots_unavailable", "skipped_nonhtml",
                            "skipped_too_large", "failed_fetch"}
    BY DEF StatusFor
  <2> QED BY <1>4, <2>1, <2>2 DEF FetchFails, SetFailed, control
<1>5. CASE Load(w)
  BY <1>5 DEF Load, store, control
<1>6. CASE StartJudging(w)
  BY <1>6 DEF StartJudging, store, control
<1>7. CASE Judge(w)
  BY <1>7 DEF Judge, SavePageRecord, control
<1>8. CASE Emit(w) \/ EmitError(w)
  BY <1>8 DEF Emit, EmitError, Finish, store, control
<1>9. CASE Raise(w)
  BY <1>9 DEF Raise, Throws, store, control
<1>10. CASE HandleUnexpected(w)
  BY <1>10 DEF HandleUnexpected, SetFailed, control
<1>11. CASE Abort(w)
  <2>1. phase \in {"work", "aborting"}
    BY <1>11 DEF Abort, Throws
  <2>2. Cancel({w})
    BY <1>11 DEF Abort
  <2> QED BY <2>1, <2>2 DEF Cancel, store
<1> QED BY <1>1, <1>2, <1>3, <1>4, <1>5, <1>6, <1>7, <1>8, <1>9, <1>10, <1>11 DEF Step

LEMMA InitShaped == Init => Shaped
BY DEF Init, StoreInit, Shaped, NoStrayWork, WorkStates, Closed

LEMMA ShapeKeeps == Shaped /\ [Next]_vars => Shaped'
<1> SUFFICES ASSUME Shaped, [Next]_vars PROVE Shaped'
  OBVIOUS
<1> USE DEF Shaped, WorkStates, Closed, NoStrayWork, store
<1>1. ASSUME NEW w \in Urls, Step(w) PROVE Shaped'
  BY <1>1, WorkerMoves
<1>2. CASE StartRun \/ StartReclassify
  BY <1>2 DEF StartRun, StartReclassify, NewSession, UrlStatus
<1>3. CASE Parse \/ ParseRaises \/ SkipMalformed \/ PopulateRaises
  BY <1>3 DEF Parse, ParseRaises, SkipMalformed, PopulateRaises, AtLine, Forget, memory, control
<1>4. CASE Populate
  BY <1>4 DEF Populate, AtLine, AddUrl, UrlStatus, control
<1>5. CASE Recover
  BY <1>5 DEF Recover, RequeueStuck, UrlStatus
<1>6. CASE Launch
  BY <1>6 DEF Launch
<1>7. CASE Close \/ Crash
  BY <1>7 DEF Close, Crash, Forget
<1>8. ASSUME NEW s \in UrlStatus, Requeue(s) PROVE Shaped'
  BY <1>8 DEF Requeue, RequeueStatus, UrlStatus, memory, Resting
<1>9. CASE Interrupt
  BY <1>9 DEF Interrupt, Cancel
<1>10. CASE UNCHANGED vars
  BY <1>10 DEF vars, memory, control
<1> QED BY <1>1, <1>2, <1>3, <1>4, <1>5, <1>6, <1>7, <1>8, <1>9, <1>10 DEF Next, Prepare

\* No step drops a row half-way.
LEMMA StepMinds ==
    ASSUME Shaped, [Next]_vars, NEW u \in Urls
    PROVE  Minds(u)
<1> USE DEF Shaped, Minds, Holds, Due, Undone, AtFetch, store
<1>1. ASSUME NEW w \in Urls, Step(w) PROVE Minds(u)
  <2>1. CASE w = u
    BY <1>1, <2>1, WorkerMoves
  <2>2. CASE w # u
    BY <1>1, <2>2, WorkerMoves
  <2> QED BY <2>1, <2>2
<1>2. CASE StartRun \/ StartReclassify
  BY <1>2 DEF StartRun, StartReclassify, NewSession
<1>3. CASE Parse \/ ParseRaises \/ SkipMalformed \/ PopulateRaises
  BY <1>3 DEF Parse, ParseRaises, SkipMalformed, PopulateRaises, AtLine, memory, control
<1>4. CASE Populate
  BY <1>4 DEF Populate, AtLine, AddUrl, control
<1>5. CASE Recover
  BY <1>5 DEF Recover, RequeueStuck
<1>6. CASE Launch
  BY <1>6 DEF Launch, PendingUrls, NoStrayWork
<1>7. CASE Close \/ Crash
  BY <1>7 DEF Close, Crash, Closed
<1>8. ASSUME NEW s \in UrlStatus, Requeue(s) PROVE Minds(u)
  BY <1>8 DEF Requeue, RequeueStatus, Resting, memory
<1>9. CASE Interrupt
  BY <1>9 DEF Interrupt, Cancel
<1>10. CASE UNCHANGED vars
  BY <1>10 DEF vars, memory, control
<1> QED BY <1>1, <1>2, <1>3, <1>4, <1>5, <1>6, <1>7, <1>8, <1>9, <1>10 DEF Next, Prepare

\* No session changes a finished row it has no worker at, but for a requeue.
LEMMA StepLeavesFinished ==
    ASSUME Shaped, [Next]_vars
    PROVE  LeavesFinished
<1> SUFFICES ASSUME NEW u \in Urls, status[u] \in Terminal, work[u] \in Closed,
                    status'[u] # status[u]
             PROVE  status'[u] = "pending" /\ lastError'[u] = None /\ attempts'[u] = 0
  BY DEF LeavesFinished, OnlyReopened
<1> USE DEF store
<1>1. ASSUME NEW w \in Urls, Step(w) PROVE FALSE
  BY <1>1, WorkerMoves
<1>2. CASE StartRun \/ StartReclassify
  BY <1>2 DEF StartRun, StartReclassify, NewSession
<1>3. CASE Prepare
  BY <1>3 DEF Shaped, Prepare, Parse, ParseRaises, SkipMalformed, PopulateRaises, Populate, AddUrl,
     Recover, RequeueStuck, Launch, Terminal, VerdictStatus, ErrorStatus
<1>4. CASE Close \/ Crash \/ Interrupt
  BY <1>4 DEF Close, Crash, Interrupt, Cancel
<1>5. ASSUME NEW s \in UrlStatus, Requeue(s)
      PROVE  status'[u] = "pending" /\ lastError'[u] = None /\ attempts'[u] = 0
  BY <1>5 DEF Requeue, RequeueStatus
<1>6. CASE UNCHANGED vars
  BY <1>6 DEF vars
<1> QED BY <1>1, <1>2, <1>3, <1>4, <1>5, <1>6 DEF Next

-----------------------------------------------------------------------------
\* Every row that is not done yet is due to the session.
DrainInv == Shaped /\ \A u \in Urls : status[u] \in Undone => Due(u)

\* A run that came to its end leaves no row pending or in its fetch: what was
\* pending or stuck when it started was taken and seen through, whatever
\* crashed, raised or was listed again before.  It needs the operator not to
\* requeue rows under a working session (`run_pipeline`, `requeue_stuck`).
THEOREM RunsDrain ==
    ASSUME LiveRequeue = {}
    PROVE  Spec => []RunDrains
<1>1. Init => DrainInv
  BY InitShaped DEF Init, StoreInit, DrainInv, Undone
<1>2. DrainInv /\ [Next]_vars => DrainInv'
  <2> SUFFICES ASSUME DrainInv, [Next]_vars PROVE DrainInv'
    OBVIOUS
  <2>1. Shaped'
    BY ShapeKeeps DEF DrainInv
  <2>2. \A u \in Urls : Minds(u)
    BY StepMinds DEF DrainInv
  <2> QED BY <2>1, <2>2 DEF DrainInv, Minds
<1>3. DrainInv => RunDrains
  BY DEF DrainInv, Due, Undone, RunDrains
<1> QED BY <1>1, <1>2, <1>3, PTL DEF Spec

\* Without an explicit requeue no session changes the status of a row that is
\* finished and that it does not work at: resuming is idempotent
\* (`run_pipeline`, `add_url`, `requeue_stuck`).
THEOREM ResumeIsIdempotent == Spec => FinishedStays
<1>1. Shaped /\ [Next]_vars => [LeavesFinished]_vars
  BY StepLeavesFinished
<1> QED BY <1>1, InitShaped, ShapeKeeps, PTL DEF Spec, FinishedStays
=============================================================================
