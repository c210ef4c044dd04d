-------------------------- MODULE ProcessesProofs --------------------------
(***************************************************************************)
(* Theorems about two processes on one database, for any URLs, inputs,      *)
(* concurrency, faults and numbers of sessions of either.  A step of one    *)
(* process leaves the memory of the other as it is, and what it does to the *)
(* rows is said by the lemmas of PipelineProofs, which hold of each of the two *)
(* whatever the other one has done to the database before.                  *)
(***************************************************************************)
EXTENDS Processes, PipelineProofs

\* The lemmas of PipelineProofs, said of the second process.
Second == INSTANCE PipelineProofs WITH
    MaxSessions <- MaxSessions2,
    command <- command2, phase <- phase2, llm <- llm2, lines <- lines2,
    sessions <- sessions2, work <- work2, held <- held2, verdict <- verdict2,
    fault <- fault2, stats <- stats2

-----------------------------------------------------------------------------
\* Other and Second are two instances of Pipeline with the same substitution:
\* the provers have to be told so, one operation at a time.
LEMMA SameAssumptions == Second!FrontierAssumption /\ Second!PipelineAssumption
<1>1. Codes = Second!Codes /\ Records = Second!Records
  BY DEF Codes, Second!Codes, Records, Second!Records
<1>2. InputLines = Second!InputLines
  BY DEF InputLines, Second!InputLines, LineKinds, Second!LineKinds
<1>3. IsFiniteSet(Urls) <=> Second!IsFiniteSet(Urls)
  BY DEF IsFiniteSet, Second!IsFiniteSet
<1>4. UrlStatus = Second!UrlStatus
  BY DEF UrlStatus, Second!UrlStatus
<1>5. Second!FrontierAssumption
  BY <1>1, FrontierAssumption DEF FrontierAssumption, Second!FrontierAssumption
<1>6. Second!PipelineAssumption
  BY <1>1, <1>2, <1>3, <1>4, PipelineAssumption, ProcessesAssumption
     DEF PipelineAssumption, Second!PipelineAssumption
<1> QED BY <1>5, <1>6

LEMMA SameInit == Other!Init => Second!Init
BY DEF Other!Init, Second!Init, Other!StoreInit, Second!StoreInit, Other!ZeroStats,
   Second!ZeroStats, Other!NoLine, Second!NoLine

LEMMA SameStep == Other!Next => Second!Next
<1>1. \A S : Other!Cardinality(S) = Second!Cardinality(S)
  BY DEF Other!Cardinality, Second!Cardinality
<1>2. \A u, w : Other!At(u, w) <=> Second!At(u, w)
  BY <1>1 DEF Other!At, Second!At, Other!Alone, Second!Alone, Other!Hot, Second!Hot,
     Other!HasPermit, Second!HasPermit, Other!Inside, Second!Inside, Other!Permits,
     Second!Permits
<1>3. \A u : Other!Throws(u) <=> Second!Throws(u)
  BY <1>2 DEF Other!Throws, Second!Throws, Other!RaiseSites, Second!RaiseSites, Other!store,
     Second!store, Other!LineOf, Second!LineOf, Other!VerdictLine, Second!VerdictLine,
     Other!ErrorLine, Second!ErrorLine
<1>4. Other!Cancellable = Second!Cancellable
  BY DEF Other!Cancellable, Second!Cancellable, Other!Waiting, Second!Waiting
<1>5. \A thrower : Other!Cancel(thrower) <=> Second!Cancel(thrower)
  BY <1>4 DEF Other!Cancel, Second!Cancel, Other!store, Second!store
<1>6. Other!StartRun => Second!StartRun
  BY DEF Other!StartRun, Second!StartRun, Other!NewSession, Second!NewSession, Other!Resting,
     Second!Resting, Other!store, Second!store
<1>7. Other!StartReclassify => Second!StartReclassify
  BY DEF Other!StartReclassify, Second!StartReclassify, Other!NewSession, Second!NewSession,
     Other!Resting, Second!Resting, Other!store, Second!store, Other!Reclassifiable,
     Second!Reclassifiable
<1>8. Other!Parse => Second!Parse
  BY DEF Other!Parse, Second!Parse, Other!store, Second!store, Other!memory, Second!memory
<1>9. Other!ParseRaises => Second!ParseRaises
  BY DEF Other!ParseRaises, Second!ParseRaises, Other!Forget, Second!Forget, Other!ZeroStats,
     Second!ZeroStats, Other!store, Second!store
<1>10. Other!SkipMalformed => Second!SkipMalformed
  BY DEF Other!SkipMalformed, Second!SkipMalformed, Other!AtLine, Second!AtLine, Other!store,
     Second!store, Other!control, Second!control
<1>11. Other!PopulateRaises => Second!PopulateRaises
  BY DEF Other!PopulateRaises, Second!PopulateRaises, Other!AtLine, Second!AtLine, Other!Forget,
     Second!Forget, Other!ZeroStats, Second!ZeroStats, Other!store, Second!store
<1>12. Other!Populate => Second!Populate
  BY DEF Other!Populate, Second!Populate, Other!AtLine, Second!AtLine, Other!Added,
     Second!Added, Other!AddUrl, Second!AddUrl, Other!control, Second!control
<1>13. Other!Recover => Second!Recover
  BY <1>1 DEF Other!Recover, Second!Recover, Other!RequeueStuck, Second!RequeueStuck
<1>14. Other!Launch => Second!Launch
  BY DEF Other!Launch, Second!Launch, Other!PendingUrls, Second!PendingUrls, Other!store,
     Second!store
<1>15. Other!Close => Second!Close
  BY DEF Other!Close, Second!Close, Other!Closed, Second!Closed, Other!Forget, Second!Forget,
     Other!ZeroStats, Second!ZeroStats, Other!store, Second!store
<1>16. Other!Interrupt => Second!Interrupt
  BY <1>4, <1>5 DEF Other!Interrupt, Second!Interrupt, Other!Hot, Second!Hot
<1>17. Other!Crash => Second!Crash
  BY DEF Other!Crash, Second!Crash, Other!Resting, Second!Resting, Other!Forget, Second!Forget,
     Other!ZeroStats, Second!ZeroStats, Other!store, Second!store
<1>18. \A u \in Urls : Other!Begin(u) => Second!Begin(u)
  BY <1>2 DEF Other!Begin, Second!Begin, Other!SetStatus, Second!SetStatus, Other!Goto,
     Second!Goto, Other!control, Second!control
<1>19. \A u \in Urls : Other!Bump(u) => Second!Bump(u)
  BY <1>2 DEF Other!Bump, Second!Bump, Other!BumpAttempts, Second!BumpAttempts, Other!Goto,
     Second!Goto, Other!control, Second!control
<1>20. \A u \in Urls : Other!FetchOk(u) => Second!FetchOk(u)
  BY <1>2 DEF Other!FetchOk, Second!FetchOk, Other!SaveEvidence, Second!SaveEvidence,
     Other!Goto, Second!Goto, Other!control, Second!control
<1>21. \A u \in Urls : Other!FetchFails(u) => Second!FetchFails(u)
  BY <1>2 DEF Other!FetchFails, Second!FetchFails, Other!SetFailed, Second!SetFailed,
     Other!StatusFor, Second!StatusFor, Other!Goto, Second!Goto, Other!control, Second!control
<1>22. \A u \in Urls : Other!Load(u) => Second!Load(u)
  BY <1>2 DEF Other!Load, Second!Load, Other!Goto, Second!Goto, Other!store, Second!store,
     Other!control, Second!control
<1>23. \A u \in Urls : Other!StartJudging(u) => Second!StartJudging(u)
  BY <1>2, <1>1 DEF Other!StartJudging, Second!StartJudging, Other!Permits, Second!Permits,
     Other!Goto, Second!Goto, Other!store, Second!store, Other!control, Second!control
<1>24. \A u \in Urls : Other!Judge(u) => Second!Judge(u)
  BY <1>2 DEF Other!Judge, Second!Judge, Other!Judgments, Second!Judgments,
     Other!SavePageRecord, Second!SavePageRecord, Other!Goto, Second!Goto, Other!control,
     Second!control
<1>25. \A u \in Urls : Other!Emit(u) => Second!Emit(u)
  BY <1>2 DEF Other!Emit, Second!Emit, Other!VerdictLine, Second!VerdictLine, Other!Finish,
     Second!Finish, Other!Goto, Second!Goto, Other!store, Second!store, Other!control,
     Second!control
<1>26. \A u \in Urls : Other!EmitError(u) => Second!EmitError(u)
  BY <1>2 DEF Other!EmitError, Second!EmitError, Other!ErrorLine, Second!ErrorLine,
     Other!Finish, Second!Finish, Other!Goto, Second!Goto, Other!store, Second!store,
     Other!control, Second!control
<1>27. \A u \in Urls : Other!Raise(u) => Second!Raise(u)
  BY <1>3 DEF Other!Raise, Second!Raise, Other!Goto, Second!Goto, Other!store, Second!store,
     Other!control, Second!control
<1>28. \A u \in Urls : Other!HandleUnexpected(u) => Second!HandleUnexpected(u)
  BY <1>2 DEF Other!HandleUnexpected, Second!HandleUnexpected, Other!SetFailed,
     Second!SetFailed, Other!Goto, Second!Goto, Other!control, Second!control
<1>29. \A u \in Urls : Other!Abort(u) => Second!Abort(u)
  BY <1>3, <1>4, <1>5 DEF Other!Abort, Second!Abort
<1>30. \A s \in Other!UrlStatus : Other!Requeue(s) => Second!Requeue(s)
  BY DEF Other!Requeue, Second!Requeue, Other!RequeueStatus, Second!RequeueStatus,
     Other!Resting, Second!Resting, Other!memory, Second!memory
<1> QED BY <1>6, <1>7, <1>8, <1>9, <1>10, <1>11, <1>12, <1>13, <1>14, <1>15, <1>16, <1>17,
     <1>18, <1>19, <1>20, <1>21, <1>22, <1>23, <1>24, <1>25, <1>26, <1>27, <1>28, <1>29,
     <1>30 DEF Other!Next, Second!Next, Other!Prepare, Second!Prepare, Other!Step,
     Second!Step, Other!UrlStatus, Second!UrlStatus

-----------------------------------------------------------------------------
\* Whoever takes a step, what it does to a row is fit for both: a row in its
\* fetch is in the hands of one of them (or that one does not work), and a
\* row that is to be done is due to one of them.
HeldByOne(u) == status[u] = "fetching" => Holds(u) \/ Second!Holds(u)
DueToOne(u) == status[u] \in Undone => Due(u) \/ Second!Due(u)

JointShape == Shaped /\ Second!Shaped

LEMMA JointInit == BothInit => JointShape /\ \A u \in Urls : HeldByOne(u) /\ DueToOne(u)
<1>1. BothInit => JointShape
  BY InitShaped, SameInit, SameAssumptions, Second!InitShaped DEF BothInit, JointShape
<1>2. BothInit => \A u \in Urls : status[u] = "absent"
  BY DEF BothInit, Init, StoreInit
<1> QED BY <1>1, <1>2 DEF HeldByOne, DueToOne, Undone

\* Each step of the joint system is a step of one process and leaves the
\* memory of the other one alone.
LEMMA OneSteps ==
    ASSUME [BothNext]_bothVars
    PROVE  \/ [Next]_vars /\ UNCHANGED private2
           \/ [Second!Next]_(Second!vars) /\ UNCHANGED <<memory, control>>
BY SameStep DEF BothNext, bothVars, vars

LEMMA JointShapeKeeps == JointShape /\ [BothNext]_bothVars => JointShape'
<1> SUFFICES ASSUME JointShape, [BothNext]_bothVars PROVE JointShape'
  OBVIOUS
<1>1. CASE [Next]_vars /\ UNCHANGED private2
  <2>1. Shaped'
    BY <1>1, ShapeKeeps DEF JointShape
  <2> QED BY <1>1, <2>1 DEF JointShape, Shaped, private2, UrlStatus, Second!Shaped,
             Second!UrlStatus, Second!NoStrayWork
<1>2. CASE [Second!Next]_(Second!vars) /\ UNCHANGED <<memory, control>>
  <2>1. Second!Shaped'
    BY <1>2, SameAssumptions, Second!ShapeKeeps DEF JointShape
  <2> QED BY <1>2, <2>1 DEF JointShape, Shaped, memory, control, UrlStatus, NoStrayWork,
             Second!Shaped, Second!UrlStatus
<1> QED BY <1>1, <1>2, OneSteps

LEMMA RowsKeepTheirOwner ==
    ASSUME JointShape, [BothNext]_bothVars, NEW u \in Urls
    PROVE  /\ HeldByOne(u) => HeldByOne(u)'
           /\ LiveRequeue = {} /\ DueToOne(u) => DueToOne(u)'
<1>1. CASE [Next]_vars /\ UNCHANGED private2
  <2>1. Minds(u)
    BY <1>1, StepMinds DEF JointShape
  <2>2. Second!Holds(u) => Second!Holds(u)'
    BY <1>1 DEF private2, Second!Holds
  <2>3. Second!Due(u) /\ (status'[u] = "pending" \/ status'[u] = status[u]) => Second!Due(u)'
    BY <1>1 DEF private2, Second!Due
  <2> QED BY <2>1, <2>2, <2>3 DEF Minds, HeldByOne, DueToOne, Undone
<1>2. CASE [Second!Next]_(Second!vars) /\ UNCHANGED <<memory, control>>
  <2>1. Second!Minds(u)
    BY <1>2, SameAssumptions, Second!StepMinds DEF JointShape
  <2>2. Holds(u) => Holds(u)'
    BY <1>2 DEF memory, control, Holds
  <2>3. Due(u) /\ (status'[u] = "pending" \/ status'[u] = status[u]) => Due(u)'
    BY <1>2 DEF memory, control, Due
  <2> QED BY <2>1, <2>2, <2>3 DEF Second!Minds, Second!Undone, HeldByOne, DueToOne, Undone
<1> QED BY <1>1, <1>2, OneSteps

-----------------------------------------------------------------------------
\* While two recovered runs work side by side, a row in its fetch has a live
\* worker there in one of them, whatever the other one resets, fails or
\* requeues (`_fetch_one`, `requeue_stuck`).
THEOREM FetchesHaveOwners == BothSpec => []FetchingHasOwner
<1> DEFINE Inv == JointShape /\ \A u \in Urls : HeldByOne(u)
<1>1. BothInit => Inv
  BY JointInit
<1>2. Inv /\ [BothNext]_bothVars => Inv'
  BY JointShapeKeeps, RowsKeepTheirOwner
<1>3. Inv => FetchingHasOwner
  BY DEF HeldByOne, Holds, AtFetch, Second!Holds, Second!AtFetch, FetchingHasOwner
<1> QED BY <1>1, <1>2, <1>3, PTL DEF BothSpec

\* When the last run of each process has come to its end, no row is pending or
\* in its fetch: one that a process took from under the other is seen through
\* by one of them.  Nobody may requeue rows under a working session
\* (`requeue_stuck`, `run_pipeline`).
THEOREM BothRunsDrain ==
    ASSUME LiveRequeue = {}
    PROVE  BothSpec => []JointlyDrained
<1> DEFINE Inv == JointShape /\ \A u \in Urls : DueToOne(u)
<1>1. BothInit => Inv
  BY JointInit
<1>2. Inv /\ [BothNext]_bothVars => Inv'
  BY JointShapeKeeps, RowsKeepTheirOwner
<1>3. Inv => JointlyDrained
  BY DEF DueToOne, Due, Undone, Second!Due, JointlyDrained
<1> QED BY <1>1, <1>2, <1>3, PTL DEF BothSpec

\* A finished row at which neither process has a worker is left as it is by
\* both, but for an explicit requeue (`add_url`, `requeue_stuck`).
THEOREM BothLeaveFinished == BothSpec => JointlyFinishedStays
<1>1. JointShape /\ [BothNext]_bothVars =>
        [\A u \in Urls : work2[u] \in Closed => OnlyReopened(u)]_bothVars
  <2> SUFFICES ASSUME JointShape, [BothNext]_bothVars,
                      NEW u \in Urls, work2[u] \in Closed
               PROVE  OnlyReopened(u)
    OBVIOUS
  <2>1. CASE [Next]_vars
    BY <2>1, StepLeavesFinished DEF JointShape, LeavesFinished
  <2>2. CASE [Second!Next]_(Second!vars)
    <3>1. Second!LeavesFinished
      BY <2>2, SameAssumptions, Second!StepLeavesFinished DEF JointShape
    <3> QED BY <3>1 DEF OnlyReopened, Terminal, VerdictStatus, ErrorStatus, Closed,
           Second!LeavesFinished, Second!OnlyReopened, Second!Terminal,
           Second!VerdictStatus, Second!ErrorStatus, Second!Closed
  <2> QED BY <2>1, <2>2, OneSteps
<1> QED BY <1>1, JointInit, JointShapeKeeps, PTL DEF BothSpec, JointlyFinishedStays

=============================================================================
