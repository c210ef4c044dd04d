--------------------------- MODULE FetcherProofs ---------------------------
(***************************************************************************)
(* Theorems about Fetcher for any number of fetches and hosts, any URLs,    *)
(* robots files and answers, and any limits on redirects and retries.       *)
(***************************************************************************)
EXTENDS Fetcher, TLAPS

Over == {"ended", "backoff", "done"}        \* the attempt has its outcome
Asking == {"robots", "robotsWait", "robotsSent", "pageWait", "pageSent"}
Open == {"robotsSent", "pageSent"}

\* A hop that got past its resolution asks for a URL; a broken Location does
\* not come that far.
HopsAreUrls == \A t \in Tasks : pc[t] \in Asking => current[t] \in Urls

\* The redirect loop is left at its bound.
RedirectsBounded == \A t \in Tasks : pc[t] \notin Over => hop[t] <= MaxRedirects

\* An attempt has a response and an outcome only once it is over, and the
\* outcome is the verdict on that response if there is one.
OutcomeOfResponse ==
    \A t \in Tasks :
        /\ pc[t] \notin Over => response[t] = None
        /\ pc[t] \in Over /\ response[t] # None => result[t] = Finalize(response[t])
        /\ pc[t] \in Over => result[t] \in Results

\* Nobody retries more often than the settings say.
RetriesBounded == \A t \in Tasks : attempt[t] > 0 => attempt[t] <= Retries

IInv ==
    /\ TypeOK /\ HopsAreUrls /\ RedirectsBounded /\ OutcomeOfResponse /\ RetriesBounded
    /\ SlotsExact /\ PinnedToCurrent /\ RobotsConsulted /\ TransientRetried

-----------------------------------------------------------------------------
LEMMA InitEstablishes == Init => IInv
<1> SUFFICES ASSUME Init PROVE IInv
  OBVIOUS
<1> USE FetcherAssumption DEF Init, States
<1>1. TypeOK
  BY DEF TypeOK
<1>2. HopsAreUrls /\ RedirectsBounded /\ OutcomeOfResponse /\ RetriesBounded
  BY DEF HopsAreUrls, RedirectsBounded, OutcomeOfResponse, RetriesBounded, Asking, Over
<1>3. SlotsExact /\ PinnedToCurrent /\ RobotsConsulted /\ TransientRetried
  BY DEF SlotsExact, PinnedToCurrent, RobotsConsulted, TransientRetried
<1> QED BY <1>1, <1>2, <1>3 DEF IInv

\* An error status is told from every other one, and the transient ones from
\* the rest.
LEMMA HttpErrorSays ==
    ASSUME NEW status \in 100..599
    PROVE  /\ HttpError(status) # None => HttpError(status) \in Results
           /\ status >= 500 \/ status = 429 =>
                 HttpError(status) # None /\ HttpError(status) \in Retryable
<1> USE FetcherAssumption DEF HttpError, Results, Retryable
<1>1. CASE status = 429
  BY <1>1
<1>2. CASE status \in 400..499 \ {429}
  BY <1>2
<1>3. CASE status >= 500
  BY <1>3
<1>4. CASE status < 400
  BY <1>4
<1> QED BY <1>1, <1>2, <1>3, <1>4

\* The verdict on a response is one of the error codes, or "ok"; one with a
\* transient status is transient whatever its body is.
LEMMA FinalizeIsResult ==
    ASSUME NEW r \in Responses
    PROVE  /\ Finalize(r) \in Results
           /\ r.status >= 500 \/ r.status = 429 => Finalize(r) \in Retryable
<1>1. r.status \in 100..599
  BY FetcherAssumption
<1>2. CASE HttpError(r.status) # None
  <2>1. Finalize(r) = HttpError(r.status)
    BY <1>2 DEF Finalize
  <2> QED BY <1>1, <1>2, <2>1, HttpErrorSays
<1>3. CASE HttpError(r.status) = None
  <2>1. Finalize(r) \in {"E_NONHTML", "E_TOO_LARGE", "E_BOMB", "ok"}
    BY <1>3 DEF Finalize
  <2>2. Finalize(r) \in Results
    BY <2>1 DEF Results
  <2>3. ~(r.status >= 500 \/ r.status = 429)
    BY <1>1, <1>3, HttpErrorSays
  <2> QED BY <2>2, <2>3
<1> QED BY <1>2, <1>3

\* What a policy at hand does to its task, and to nobody else.
LEMMA JudgeMoves ==
    ASSUME TypeOK, NEW t \in Tasks, NEW disallowed, Judge(t, disallowed)
    PROVE  /\ \E s \in {"ended", "pageWait"} : pc' = [pc EXCEPT ![t] = s]
           /\ pc'[t] = "pageWait" => result' = result
           /\ pc'[t] = "ended" => result' = [result EXCEPT ![t] = "E_ROBOTS_BLOCK"]
BY DEF Judge, End, Goto, TypeOK

LEMMA PolicyDecides ==
    ASSUME TypeOK, NEW t \in Tasks, Resolve(t) \/ RobotsRead(t) \/ RobotsUnavailable(t)
    PROVE  /\ pc' \in [Tasks -> States] /\ result' \in [Tasks -> Results \cup {None}]
           /\ pc'[t] \in {"ended", "pageWait", "robots"}
           /\ pc'[t] = "ended" => result'[t] = "E_ROBOTS_BLOCK"
           /\ pc'[t] # "ended" => result'[t] = result[t]
           /\ Resolve(t) /\ pc'[t] = "pageWait" /\ respect => cache[HostOf[current[t]]] # None
           /\ UNCHANGED <<current, hop, attempt, response, respect>>
<1> USE DEF TypeOK, States, Results, Goto
<1>1. CASE Resolve(t)
  <2>1. CASE \E d : Judge(t, d)
    BY <1>1, <2>1, JudgeMoves DEF Resolve, shared
  <2>2. CASE Goto(t, "robots") /\ UNCHANGED result
    BY <1>1, <2>2 DEF Resolve, shared
  <2> QED BY <1>1, <2>1, <2>2 DEF Resolve
<1>2. CASE ~Resolve(t)
  <2>1. PICK d : Judge(t, d)
    BY <1>2 DEF RobotsRead, RobotsUnavailable
  <2>2. UNCHANGED <<current, hop, attempt, response, respect>>
    BY <1>2 DEF RobotsRead, RobotsUnavailable
  <2> HIDE DEF Goto
  <2> QED BY <1>2, <2>1, <2>2, JudgeMoves
<1> QED BY <1>1, <1>2

LEMMA ExitMoves ==
    ASSUME TypeOK, NEW t \in Tasks, Exit(t)
    PROVE  /\ slot' \in [Hosts -> Tasks \cup {None}]
           /\ \A h \in Hosts : slot'[h] # t
           /\ \A h \in Hosts, w \in Tasks : w # t => (slot'[h] = w <=> slot[h] = w)
BY FetcherAssumption DEF Exit, TypeOK

\* A step of one fetch leaves the others where they are, and no policy is ever
\* forgotten.
LEMMA OthersStay ==
    ASSUME TypeOK, NEW t \in Tasks, Step(t)
    PROVE  /\ \A w \in Tasks \ {t} :
                 /\ pc'[w] = pc[w] /\ current'[w] = current[w] /\ hop'[w] = hop[w]
                 /\ attempt'[w] = attempt[w] /\ pinned'[w] = pinned[w]
                 /\ response'[w] = response[w] /\ result'[w] = result[w]
           /\ \A h \in Hosts : cache[h] # None => cache'[h] # None
           /\ respect' = respect
<1> USE FetcherAssumption DEF TypeOK, Goto, End, Judge, local, shared
<1>1. CASE ResolveFails(t) \/ Resolve(t) \/ QueueRobots(t) \/ SendRobots(t) \/ SendPage(t)
  BY <1>1 DEF ResolveFails, Resolve, QueueRobots, SendRobots, SendPage
<1>2. CASE RobotsRead(t) \/ RobotsUnavailable(t)
  BY <1>2 DEF RobotsRead, RobotsUnavailable
<1>3. CASE FollowRedirect(t) \/ ReceivePage(t) \/ TransportFails(t) \/ Escapes(t)
  BY <1>3 DEF FollowRedirect, ReceivePage, TransportFails, Escapes
<1>4. CASE Return(t) \/ BackOff(t) \/ Retry(t)
  BY <1>4 DEF Return, BackOff, Retry
<1> QED BY <1>1, <1>2, <1>3, <1>4 DEF Step

LEMMA TypeKeeps == ASSUME IInv, NEW t \in Tasks, Step(t) PROVE TypeOK'
<1> USE FetcherAssumption DEF IInv, TypeOK, Goto, End, States, local, shared
<1>1. ASSUME ResolveFails(t) PROVE TypeOK'
  BY <1>1 DEF ResolveFails, Results
<1>2. ASSUME Resolve(t) PROVE TypeOK'
  <2>1. pc' \in [Tasks -> States] /\ result' \in [Tasks -> Results \cup {None}]
    BY <1>2, PolicyDecides
  <2>2. pinned' \in [Tasks -> Hosts \cup {None}]
    BY <1>2 DEF Resolve
  <2> QED BY <1>2, <2>1, <2>2 DEF Resolve
<1>3. ASSUME QueueRobots(t) PROVE TypeOK'
  BY <1>3 DEF QueueRobots
<1>4. ASSUME SendRobots(t) \/ SendPage(t) PROVE TypeOK'
  <2>1. slot' = [slot EXCEPT ![HostOf[current[t]]] = t]
    BY <1>4 DEF SendRobots, SendPage, Enter
  <2>2. slot' \in [Hosts -> Tasks \cup {None}]
    BY <2>1
  <2> QED BY <1>4, <2>2 DEF SendRobots, SendPage
<1>5. ASSUME RobotsRead(t) \/ RobotsUnavailable(t) PROVE TypeOK'
  <2>1. HostOf[current[t]] \in Hosts
    BY <1>5 DEF RobotsRead, RobotsUnavailable, HopsAreUrls, Asking
  <2>2. pc' \in [Tasks -> States] /\ result' \in [Tasks -> Results \cup {None}]
    BY <1>5, PolicyDecides
  <2>3. cache' \in [Hosts -> (SUBSET Urls) \cup {None}] /\ read' \subseteq Hosts
    BY <1>5, <2>1 DEF RobotsRead, RobotsUnavailable
  <2>4. slot' \in [Hosts -> Tasks \cup {None}]
    BY <1>5, ExitMoves DEF RobotsRead, RobotsUnavailable
  <2> QED BY <1>5, <2>2, <2>3, <2>4 DEF RobotsRead, RobotsUnavailable
<1>6. ASSUME FollowRedirect(t) PROVE TypeOK'
  BY <1>6, SMTT(30) DEF FollowRedirect, Exit, Redirects, RedirectsBounded, Over, Results
<1>7. ASSUME ReceivePage(t) PROVE TypeOK'
  <2>1. slot' \in [Hosts -> Tasks \cup {None}]
    BY <1>7 DEF ReceivePage, Exit
  <2>2. pc' \in [Tasks -> States] /\ response' \in [Tasks -> Responses \cup {None}]
        /\ result' \in [Tasks -> Results \cup {None}]
    BY <1>7, FinalizeIsResult DEF ReceivePage
  <2> QED BY <1>7, <2>1, <2>2 DEF ReceivePage
<1>8. ASSUME TransportFails(t) \/ Escapes(t) PROVE TypeOK'
  BY <1>8 DEF TransportFails, Escapes, Exit, Results, Retryable
<1>9. ASSUME Return(t) \/ BackOff(t) PROVE TypeOK'
  BY <1>9 DEF Return, BackOff
<1>10. ASSUME Retry(t) PROVE TypeOK'
  <2>1. UrlOf[t] \in Urls
    BY FetcherAssumption
  <2>2. pc' \in [Tasks -> States] /\ current' \in [Tasks -> Urls \cup {Broken}]
        /\ hop' \in [Tasks -> 0..MaxRedirects + 1]
    BY <1>10, <2>1 DEF Retry
  <2>3. /\ pinned' \in [Tasks -> Hosts \cup {None}]
        /\ response' \in [Tasks -> Responses \cup {None}]
        /\ result' \in [Tasks -> Results \cup {None}]
    BY <1>10 DEF Retry
  <2> QED BY <1>10, <2>2, <2>3 DEF Retry
<1> QED BY <1>1, <1>2, <1>3, <1>4, <1>5, <1>6, <1>7, <1>8, <1>9, <1>10 DEF Step

\* What each conjunct of IInv says of one task.
AttemptOK(t) ==
    /\ pc[t] \in Asking => current[t] \in Urls /\ pinned[t] = HostOf[current[t]]
    /\ pc[t] \notin Over => hop[t] <= MaxRedirects /\ response[t] = None
    /\ pc[t] \in Over => result[t] \in Results
    /\ pc[t] \in Over /\ response[t] # None => result[t] = Finalize(response[t])
    /\ attempt[t] > 0 => attempt[t] <= Retries
    /\ pc[t] = "done" /\ result[t] \in Retryable => attempt[t] >= Retries

\* Step by step, a fetch keeps its own account right.
LEMMA AttemptKeeps ==
    ASSUME IInv, NEW t \in Tasks, Step(t)
    PROVE  AttemptOK(t)'
<1> USE FetcherAssumption DEF IInv, TypeOK, Goto, End, Asking, Over, local, shared
<1>0. AttemptOK(t)
  BY DEF AttemptOK, HopsAreUrls, PinnedToCurrent, RedirectsBounded, OutcomeOfResponse,
         RetriesBounded, TransientRetried
<1>1. ASSUME ResolveFails(t) PROVE AttemptOK(t)'
  BY <1>0, <1>1 DEF AttemptOK, ResolveFails, Results, Retryable
<1>2. ASSUME Resolve(t) PROVE AttemptOK(t)'
  <2>1. /\ pc[t] = "hop" /\ current[t] \in Urls
        /\ pinned' = [pinned EXCEPT ![t] = HostOf[current[t]]]
    BY <1>2 DEF Resolve
  <2> QED BY <1>0, <1>2, <2>1, PolicyDecides DEF AttemptOK, Results, Retryable
<1>3. ASSUME QueueRobots(t) \/ SendRobots(t) \/ SendPage(t) PROVE AttemptOK(t)'
  BY <1>0, <1>3 DEF AttemptOK, QueueRobots, SendRobots, SendPage
<1>4. ASSUME RobotsRead(t) \/ RobotsUnavailable(t) PROVE AttemptOK(t)'
  BY <1>0, <1>4, PolicyDecides DEF AttemptOK, RobotsRead, RobotsUnavailable, Results, Retryable
<1>5. ASSUME FollowRedirect(t) PROVE AttemptOK(t)'
  BY <1>0, <1>5 DEF AttemptOK, FollowRedirect, Results, Retryable
<1>6. ASSUME ReceivePage(t) PROVE AttemptOK(t)'
  BY <1>0, <1>6, FinalizeIsResult DEF AttemptOK, ReceivePage
<1>7. ASSUME TransportFails(t) \/ Escapes(t) PROVE AttemptOK(t)'
  BY <1>0, <1>7 DEF AttemptOK, TransportFails, Escapes, Results, Retryable
<1>8. ASSUME Return(t) \/ BackOff(t) \/ Retry(t) PROVE AttemptOK(t)'
  BY <1>0, <1>8 DEF AttemptOK, Return, BackOff, Retry
<1> QED BY <1>1, <1>2, <1>3, <1>4, <1>5, <1>6, <1>7, <1>8 DEF Step

\* Whatever ends a request, its slot is free again; nobody's slot is taken.
LEMMA SlotsKeep == ASSUME IInv, NEW t \in Tasks, Step(t) PROVE SlotsExact'
<1> USE FetcherAssumption DEF IInv, TypeOK, Goto, End, SlotsExact, HopsAreUrls, Asking, local, shared
<1>1. ASSUME slot' = slot, current' = current \/ pc[t] = "backoff",
             pc[t] \notin Open, pc'[t] \notin Open
      PROVE  SlotsExact'
  BY <1>1, OthersStay DEF Open
<1>2. ASSUME SendRobots(t) \/ SendPage(t) PROVE SlotsExact'
  BY <1>2 DEF SendRobots, SendPage, Enter
<1>3. ASSUME Exit(t), pc'[t] \notin Open PROVE SlotsExact'
  BY <1>3, ExitMoves, OthersStay DEF Open
<1>4. CASE ResolveFails(t) \/ QueueRobots(t) \/ Return(t) \/ BackOff(t) \/ Retry(t)
  BY <1>1, <1>4 DEF ResolveFails, QueueRobots, Return, BackOff, Retry, Open
<1>5. CASE Resolve(t)
  <2>1. pc[t] = "hop" /\ slot' = slot
    BY <1>5 DEF Resolve
  <2> QED BY <1>1, <1>5, <2>1, PolicyDecides DEF Open
<1>6. CASE RobotsRead(t) \/ RobotsUnavailable(t)
  BY <1>3, <1>6, PolicyDecides DEF RobotsRead, RobotsUnavailable, Open
<1>7. CASE FollowRedirect(t) \/ ReceivePage(t) \/ TransportFails(t) \/ Escapes(t)
  BY <1>3, <1>7 DEF FollowRedirect, ReceivePage, TransportFails, Escapes, Open
<1> QED BY <1>2, <1>4, <1>5, <1>6, <1>7 DEF Step

\* Who goes for a page found a policy, or just stored one.
LEMMA ConsultedKeeps == ASSUME IInv, NEW t \in Tasks, Step(t) PROVE RobotsConsulted'
<1> USE FetcherAssumption DEF IInv, TypeOK, Goto, End, RobotsConsulted, HopsAreUrls, Asking, local, shared
<1>1. ASSUME pc'[t] \in {"pageWait", "pageSent"} /\ respect' => cache'[HostOf[current'[t]]] # None
      PROVE  RobotsConsulted'
  <2>1. \A w \in Tasks \ {t} :
            /\ pc'[w] = pc[w] /\ current'[w] = current[w]
            /\ pc[w] \in Asking => HostOf[current[w]] \in Hosts
    BY OthersStay
  <2>2. \A h \in Hosts : cache[h] # None => cache'[h] # None
    BY OthersStay
  <2>3. respect' = respect
    BY OthersStay
  <2>4. ASSUME NEW w \in Tasks \ {t}
        PROVE  respect' /\ pc'[w] \in {"pageWait", "pageSent"} => cache'[HostOf[current'[w]]] # None
    <3> SUFFICES ASSUME respect', pc'[w] \in {"pageWait", "pageSent"}
                 PROVE  cache'[HostOf[current'[w]]] # None
      OBVIOUS
    <3>1. pc[w] \in {"pageWait", "pageSent"} /\ current'[w] = current[w]
          /\ HostOf[current[w]] \in Hosts
      BY <2>1
    <3>2. respect
      BY <2>3
    <3>3. cache[HostOf[current[w]]] # None
      BY <3>1, <3>2
    <3> QED BY <2>2, <3>1, <3>3
  <2> QED BY <1>1, <2>4
<1>2. CASE Resolve(t)
  BY <1>1, <1>2, PolicyDecides DEF Resolve
<1>3. CASE SendPage(t)
  BY <1>1, <1>3, OthersStay DEF SendPage
<1>4. CASE RobotsRead(t)
  BY <1>1, <1>4 DEF RobotsRead
<1>5. CASE RobotsUnavailable(t)
  BY <1>1, <1>5 DEF RobotsUnavailable
<1>6. CASE \/ ResolveFails(t) \/ QueueRobots(t) \/ SendRobots(t) \/ FollowRedirect(t)
           \/ ReceivePage(t) \/ TransportFails(t) \/ Escapes(t)
           \/ Return(t) \/ BackOff(t) \/ Retry(t)
  <2>1. pc'[t] \notin {"pageWait", "pageSent"}
    BY <1>6
       DEF ResolveFails, QueueRobots, SendRobots, FollowRedirect, ReceivePage, TransportFails,
           Escapes, Return, BackOff, Retry
  <2> QED BY <1>1, <2>1
<1> QED BY <1>2, <1>3, <1>4, <1>5, <1>6 DEF Step

LEMMA NextKeeps == IInv /\ [Next]_vars => IInv'
<1>1. ASSUME IInv, NEW t \in Tasks, Step(t) PROVE IInv'
  <2>1. TypeOK' /\ SlotsExact' /\ RobotsConsulted'
    BY <1>1, TypeKeeps, SlotsKeep, ConsultedKeeps
  <2>2. \A w \in Tasks : AttemptOK(w)'
    <3>1. \A w \in Tasks : AttemptOK(w)
      BY <1>1 DEF IInv, AttemptOK, HopsAreUrls, PinnedToCurrent, RedirectsBounded,
           OutcomeOfResponse, RetriesBounded, TransientRetried, Asking, Over
    <3>2. TypeOK
      BY <1>1 DEF IInv
    <3> QED BY <1>1, <3>1, <3>2, AttemptKeeps, OthersStay DEF AttemptOK
  <2>3. HopsAreUrls' /\ PinnedToCurrent' /\ RedirectsBounded' /\ OutcomeOfResponse'
        /\ RetriesBounded'
    BY <2>2 DEF AttemptOK, HopsAreUrls, PinnedToCurrent, RedirectsBounded, OutcomeOfResponse,
       RetriesBounded, Asking
  <2>4. TransientRetried'
    <3> SUFFICES ASSUME NEW w \in Tasks, pc'[w] = "done"
                 PROVE  /\ result'[w] \in Retryable => attempt'[w] >= Retries
                        /\ response'[w] # None
                              /\ (response'[w].status >= 500 \/ response'[w].status = 429)
                           => result'[w] \in Retryable
      BY DEF TransientRetried
    <3>1. response'[w] # None => response'[w] \in Responses /\ result'[w] = Finalize(response'[w])
      BY <2>1, <2>2 DEF AttemptOK, TypeOK, Over
    <3> QED BY <2>2, <3>1, FinalizeIsResult DEF AttemptOK
  <2> QED BY <2>1, <2>3, <2>4 DEF IInv
<1>2. ASSUME IInv, UNCHANGED vars PROVE IInv'
  BY <1>2 DEF IInv, TypeOK, HopsAreUrls, RedirectsBounded, OutcomeOfResponse, RetriesBounded,
     SlotsExact, PinnedToCurrent, RobotsConsulted, TransientRetried, vars, local, shared
<1> QED BY <1>1, <1>2 DEF Next
LEMMA Invariance == Spec => []IInv
BY InitEstablishes, NextKeeps, PTL DEF Spec

\* Every variable of every fetch keeps its type: in particular no fetch follows
\* more than MaxRedirects + 1 redirects in one attempt (`_fetch_once`).
THEOREM TypeCorrect == Spec => []TypeOK
<1>1. IInv => TypeOK
  BY DEF IInv
<1> QED BY <1>1, Invariance, PTL

\* A request is open exactly while its task holds the slot of the host it goes
\* to, through every redirect, retry, transport error and escaping exception
\* (`async with limiter.host`).
THEOREM SlotsAreExact == Spec => []SlotsExact
<1>1. IInv => SlotsExact
  BY DEF IInv
<1> QED BY <1>1, Invariance, PTL

\* No redirect makes a request go to an address validated for another host
\* (`resolve_and_validate` on every hop).
THEOREM AddressesArePinned == Spec => []PinnedToCurrent
<1>1. IInv => PinnedToCurrent
  BY DEF IInv
<1> QED BY <1>1, Invariance, PTL

\* No page is asked for before the policy of its host is known, on any hop of
\* any attempt (`_robots_allowed`).
THEOREM RobotsAreConsulted == Spec => []RobotsConsulted
<1>1. IInv => RobotsConsulted
  BY DEF IInv
<1> QED BY <1>1, Invariance, PTL

\* A 5xx or 429 is never hidden behind another outcome, and no transient outcome
\* is final before the retries are used up (`fetch`, `_finalize`).
THEOREM TransientsAreRetried == Spec => []TransientRetried
<1>1. IInv => TransientRetried
  BY DEF IInv
<1> QED BY <1>1, Invariance, PTL

\* A fetch retries at most Retries times and leaves its redirect loop at
\* MaxRedirects: it sends at most (Retries + 1) * (MaxRedirects + 1) page
\* requests, whatever is answered (`fetch`, `_fetch_once`).
THEOREM FetchesAreBounded == Spec => [](RetriesBounded /\ RedirectsBounded)
<1>1. IInv => RetriesBounded /\ RedirectsBounded
  BY DEF IInv
<1> QED BY <1>1, Invariance, PTL

-----------------------------------------------------------------------------
(* Disallow rules are lost only by a race: one fetch at a time obeys them.  *)
RobotsAsked == {"robots", "robotsWait", "robotsSent"}

\* What was read is what is cached, whoever asks for a policy found none, and
\* with respect_robots off nobody asks.
PolicyKept ==
    /\ \A h \in read : cache[h] = Robots[h]
    /\ \A t \in Tasks : pc[t] \in RobotsAsked => respect /\ cache[HostOf[current[t]]] = None
    /\ ~respect => read = {}

LEMMA PolicyKeeps ==
    ASSUME \A s, t \in Tasks : s = t
    PROVE  IInv /\ PolicyKept /\ [Next]_vars => PolicyKept'
<1>1. ASSUME IInv, PolicyKept, NEW t \in Tasks, Step(t) PROVE PolicyKept'
  <2> USE FetcherAssumption, <1>1 DEF PolicyKept, RobotsAsked, TypeOK, Goto, End, local, shared
  <2>0. TypeOK /\ \A s \in Tasks : s = t
    BY DEF IInv
  <2>1. CASE Resolve(t)
    <3>1. /\ UNCHANGED <<cache, read, respect>> /\ current' = current
          /\ pc'[t] = "robots" => respect /\ cache[HostOf[current[t]]] = None
          /\ pc'[t] \in {"robots", "ended", "pageWait"}
      BY <2>0, <2>1, PolicyDecides DEF Resolve, Judge
    <3> QED BY <2>0, <3>1
  <2>2. CASE RobotsRead(t) \/ RobotsUnavailable(t)
    <3>1. pc'[t] \in {"ended", "pageWait"} /\ respect' = respect /\ pc[t] \in RobotsAsked
      BY <2>0, <2>2, JudgeMoves DEF RobotsRead, RobotsUnavailable
    <3>2. HostOf[current[t]] \in Hosts
      BY <2>0, <3>1 DEF IInv, HopsAreUrls, Asking
    <3>3. HostOf[current[t]] \notin read
      BY <2>0, <3>1, <3>2
    <3>4. \A h \in read' : cache'[h] = Robots[h]
      BY <2>0, <2>2, <3>2, <3>3 DEF RobotsRead, RobotsUnavailable
    <3> QED BY <2>0, <3>1, <3>4
  <2>3. CASE QueueRobots(t) \/ SendRobots(t)
    BY <2>0, <2>3 DEF QueueRobots, SendRobots
  <2>4. CASE \/ ResolveFails(t) \/ SendPage(t) \/ FollowRedirect(t) \/ ReceivePage(t)
             \/ TransportFails(t) \/ Escapes(t) \/ Return(t) \/ BackOff(t) \/ Retry(t)
    <3>1. pc'[t] \notin RobotsAsked /\ UNCHANGED <<cache, read, respect>>
      BY <2>0, <2>4 DEF ResolveFails, SendPage, FollowRedirect, ReceivePage, TransportFails,
         Escapes, Return, BackOff, Retry
    <3> QED BY <2>0, <3>1
  <2> QED BY <2>1, <2>2, <2>3, <2>4 DEF Step
<1>2. ASSUME PolicyKept, UNCHANGED vars PROVE PolicyKept'
  BY <1>2 DEF PolicyKept, vars, local, shared
<1> QED BY <1>1, <1>2 DEF Next

\* A host whose robots.txt was read and is cached lets no disallowed URL through.
LEMMA CachedPolicyBinds ==
    ASSUME IInv, PolicyKept, [Next]_vars, NEW t \in Tasks,
           pc[t] = "hop", pc'[t] = "pageWait", HostOf[current[t]] \in read
    PROVE  current[t] \notin Robots[HostOf[current[t]]]
<1>1. PICK w \in Tasks : Step(w)
  BY DEF Next, vars
<1>2. w = t
  BY <1>1, OthersStay DEF IInv
<1>3. Resolve(t)
  BY <1>1, <1>2 DEF IInv, TypeOK, Step, ResolveFails, End, Goto, QueueRobots, SendRobots, RobotsRead,
     RobotsUnavailable, SendPage, FollowRedirect, ReceivePage, TransportFails, Escapes,
     Return, BackOff, Retry
<1>4. respect /\ cache[HostOf[current[t]]] = Robots[HostOf[current[t]]]
  BY DEF PolicyKept, IInv, TypeOK
<1>5. cache[HostOf[current[t]]] # None
  BY <1>4, FetcherAssumption DEF IInv, TypeOK
<1>6. Judge(t, Robots[HostOf[current[t]]])
  BY <1>3, <1>4, <1>5 DEF Resolve
<1> QED BY <1>6 DEF Judge, End, Goto, IInv, TypeOK

\* One fetch at a time never asks for a URL that a robots.txt it once read
\* disallows: the run that breaks DisallowHonored needs two fetches that miss
\* the cache together (`RobotsCache`, `_robots_allowed`).
THEOREM AloneDisallowHonored ==
    ASSUME \A s, t \in Tasks : s = t
    PROVE  Spec => DisallowHonored
<1>1. Init => PolicyKept
  BY DEF Init, PolicyKept, RobotsAsked
<1>2. IInv /\ PolicyKept /\ [Next]_vars => PolicyKept'
  BY PolicyKeeps
<1>3. IInv /\ PolicyKept /\ [Next]_vars =>
        [\A t \in Tasks : pc[t] = "hop" /\ pc'[t] = "pageWait"
           /\ HostOf[current[t]] \in read
         => current[t] \notin Robots[HostOf[current[t]]]]_vars
  BY CachedPolicyBinds
<1> QED BY <1>1, <1>2, <1>3, Invariance, PTL DEF Spec, DisallowHonored

=============================================================================
