------------------------------ MODULE Fetcher ------------------------------
(***************************************************************************)
(* Fetcher (src/sitesift/net/fetcher.py): bounded retries around a redirect *)
(* loop that, on every hop, resolves and validates the host, consults       *)
(* robots.txt through a cache shared by all fetches, and sends one request  *)
(* under the host's slot.  A task is one URL being fetched.                 *)
(*                                                                          *)
(* The limiter appears by what HostLimiter keeps (slot: one task per host); *)
(* the clock is left out.  The network answers anything in Responses, and   *)
(* a robots.txt is the set of URLs it disallows.                            *)
(***************************************************************************)
EXTENDS Integers, FiniteSets

CONSTANTS
    Tasks, Hosts, Urls,
    UrlOf,          \* the URL each task was given
    HostOf,         \* the host of each URL
    Robots,         \* the URLs each host's robots.txt disallows
    Responses,      \* the answers a page request may get
    MaxBody, MaxDecompressed,   \* settings.fetch.max_{body,decompressed}_bytes
    MaxRedirects, Retries,      \* settings.fetch.max_redirects, .retries
    Broken,         \* a Location on which urljoin, urlsplit or .port raises
    None

Retryable == {"E_TIMEOUT", "E_CONNECT", "E_HTTP_5XX", "E_RATE_LIMIT"}
Results == {"ok", "raised", "E_DNS", "E_SSRF_BLOCKED", "E_ROBOTS_BLOCK", "E_REDIRECT_LOOP",
            "E_HTTP_4XX", "E_NONHTML", "E_TOO_LARGE", "E_BOMB"} \cup Retryable

ASSUME FetcherAssumption ==
    /\ UrlOf \in [Tasks -> Urls] /\ HostOf \in [Urls -> Hosts]
    /\ Robots \in [Hosts -> SUBSET Urls]
    /\ MaxBody \in Nat /\ MaxDecompressed \in Nat
    /\ MaxRedirects \in Nat /\ Retries \in Int
    /\ None \notin Tasks \cup Hosts \cup Results /\ Broken \notin Urls
    /\ \A disallowed \in SUBSET Urls : disallowed # None
    /\ \A r \in Responses :
          /\ r.status \in 100..599 /\ r.decoded \in Nat
          /\ r.html \in BOOLEAN /\ r.stacked \in BOOLEAN
          /\ r.declared \in Nat \cup {None}
          /\ r.location \in Urls \cup {Broken, None}

VARIABLES
    respect,    \* settings.fetch.respect_robots, the same for a whole run
    pc,         \* where each fetch is
    current,    \* the URL of the current hop
    hop,        \* redirects followed in this attempt: Len(chain)
    attempt,    \* retries made
    pinned,     \* the host whose validated address the hop uses
    response,   \* the response the attempt ended with
    result,     \* the error code of the attempt, "ok", or "raised"
    cache,      \* RobotsCache._policies: the disallowed URLs per host
    slot,       \* the task inside `async with limiter.host(h)`
    read        \* history: hosts whose robots.txt was once read with a 2xx

local == <<current, hop, attempt, pinned, response, result>>
shared == <<respect, cache, slot, read>>
vars == <<pc, local, shared>>

States == {"hop", "robots", "robotsWait", "robotsSent", "pageWait", "pageSent",
           "ended", "backoff", "done"}
RedirectCodes == {301, 302, 303, 307, 308}

Goto(t, s) == pc' = [pc EXCEPT ![t] = s]

-----------------------------------------------------------------------------
\* _http_error
HttpError(status) ==
    CASE status = 429 -> "E_RATE_LIMIT"
      [] status \in 400..499 \ {429} -> "E_HTTP_4XX"
      [] status >= 500 -> "E_HTTP_5XX"
      [] OTHER -> None

\* Slip: the content type is looked at before the status.
FinalizeTypeFirst(r) ==
    IF ~r.html THEN "E_NONHTML"
    ELSE IF HttpError(r.status) # None THEN HttpError(r.status)
    ELSE IF r.decoded > MaxDecompressed THEN "E_BOMB"
    ELSE "ok"

\* _finalize and _read_limited: the verdict on a response, gates in order.
\* The size gates look at Content-Length and at the decoded bytes.
Finalize(r) ==
    IF HttpError(r.status) # None THEN HttpError(r.status)
    ELSE IF ~r.html THEN "E_NONHTML"
    ELSE IF r.declared # None /\ r.declared > MaxBody THEN "E_TOO_LARGE"
    ELSE IF r.stacked \/ r.decoded > MaxDecompressed THEN "E_BOMB"
    ELSE "ok"

Redirects(r) == r.status \in RedirectCodes /\ r.location # None

-----------------------------------------------------------------------------
Init ==
    /\ respect \in BOOLEAN
    /\ pc = [t \in Tasks |-> "hop"]
    /\ current = UrlOf
    /\ hop = [t \in Tasks |-> 0]
    /\ attempt = [t \in Tasks |-> 0]
    /\ pinned = [t \in Tasks |-> None]
    /\ response = [t \in Tasks |-> None]
    /\ result = [t \in Tasks |-> None]
    /\ cache = [h \in Hosts |-> None]
    /\ slot = [h \in Hosts |-> None]
    /\ read = {}

\* _fetch_once returns, or raises something that is not an httpx error.
End(t, code) ==
    /\ Goto(t, "ended")
    /\ result' = [result EXCEPT ![t] = code]

\* The address of this hop does not resolve or is not allowed.
ResolveFails(t) ==
    /\ pc[t] = "hop" /\ current[t] \in Urls
    /\ \E code \in {"E_DNS", "E_SSRF_BLOCKED"} : End(t, code)
    /\ UNCHANGED <<current, hop, attempt, pinned, response, shared>>

\* Where a task goes once a policy is at hand.
Judge(t, disallowed) ==
    IF current[t] \in disallowed
    THEN End(t, "E_ROBOTS_BLOCK")
    ELSE Goto(t, "pageWait") /\ UNCHANGED result

\* Slip: a host that was resolved once is not resolved again on a hop.
ResolveOnce(t) ==
    /\ pc[t] = "hop" /\ current[t] \in Urls
    /\ pinned' = [pinned EXCEPT ![t] = IF @ = None THEN HostOf[current[t]] ELSE @]
    /\ Goto(t, IF cache[HostOf[current[t]]] = None THEN "robots" ELSE "pageWait")
    /\ UNCHANGED <<current, hop, attempt, response, result, shared>>

\* Slip: only the first hop consults robots.txt.
ResolveFirstHop(t) ==
    /\ pc[t] = "hop" /\ current[t] \in Urls
    /\ pinned' = [pinned EXCEPT ![t] = HostOf[current[t]]]
    /\ Goto(t, IF hop[t] = 0 /\ cache[HostOf[current[t]]] = None THEN "robots" ELSE "pageWait")
    /\ UNCHANGED <<current, hop, attempt, response, result, shared>>

\* The host resolves; the cached policy, if any, decides without an await.
Resolve(t) ==
    /\ pc[t] = "hop" /\ current[t] \in Urls
    /\ LET h == HostOf[current[t]]
       IN  /\ pinned' = [pinned EXCEPT ![t] = h]
           /\ \/ ~respect /\ Judge(t, {})
              \/ respect /\ cache[h] # None /\ Judge(t, cache[h])
              \/ respect /\ cache[h] = None /\ Goto(t, "robots") /\ UNCHANGED result
    /\ UNCHANGED <<current, hop, attempt, response, shared>>

\* _fetch_robots resolves the host once more, then queues for its slot.
QueueRobots(t) ==
    /\ pc[t] = "robots"
    /\ Goto(t, "robotsWait")
    /\ UNCHANGED <<local, shared>>

Enter(t, h) == slot[h] = None /\ slot' = [slot EXCEPT ![h] = t]

\* __aexit__ runs however the request ends.
Exit(t) == slot' = [h \in Hosts |-> IF slot[h] = t THEN None ELSE slot[h]]

SendRobots(t) ==
    /\ pc[t] = "robotsWait"
    /\ Enter(t, HostOf[current[t]])
    /\ Goto(t, "robotsSent")
    /\ UNCHANGED <<respect, local, cache, read>>

\* set_from_fetch with a 2xx: the rules are cached and decide.
RobotsRead(t) ==
    /\ pc[t] = "robotsSent"
    /\ LET h == HostOf[current[t]]
       IN  /\ cache' = [cache EXCEPT ![h] = Robots[h]]
           /\ read' = read \cup {h}
           /\ Judge(t, Robots[h])
    /\ Exit(t)
    /\ UNCHANGED <<respect, current, hop, attempt, pinned, response>>

\* Anything else fails open, and the open policy is cached: another status,
\* a transport error, or an address that does not validate.
RobotsUnavailable(t) ==
    /\ pc[t] \in {"robots", "robotsSent"}
    /\ cache' = [cache EXCEPT ![HostOf[current[t]]] = {}]
    /\ Exit(t)
    /\ Judge(t, {})
    /\ UNCHANGED <<current, hop, attempt, pinned, response, respect, read>>

SendPage(t) ==
    /\ pc[t] = "pageWait"
    /\ Enter(t, HostOf[current[t]])
    /\ Goto(t, "pageSent")
    /\ UNCHANGED <<respect, local, cache, read>>

\* Slip: `continue` leaves the loop body without leaving the slot.
FollowRedirectHolding(t) ==
    /\ pc[t] = "pageSent"
    /\ \E r \in Responses :
          /\ Redirects(r)
          /\ current' = [current EXCEPT ![t] = r.location]
    /\ hop' = [hop EXCEPT ![t] = @ + 1]
    /\ IF hop[t] < MaxRedirects
       THEN Goto(t, "hop") /\ UNCHANGED result
       ELSE End(t, "E_REDIRECT_LOOP")
    /\ UNCHANGED <<attempt, pinned, response, shared>>

\* Slip: `while True` instead of the bounded loop.
FollowRedirectAlways(t) ==
    /\ pc[t] = "pageSent"
    /\ \E r \in Responses :
          /\ Redirects(r)
          /\ current' = [current EXCEPT ![t] = r.location]
    /\ hop' = [hop EXCEPT ![t] = @ + 1]
    /\ Goto(t, "hop") /\ UNCHANGED result
    /\ Exit(t)
    /\ UNCHANGED <<attempt, pinned, response, respect, cache, read>>

\* A redirect: the chain grows and the loop goes round, or is exhausted.
FollowRedirect(t) ==
    /\ pc[t] = "pageSent"
    /\ \E r \in Responses :
          /\ Redirects(r)
          /\ current' = [current EXCEPT ![t] = r.location]
    /\ hop' = [hop EXCEPT ![t] = @ + 1]
    /\ IF hop[t] < MaxRedirects
       THEN Goto(t, "hop") /\ UNCHANGED result
       ELSE End(t, "E_REDIRECT_LOOP")
    /\ Exit(t)
    /\ UNCHANGED <<attempt, pinned, response, respect, cache, read>>

ReceivePage(t) ==
    /\ pc[t] = "pageSent"
    /\ \E r \in Responses :
          /\ ~Redirects(r)
          /\ response' = [response EXCEPT ![t] = r]
          /\ End(t, Finalize(r))
    /\ Exit(t)
    /\ UNCHANGED <<current, hop, attempt, pinned, respect, cache, read>>

\* httpx.TimeoutException or another httpx.HTTPError.
TransportFails(t) ==
    /\ pc[t] = "pageSent"
    /\ \E code \in {"E_TIMEOUT", "E_CONNECT"} : End(t, code)
    /\ Exit(t)
    /\ UNCHANGED <<current, hop, attempt, pinned, response, respect, cache, read>>

\* What is not an httpx.HTTPError goes through: a broken Location at the next
\* urlsplit or at urljoin, httpx.InvalidURL while a request is built.
Escapes(t) ==
    /\ \/ pc[t] = "hop" /\ current[t] = Broken
       \/ pc[t] \in {"robotsSent", "pageSent"}
    /\ End(t, "raised")
    /\ Exit(t)
    /\ UNCHANGED <<current, hop, attempt, pinned, response, respect, cache, read>>

-----------------------------------------------------------------------------
\* fetch: retry a transient outcome while retries are left.
Return(t) ==
    /\ pc[t] = "ended"
    /\ result[t] \notin Retryable \/ attempt[t] >= Retries
    /\ Goto(t, "done")
    /\ UNCHANGED <<local, shared>>

BackOff(t) ==
    /\ pc[t] = "ended"
    /\ result[t] \in Retryable /\ attempt[t] < Retries
    /\ attempt' = [attempt EXCEPT ![t] = @ + 1]
    /\ Goto(t, "backoff")
    /\ UNCHANGED <<current, hop, pinned, response, result, shared>>

\* Slip: a retry resets the retry counter too.
RetryForever(t) ==
    /\ pc[t] = "backoff"
    /\ Goto(t, "hop")
    /\ current' = [current EXCEPT ![t] = UrlOf[t]]
    /\ hop' = [hop EXCEPT ![t] = 0]
    /\ attempt' = [attempt EXCEPT ![t] = 0]
    /\ pinned' = [pinned EXCEPT ![t] = None]
    /\ response' = [response EXCEPT ![t] = None]
    /\ result' = [result EXCEPT ![t] = None]
    /\ UNCHANGED shared

\* The next attempt starts over from the URL it was given.
Retry(t) ==
    /\ pc[t] = "backoff"
    /\ Goto(t, "hop")
    /\ current' = [current EXCEPT ![t] = UrlOf[t]]
    /\ hop' = [hop EXCEPT ![t] = 0]
    /\ pinned' = [pinned EXCEPT ![t] = None]
    /\ response' = [response EXCEPT ![t] = None]
    /\ result' = [result EXCEPT ![t] = None]
    /\ UNCHANGED <<attempt, shared>>

Step(t) ==
    \/ ResolveFails(t) \/ Resolve(t)
    \/ QueueRobots(t) \/ SendRobots(t) \/ RobotsRead(t) \/ RobotsUnavailable(t)
    \/ SendPage(t) \/ FollowRedirect(t) \/ ReceivePage(t) \/ TransportFails(t)
    \/ Escapes(t) \/ Return(t) \/ BackOff(t) \/ Retry(t)

AllDone == \A t \in Tasks : pc[t] = "done"

Next == (\E t \in Tasks : Step(t)) \/ (AllDone /\ UNCHANGED vars)

Spec == Init /\ [][Next]_vars

\* Every await ends: requests by their timeouts, sleeps by the clock, and a
\* queued task is served in its turn (strong fairness stands for the FIFO
\* hand-over that HostLimiter models).
FairSpec ==
    Spec /\ \A t \in Tasks : /\ WF_vars(Step(t))
                             /\ SF_vars(SendRobots(t)) /\ SF_vars(SendPage(t))

(***************************************************************************)
(* Properties                                                               *)
(***************************************************************************)
TypeOK ==
    /\ respect \in BOOLEAN
    /\ pc \in [Tasks -> States]
    /\ current \in [Tasks -> Urls \cup {Broken}]
    /\ hop \in [Tasks -> 0..(MaxRedirects + 1)]
    /\ attempt \in [Tasks -> Nat]
    /\ pinned \in [Tasks -> Hosts \cup {None}]
    /\ response \in [Tasks -> Responses \cup {None}]
    /\ result \in [Tasks -> Results \cup {None}]
    /\ cache \in [Hosts -> (SUBSET Urls) \cup {None}]
    /\ slot \in [Hosts -> Tasks \cup {None}]
    /\ read \subseteq Hosts

\* A request is open exactly while its task holds the slot of the host it goes
\* to: no request outside a slot, and no slot kept by a fetch that returned,
\* backs off, followed a redirect or raised.
SlotsExact ==
    \A t \in Tasks, h \in Hosts :
        slot[h] = t <=> pc[t] \in {"robotsSent", "pageSent"} /\ HostOf[current[t]] = h

\* Whatever redirects and retries came before, a request goes to an address
\* that was validated for the host of the URL it asks for.
PinnedToCurrent ==
    \A t \in Tasks :
        pc[t] \in {"robots", "robotsWait", "robotsSent", "pageWait", "pageSent"}
        => pinned[t] = HostOf[current[t]]

\* No page is asked for, on any hop, before robots.txt was consulted for its
\* host, unless respect_robots is off.
RobotsConsulted ==
    \A t \in Tasks : respect /\ pc[t] \in {"pageWait", "pageSent"}
        => cache[HostOf[current[t]]] # None

\* A Disallow that was once read from a 2xx robots.txt binds every later hop of
\* every fetch: none that decides from the cache goes on to ask for that URL.
DisallowHonored ==
    [][\A t \in Tasks : pc[t] = "hop" /\ pc'[t] = "pageWait"
          /\ HostOf[current[t]] \in read
          => current[t] \notin Robots[HostOf[current[t]]]]_vars

\* A 5xx or 429 is reported as such whatever its body is, and together with
\* every other transient outcome it is final only after all retries.
TransientRetried ==
    \A t \in Tasks : pc[t] = "done" =>
        /\ result[t] \in Retryable => attempt[t] >= Retries
        /\ response[t] # None /\ (response[t].status >= 500 \/ response[t].status = 429)
              => result[t] \in Retryable

\* Every fetch ends, whatever its servers answer.
FetchEnds == \A t \in Tasks : <>(pc[t] = "done")
=============================================================================
