---------------------------- MODULE HostLimiter ----------------------------
(***************************************************************************)
(* HostRateLimiter (src/sitesift/net/limiter.py) and the delay its only     *)
(* caller asks for (Fetcher._host_delay).  Tasks are the fetches of a run;  *)
(* one task asks again and again (robots.txt, page, redirects, retries).    *)
(*                                                                          *)
(* anyio's Semaphore and Lock hand over to the first waiter at release, so  *)
(* a permit or a lock is never free while somebody waits for it.  Time      *)
(* advances in ticks; the age of a host stops counting at AgeCap, which no  *)
(* delay exceeds, and a host never asked before counts as that old.         *)
(*                                                                          *)
(* The task group of a run cancels all its tasks together.  A task inside   *)
(* the body of `async with` still runs __aexit__; one inside __aenter__     *)
(* does not, and keeps whatever it had taken by then.                       *)
(***************************************************************************)
EXTENDS Integers, Sequences, FiniteSets

CONSTANTS
    Tasks, Hosts,
    Capacity,       \* settings.fetch.max_concurrency, as Fetcher passes it on
    Base,           \* settings.fetch.min_host_delay
    Lo, Hi,         \* settings.fetch.crawl_delay_clamp
    CrawlDelays,    \* the Crawl-delay values robots.txt files may hold
    None

ASSUME LimiterAssumption ==
    /\ Capacity \in Nat
    /\ Base \in Nat /\ Lo \in Nat /\ Hi \in Nat
    /\ CrawlDelays \subseteq Int
    /\ None \notin CrawlDelays /\ None \notin Tasks /\ None \notin Hosts

VARIABLES
    permits,    \* HostRateLimiter._global: free permits ...
    gwait,      \* ... and its waiters, first come first served
    owner,      \* _host_locks[h]: the task that holds it ...
    hwait,      \* ... and its waiters
    age,        \* time since _last_request[h]
    pc,         \* where each task is
    host,       \* _HostSlot._host
    delay,      \* _HostSlot._delay
    nap,        \* what is left of the task's anyio.sleep
    cancelled   \* the task group has been cancelled

slot == <<host, delay>>
vars == <<permits, gwait, owner, hwait, age, pc, slot, nap, cancelled>>

AtLeast(x, y) == IF x > y THEN x ELSE y
AtMost(x, y) == IF x < y THEN x ELSE y

AgeCap == AtLeast(Base, AtLeast(Lo, Hi))

\* Slip: the crawl-delay is taken as it comes.
HostDelayUnclamped(crawl) ==
    IF crawl \in {None, 0} THEN AtLeast(Base, Lo) ELSE AtMost(Hi, crawl)

\* from_body keeps no crawl-delay of 0: such a file has none.
HostDelay(crawl) ==
    IF crawl \in {None, 0} THEN AtLeast(Base, Lo) ELSE AtLeast(Lo, AtMost(Hi, crawl))

Locked == {"locked", "sleeping", "requesting"}
Idle == {"idle", "globalWait"}
Owning == Locked \cup {"cutOff"}    \* where the owner of a lock can be
States == Idle \cup {"permitted", "lockWait"} \cup Owning

Goto(t, s) == pc' = [pc EXCEPT ![t] = s]

-----------------------------------------------------------------------------
Init ==
    /\ permits = Capacity /\ gwait = <<>>
    /\ owner = [h \in Hosts |-> None]
    /\ hwait = [h \in Hosts |-> <<>>]
    /\ age = [h \in Hosts |-> AgeCap]
    /\ pc = [t \in Tasks |-> "idle"]
    /\ host = [t \in Tasks |-> None]
    /\ delay = [t \in Tasks |-> 0]
    /\ nap = [t \in Tasks |-> 0]
    /\ cancelled = FALSE

\* `async with limiter.host(host, delay)`: first the global permit.
Ask(t) ==
    /\ pc[t] = "idle" /\ ~cancelled
    /\ \E h \in Hosts, crawl \in CrawlDelays \cup {None} :
          /\ host' = [host EXCEPT ![t] = h]
          /\ delay' = [delay EXCEPT ![t] = HostDelay(crawl)]
    /\ \/ permits > 0 /\ permits' = permits - 1 /\ Goto(t, "permitted") /\ UNCHANGED gwait
       \/ permits = 0 /\ gwait' = Append(gwait, t) /\ Goto(t, "globalWait") /\ UNCHANGED permits
    /\ UNCHANGED <<owner, hwait, age, nap, cancelled>>

\* Slip: no lock, only the delay.
LockHostNever(t) ==
    /\ pc[t] = "permitted" /\ ~cancelled
    /\ owner' = [owner EXCEPT ![host[t]] = t]
    /\ Goto(t, "locked")
    /\ UNCHANGED <<permits, gwait, hwait, age, slot, nap, cancelled>>

\* Then the lock of the host, with the permit in hand.
LockHost(t) ==
    /\ pc[t] = "permitted" /\ ~cancelled
    /\ LET h == host[t]
       IN  \/ /\ owner[h] = None
              /\ owner' = [owner EXCEPT ![h] = t]
              /\ Goto(t, "locked")
              /\ UNCHANGED hwait
           \/ /\ owner[h] # None
              /\ hwait' = [hwait EXCEPT ![h] = Append(@, t)]
              /\ Goto(t, "lockWait")
              /\ UNCHANGED owner
    /\ UNCHANGED <<permits, gwait, age, slot, nap, cancelled>>

\* Slip: the sleep is one tick short, or of the wrong sign.
EnforceDelayShort(t) ==
    /\ pc[t] = "locked"
    /\ nap' = [nap EXCEPT ![t] = IF age[host[t]] < delay[t]
                                THEN delay[t] - age[host[t]] - 1 ELSE 0]
    /\ Goto(t, IF age[host[t]] < delay[t] THEN "sleeping" ELSE "requesting")
    /\ UNCHANGED <<permits, gwait, owner, hwait, age, slot, cancelled>>

EnforceDelayReversed(t) ==
    /\ pc[t] = "locked"
    /\ nap' = [nap EXCEPT ![t] = age[host[t]] - delay[t]]
    /\ Goto(t, IF age[host[t]] < delay[t] THEN "sleeping" ELSE "requesting")
    /\ UNCHANGED <<permits, gwait, owner, hwait, age, slot, cancelled>>

\* Only now is the time since the last request looked at; a task that need not
\* sleep goes on to its request even when it has been cancelled.
EnforceDelay(t) ==
    /\ pc[t] = "locked"
    /\ LET elapsed == age[host[t]]
       IN  \/ elapsed >= delay[t] /\ Goto(t, "requesting") /\ UNCHANGED nap
           \/ /\ elapsed < delay[t] /\ ~cancelled
              /\ nap' = [nap EXCEPT ![t] = delay[t] - elapsed]
              /\ Goto(t, "sleeping")
    /\ UNCHANGED <<permits, gwait, owner, hwait, age, slot, cancelled>>

Wake(t) ==
    /\ pc[t] = "sleeping" /\ nap[t] = 0
    /\ Goto(t, "requesting")
    /\ UNCHANGED <<permits, gwait, owner, hwait, age, slot, nap, cancelled>>

\* The lock and the permit go to their first waiters, if there are any.
First(queue) == IF queue = <<>> THEN {} ELSE {Head(queue)}
Rest(queue) == IF queue = <<>> THEN <<>> ELSE Tail(queue)

\* Slip: the waiter that gets the lock stays in the queue.
HandOverLockTwice(h) ==
    /\ owner' = [owner EXCEPT ![h] = IF hwait[h] = <<>> THEN None ELSE Head(hwait[h])]
    /\ UNCHANGED hwait

HandOverLock(h) ==
    /\ owner' = [owner EXCEPT ![h] = IF hwait[h] = <<>> THEN None ELSE Head(hwait[h])]
    /\ hwait' = [hwait EXCEPT ![h] = Rest(@)]

\* Slips: the permit handed over is also put back; one that nobody waits for is
\* dropped.
HandOverPermitTwice == permits' = permits + 1 /\ gwait' = Rest(gwait)
HandOverPermitLost == UNCHANGED permits /\ gwait' = Rest(gwait)

HandOverPermit ==
    /\ permits' = IF gwait = <<>> THEN permits + 1 ELSE permits
    /\ gwait' = Rest(gwait)

\* __aexit__: stamp the host, release the lock, then the permit.
Leave(t) ==
    /\ pc[t] = "requesting"
    /\ age' = [age EXCEPT ![host[t]] = 0]
    /\ HandOverLock(host[t])
    /\ HandOverPermit
    /\ pc' = [w \in Tasks |-> CASE w = t -> "idle"
                                [] w \in First(hwait[host[t]]) -> "locked"
                                [] w \in First(gwait) -> "permitted"
                                [] OTHER -> pc[w]]
    /\ UNCHANGED <<slot, nap, cancelled>>

\* The cancellation of the task group reaches every task that waits.  Out of the
\* semaphore's queue a task leaves empty-handed; out of the lock's queue, or of
\* the sleep, it takes its permit, and its lock, with it.
Cancel ==
    /\ ~cancelled /\ cancelled' = TRUE
    /\ gwait' = <<>> /\ hwait' = [h \in Hosts |-> <<>>]
    /\ pc' = [t \in Tasks |-> CASE pc[t] = "globalWait" -> "idle"
                                [] pc[t] = "lockWait" -> "cutOff"
                                [] pc[t] = "sleeping" /\ nap[t] > 0 -> "cutOff"
                                [] OTHER -> pc[t]]
    /\ UNCHANGED <<permits, owner, age, slot, nap>>

\* It reaches the others at their next await.  anyio gives a permit or a lock back
\* when it interrupts the acquire that got it; past that acquire nobody does.
CutOff(t) ==
    /\ cancelled
    /\ \/ /\ pc[t] = "permitted"
          /\ \/ permits' = permits + 1 /\ Goto(t, "idle")
             \/ Goto(t, "cutOff") /\ UNCHANGED permits
          /\ UNCHANGED owner
       \/ /\ pc[t] = "locked"
          /\ \/ owner' = [owner EXCEPT ![host[t]] = None]
             \/ age[host[t]] < delay[t] /\ UNCHANGED owner
          /\ Goto(t, "cutOff") /\ UNCHANGED permits
       \/ pc[t] = "sleeping" /\ Goto(t, "cutOff") /\ UNCHANGED <<permits, owner>>
    /\ UNCHANGED <<gwait, hwait, age, slot, nap, cancelled>>

Tick ==
    /\ age' = [h \in Hosts |-> AtMost(AgeCap, age[h] + 1)]
    /\ nap' = [t \in Tasks |-> AtLeast(0, nap[t] - 1)]
    /\ UNCHANGED <<permits, gwait, owner, hwait, pc, slot, cancelled>>

Step(t) == LockHost(t) \/ EnforceDelay(t) \/ Wake(t) \/ Leave(t) \/ CutOff(t)

Next == Tick \/ Cancel \/ \E t \in Tasks : Ask(t) \/ Step(t)

Spec == Init /\ [][Next]_vars

\* The event loop runs every ready task, time passes, and the timeouts of the
\* HTTP client end every request.
FairSpec == Spec /\ WF_vars(Tick) /\ \A t \in Tasks : WF_vars(Step(t))

(***************************************************************************)
(* Properties                                                               *)
(***************************************************************************)
TypeOK ==
    /\ permits \in Nat
    /\ gwait \in Seq(Tasks)
    /\ owner \in [Hosts -> Tasks \cup {None}]
    /\ hwait \in [Hosts -> Seq(Tasks)]
    /\ age \in [Hosts -> 0..AgeCap]
    /\ pc \in [Tasks -> States]
    /\ host \in [Tasks -> Hosts \cup {None}]
    /\ delay \in [Tasks -> 0..AgeCap]
    /\ nap \in [Tasks -> 0..AgeCap]
    /\ cancelled \in BOOLEAN

AskedForHost == \A t \in Tasks : pc[t] # "idle" => host[t] \in Hosts

PastLockOwns == \A t \in Tasks : pc[t] \in Locked => owner[host[t]] = t

OwnerPastLock ==
    \A h \in Hosts : owner[h] # None => pc[owner[h]] \in Owning /\ host[owner[h]] = h

\* A queue holds every element once, and only tasks that wait in it.
WaitersWait ==
    \A h \in Hosts : \A i \in DOMAIN hwait[h] :
        /\ pc[hwait[h][i]] = "lockWait" /\ host[hwait[h][i]] = h
        /\ \A j \in DOMAIN hwait[h] : hwait[h][i] = hwait[h][j] => i = j

AskersWait ==
    \A i \in DOMAIN gwait :
        /\ pc[gwait[i]] = "globalWait"
        /\ \A j \in DOMAIN gwait : gwait[i] = gwait[j] => i = j

NobodyWaitsForFreeLock == \A h \in Hosts : owner[h] = None => hwait[h] = <<>>

NobodyWaitsOnceCancelled ==
    cancelled => gwait = <<>> /\ \A h \in Hosts : hwait[h] = <<>>

\* The lock bookkeeping is exact: a task past the lock is its owner and an owner
\* is past the lock or was cut off there, a waiter stands once in the queue of
\* its own host, and nobody waits for a free lock or on after the cancellation.
LocksExact ==
    /\ AskedForHost /\ PastLockOwns /\ OwnerPastLock
    /\ WaitersWait /\ AskersWait /\ NobodyWaitsForFreeLock
    /\ NobodyWaitsOnceCancelled

\* At most one task has a request open at a host, across the hand-over of the
\* lock to a waiter, the sleep taken with the lock held and the re-asking of a
\* task that retries or follows a redirect.
OneRequestPerHost ==
    \A t, w \in Tasks :
        pc[t] = "requesting" /\ pc[w] = "requesting" /\ host[t] = host[w] => t = w

\* A request starts only when the delay its caller asked for has passed since
\* the end of the previous request to that host, however long it waited and
\* whoever made that request.
SpacingHeld ==
    \A t \in Tasks : pc[t] = "requesting" => age[host[t]] >= delay[t]

\* A sleeping task wakes no sooner than its delay allows.
NapSuffices ==
    \A t \in Tasks : pc[t] = "sleeping" => age[host[t]] + nap[t] >= delay[t]

\* No task asks for less than the lower end of the clamp.
DelayClamped == \A t \in Tasks : pc[t] # "idle" => delay[t] >= Lo

\* The inductive invariant behind the theorems of HostLimiterProofs.
IInv == TypeOK /\ LocksExact /\ SpacingHeld /\ NapSuffices /\ DelayClamped

\* The global semaphore loses and invents no permit and none is free while a task
\* waits for it; a task cut off between its permit and its request holds the
\* permit for ever, and only the end of the run makes up for it.
PermitsConserved ==
    /\ permits + Cardinality({t \in Tasks : pc[t] \notin Idle}) = Capacity
    /\ permits > 0 => gwait = <<>>

\* Every task that asks for a host gets it, unless the run is cancelled.
AskServed == \A t \in Tasks : (pc[t] # "idle") ~> (pc[t] = "requesting" \/ cancelled)

\* The limiter keeps the promise of PoliteHost with the lower end of the clamp
\* as the minimum delay: whatever the robots.txt says, whoever asks.
Promise ==
    INSTANCE PoliteHost WITH
        MinDelay <- Lo,
        serving <- [h \in Hosts |-> {t \in Tasks : pc[t] = "requesting" /\ host[t] = h}],
        quiet <- [h \in Hosts |-> AtMost(Lo, age[h])]

KeepsPromise == Promise!Spec

\* "a configurable minimum delay between requests to the same host
\* (fetch.min_host_delay)": no request starts sooner.
ConfiguredSpacing ==
    \A t \in Tasks : pc[t] = "requesting" => age[host[t]] >= Base
=============================================================================
