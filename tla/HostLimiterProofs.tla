------------------------- MODULE HostLimiterProofs -------------------------
(***************************************************************************)
(* Theorems about HostLimiter for any tasks, hosts, capacity and delays.    *)
(***************************************************************************)
EXTENDS HostLimiter, FiniteSetTheorems, TLAPS

\* What Head, Tail and Append do to the elements of a queue.
LEMMA TailElements ==
    ASSUME NEW S, NEW s \in Seq(S), s # <<>>
    PROVE  /\ Head(s) = s[1] /\ 1 \in DOMAIN s /\ Head(s) \in S
           /\ Tail(s) \in Seq(S)
           /\ \A i \in DOMAIN Tail(s) : i + 1 \in DOMAIN s /\ Tail(s)[i] = s[i + 1] /\ i \in Nat \ {0}
OBVIOUS

LEMMA AppendElements ==
    ASSUME NEW S, NEW s \in Seq(S), NEW e \in S
    PROVE  /\ Append(s, e) \in Seq(S)
           /\ \A i \in DOMAIN Append(s, e) :
                 \/ i \in DOMAIN s /\ Append(s, e)[i] = s[i]
                 \/ i = Len(s) + 1 /\ Append(s, e)[i] = e
           /\ \A i \in DOMAIN s : i # Len(s) + 1
OBVIOUS

LEMMA RestElements ==
    ASSUME NEW S, NEW s \in Seq(S)
    PROVE  /\ Rest(s) \in Seq(S)
           /\ \A i \in DOMAIN Rest(s) :
                 s # <<>> /\ i + 1 \in DOMAIN s /\ Rest(s)[i] = s[i + 1] /\ i \in Nat \ {0}
           /\ \A e \in First(s) : s # <<>> /\ e = s[1] /\ 1 \in DOMAIN s /\ e \in S
<1>1. CASE s = <<>>
  BY <1>1 DEF Rest, First
<1>2. CASE s # <<>>
  BY <1>2, TailElements DEF Rest, First
<1> QED BY <1>1, <1>2

\* The clamp: no delay is below its lower end or above AgeCap.
LEMMA HostDelayRange ==
    ASSUME NEW crawl \in CrawlDelays \cup {None}
    PROVE  HostDelay(crawl) \in 0..AgeCap /\ HostDelay(crawl) >= Lo
BY LimiterAssumption DEF HostDelay, AgeCap, AtLeast, AtMost

\* The first waiter of a queue is its first element.
LEMMA FirstElement ==
    ASSUME NEW S, NEW s \in Seq(S), NEW e \in First(s)
    PROVE  e = s[1] /\ 1 \in DOMAIN s /\ s # <<>> /\ e \in S
BY RestElements

LEMMA AgeCapNat == AgeCap \in Nat /\ AgeCap >= Lo
BY LimiterAssumption DEF AgeCap, AtLeast

-----------------------------------------------------------------------------
LEMMA InitEstablishes == Init => IInv
<1> SUFFICES ASSUME Init PROVE IInv
  OBVIOUS
<1> USE LimiterAssumption, AgeCapNat DEF Init
<1>1. TypeOK
  <2>1. "idle" \in States
    BY DEF States, Idle
  <2>2. cancelled \in BOOLEAN
    OBVIOUS
  <2> QED BY <2>1, <2>2 DEF TypeOK
<1>2. LocksExact
  BY DEF LocksExact, AskedForHost, PastLockOwns, OwnerPastLock, WaitersWait,
         AskersWait, NobodyWaitsForFreeLock, NobodyWaitsOnceCancelled, Locked
<1>3. SpacingHeld /\ NapSuffices /\ DelayClamped
  BY DEF SpacingHeld, NapSuffices, DelayClamped
<1> QED BY <1>1, <1>2, <1>3 DEF IInv

\* Everything queued or owning is a task, and a task stands only in the queue
\* its state names.
LEMMA WhoIsWhere ==
    ASSUME IInv
    PROVE  /\ \A i \in DOMAIN gwait : gwait[i] \in Tasks /\ pc[gwait[i]] = "globalWait"
           /\ \A h \in Hosts : \A i \in DOMAIN hwait[h] :
                 /\ hwait[h][i] \in Tasks /\ pc[hwait[h][i]] = "lockWait"
                 /\ host[hwait[h][i]] = h
           /\ \A h \in Hosts : owner[h] # None =>
                 owner[h] \in Tasks /\ pc[owner[h]] \in Owning /\ host[owner[h]] = h
BY DEF IInv, TypeOK, LocksExact, AskersWait, WaitersWait, OwnerPastLock

\* A task that asks joins the end of the semaphore's queue, or takes a permit.
LEMMA AskKeeps ==
    ASSUME IInv, NEW t \in Tasks, Ask(t)
    PROVE  IInv'
<1> USE LimiterAssumption DEF IInv
<1>1. PICK h \in Hosts, crawl \in CrawlDelays \cup {None} :
          /\ host' = [host EXCEPT ![t] = h]
          /\ delay' = [delay EXCEPT ![t] = HostDelay(crawl)]
  BY DEF Ask
<1>2. HostDelay(crawl) \in 0..AgeCap
  BY HostDelayRange
<1>3. /\ pc[t] = "idle" /\ pc' \in [Tasks -> States]
      /\ pc'[t] \in {"permitted", "globalWait"}
      /\ \A w \in Tasks : w # t => pc'[w] = pc[w] /\ host'[w] = host[w] /\ delay'[w] = delay[w]
      /\ host'[t] = h
      /\ UNCHANGED <<owner, hwait, age, nap, cancelled>> /\ ~cancelled
  <2>1. /\ pc[t] = "idle" /\ UNCHANGED <<owner, hwait, age, nap, cancelled>> /\ ~cancelled
        /\ \E s \in {"permitted", "globalWait"} : pc' = [pc EXCEPT ![t] = s]
    BY DEF Ask, Goto, Idle
  <2>2. pc \in [Tasks -> States] /\ {"permitted", "globalWait"} \subseteq States
    BY DEF TypeOK, States, Idle, Owning, Locked
  <2> QED BY <1>1, <2>1, <2>2 DEF TypeOK
<1>4. /\ permits' \in Nat /\ gwait' \in Seq(Tasks)
      /\ \A i \in DOMAIN gwait' :
            \/ i \in DOMAIN gwait /\ gwait'[i] = gwait[i]
            \/ i = Len(gwait) + 1 /\ gwait'[i] = t /\ pc'[t] = "globalWait"
  <2>1. CASE permits > 0 /\ permits' = permits - 1 /\ UNCHANGED gwait
    BY <2>1 DEF TypeOK
  <2>2. CASE gwait' = Append(gwait, t) /\ pc' = [pc EXCEPT ![t] = "globalWait"] /\ UNCHANGED permits
    BY <2>2, AppendElements DEF TypeOK
  <2> QED BY <2>1, <2>2 DEF Ask, Goto
<1>5. TypeOK'
  BY <1>1, <1>2, <1>3, <1>4 DEF TypeOK
<1>6. AskedForHost' /\ PastLockOwns' /\ NobodyWaitsForFreeLock' /\ NobodyWaitsOnceCancelled'
  <2>1. AskedForHost /\ PastLockOwns /\ NobodyWaitsForFreeLock
    BY DEF LocksExact
  <2>5. NobodyWaitsOnceCancelled'
    BY <1>3 DEF NobodyWaitsOnceCancelled
  <2>2. AskedForHost'
    BY <1>3, <2>1 DEF AskedForHost
  <2>3. PastLockOwns'
    BY <1>3, <2>1 DEF PastLockOwns, Locked
  <2>4. NobodyWaitsForFreeLock'
    BY <1>3, <2>1 DEF NobodyWaitsForFreeLock
  <2> QED BY <2>2, <2>3, <2>4, <2>5
<1>7. OwnerPastLock'
  <2>1. \A k \in Hosts : owner[k] # None => owner[k] \in Tasks /\ owner[k] # t
            /\ pc[owner[k]] \in Owning /\ host[owner[k]] = k
    BY <1>3, WhoIsWhere DEF Owning, Locked
  <2> QED BY <1>3, <2>1 DEF OwnerPastLock
<1>8. WaitersWait'
  BY <1>3 DEF LocksExact, WaitersWait, TypeOK
<1>9. AskersWait'
  <2>1. \A i \in DOMAIN gwait : gwait[i] \in Tasks /\ gwait[i] # t
    BY <1>3, WhoIsWhere
  <2>2. \A i \in DOMAIN gwait' : pc'[gwait'[i]] = "globalWait"
    BY <1>3, <1>4, <2>1, WhoIsWhere
  <2>3. \A i, j \in DOMAIN gwait' : gwait'[i] = gwait'[j] => i = j
    BY <1>4, <2>1 DEF LocksExact, AskersWait
  <2> QED BY <2>2, <2>3 DEF AskersWait
<1>10. SpacingHeld' /\ NapSuffices'
  BY <1>3 DEF SpacingHeld, NapSuffices
<1>11. DelayClamped'
  BY <1>1, <1>3, HostDelayRange DEF DelayClamped, TypeOK
<1> QED BY <1>11, <1>5, <1>6, <1>7, <1>8, <1>9, <1>10 DEF LocksExact

\* A task with a permit takes the free lock of its host, or queues for it.
LEMMA LockHostKeeps ==
    ASSUME IInv, NEW t \in Tasks, LockHost(t)
    PROVE  IInv'
<1> USE LimiterAssumption DEF IInv
<1> DEFINE h == host[t]
<1>1. /\ pc[t] = "permitted" /\ h \in Hosts
      /\ pc'[t] \in {"locked", "lockWait"}
      /\ \A w \in Tasks : w # t => pc'[w] = pc[w]
      /\ UNCHANGED <<permits, gwait, age, slot, nap, cancelled>> /\ ~cancelled
  BY DEF LockHost, Goto, TypeOK, LocksExact, AskedForHost
<1>4. NobodyWaitsOnceCancelled'
  BY <1>1 DEF NobodyWaitsOnceCancelled
<1>2. CASE owner[h] = None
  <2>1. /\ owner' = [owner EXCEPT ![h] = t] /\ pc'[t] = "locked" /\ UNCHANGED hwait
        /\ pc' \in [Tasks -> States]
    <3>1. owner' = [owner EXCEPT ![h] = t] /\ pc' = [pc EXCEPT ![t] = "locked"] /\ UNCHANGED hwait
      BY <1>2 DEF LockHost, Goto
    <3> QED BY <3>1 DEF TypeOK, States, Owning, Locked
  <2>2. TypeOK'
    BY <1>1, <2>1 DEF TypeOK, slot
  <2>3. AskedForHost' /\ PastLockOwns' /\ NobodyWaitsForFreeLock'
    BY <1>1, <1>2, <2>1
       DEF LocksExact, AskedForHost, PastLockOwns, NobodyWaitsForFreeLock, Locked, TypeOK, slot
  <2>4. OwnerPastLock'
    <3>1. \A k \in Hosts : k # h => owner'[k] = owner[k] /\ owner[k] # t
      BY <1>1, <2>1, WhoIsWhere DEF Owning, Locked, TypeOK
    <3>2. owner'[h] = t /\ pc'[t] \in Owning /\ host'[t] = h
      BY <1>1, <2>1 DEF Owning, Locked, TypeOK, slot
    <3> QED BY <1>1, <3>1, <3>2, WhoIsWhere DEF OwnerPastLock, slot
  <2>5. WaitersWait' /\ AskersWait'
    <3>1. \A k \in Hosts : \A i \in DOMAIN hwait[k] : hwait[k][i] \in Tasks /\ hwait[k][i] # t
      BY <1>1, WhoIsWhere
    <3>2. \A i \in DOMAIN gwait : gwait[i] \in Tasks /\ gwait[i] # t
      BY <1>1, WhoIsWhere
    <3>3. WaitersWait'
      BY <1>1, <2>1, <3>1 DEF LocksExact, WaitersWait, slot
    <3>4. AskersWait'
      BY <1>1, <3>2 DEF LocksExact, AskersWait
    <3> QED BY <3>3, <3>4
  <2>6. SpacingHeld' /\ NapSuffices'
    BY <1>1, <2>1 DEF SpacingHeld, NapSuffices, slot
  <2>9. DelayClamped'
    BY <1>1 DEF DelayClamped, slot
  <2> QED BY <1>4, <2>2, <2>3, <2>4, <2>5, <2>6, <2>9 DEF LocksExact
<1>3. CASE owner[h] # None
  <2>1. /\ hwait' = [hwait EXCEPT ![h] = Append(@, t)] /\ pc'[t] = "lockWait" /\ UNCHANGED owner
        /\ pc' \in [Tasks -> States]
    BY <1>1, <1>3, ZenonT(30) DEF LockHost, Goto, TypeOK, States
  <2>2. /\ hwait' \in [Hosts -> Seq(Tasks)]
        /\ \A k \in Hosts : \A i \in DOMAIN hwait'[k] :
              \/ i \in DOMAIN hwait[k] /\ hwait'[k][i] = hwait[k][i]
              \/ k = h /\ i = Len(hwait[k]) + 1 /\ hwait'[k][i] = t
    BY <1>1, <2>1, AppendElements DEF TypeOK
  <2>3. TypeOK'
    BY <1>1, <2>1, <2>2 DEF TypeOK, slot
  <2>4. AskedForHost' /\ PastLockOwns'
    BY <1>1, <2>1 DEF LocksExact, AskedForHost, PastLockOwns, Locked, slot
  <2>8. AskersWait' /\ OwnerPastLock'
    <3>1. \A i \in DOMAIN gwait : gwait[i] \in Tasks /\ gwait[i] # t
      BY <1>1, WhoIsWhere
    <3>2. AskersWait'
      BY <1>1, <3>1 DEF LocksExact, AskersWait
    <3>3. \A k \in Hosts : owner[k] # t
      BY <1>1, WhoIsWhere, LimiterAssumption DEF Owning, Locked
    <3>4. OwnerPastLock'
      BY <1>1, <2>1, <3>3, WhoIsWhere DEF OwnerPastLock, slot
    <3> QED BY <3>2, <3>4
  <2>5. NobodyWaitsForFreeLock'
    BY <1>1, <1>3, <2>1 DEF LocksExact, NobodyWaitsForFreeLock, TypeOK
  <2>6. WaitersWait'
    <3> SUFFICES ASSUME NEW k \in Hosts, NEW i \in DOMAIN hwait'[k]
                 PROVE  /\ pc'[hwait'[k][i]] = "lockWait" /\ host'[hwait'[k][i]] = k
                        /\ \A j \in DOMAIN hwait'[k] : hwait'[k][i] = hwait'[k][j] => i = j
      BY DEF WaitersWait
    <3>1. \A j \in DOMAIN hwait[k] : hwait[k][j] \in Tasks /\ hwait[k][j] # t
      BY <1>1 DEF LocksExact, WaitersWait, TypeOK
    <3>2. WaitersWait /\ pc \in [Tasks -> States]
      BY DEF LocksExact, TypeOK
    <3> QED BY <1>1, <2>1, <2>2, <3>1, <3>2, SMTT(30) DEF WaitersWait, slot
  <2>7. SpacingHeld' /\ NapSuffices'
    BY <1>1, <2>1 DEF SpacingHeld, NapSuffices, slot
  <2>9. DelayClamped'
    BY <1>1 DEF DelayClamped, slot
  <2> QED BY <1>4, <2>3, <2>4, <2>5, <2>6, <2>7, <2>8, <2>9 DEF LocksExact
<1> QED BY <1>2, <1>3

\* Steps of a task that stays past its lock disturb no bookkeeping.
LEMMA MovePastLock ==
    ASSUME IInv, NEW t \in Tasks, pc[t] \in Locked,
           NEW s \in Locked, Goto(t, s),
           UNCHANGED <<permits, gwait, owner, hwait, age, slot, cancelled>>
    PROVE  LocksExact' /\ DelayClamped' /\ pc' \in [Tasks -> States]
<1> USE DEF IInv, slot
<1>1. /\ pc'[t] = s /\ \A w \in Tasks : w # t => pc'[w] = pc[w]
      /\ pc' \in [Tasks -> States]
  BY DEF Goto, TypeOK, States, Owning
<1>2. /\ AskedForHost' /\ PastLockOwns' /\ NobodyWaitsForFreeLock'
      /\ NobodyWaitsOnceCancelled'
  <2>1. AskedForHost /\ PastLockOwns /\ NobodyWaitsForFreeLock
    BY DEF LocksExact
  <2>2. AskedForHost' /\ PastLockOwns'
    BY <1>1, <2>1 DEF AskedForHost, PastLockOwns, Locked
  <2>3. NobodyWaitsForFreeLock'
    BY <1>1, <2>1 DEF NobodyWaitsForFreeLock
  <2>4. NobodyWaitsOnceCancelled'
    BY DEF LocksExact, NobodyWaitsOnceCancelled
  <2> QED BY <2>2, <2>3, <2>4
<1>3. OwnerPastLock'
  <2>1. \A h \in Hosts : owner[h] # None =>
            owner[h] \in Tasks /\ pc[owner[h]] \in Owning /\ host[owner[h]] = h
    BY WhoIsWhere
  <2> QED BY <1>1, <2>1 DEF OwnerPastLock, Owning
<1>4. WaitersWait'
  BY <1>1 DEF LocksExact, WaitersWait, TypeOK, Locked
<1>5. AskersWait'
  BY <1>1 DEF LocksExact, AskersWait, TypeOK, Locked
<1>6. DelayClamped'
  BY <1>1 DEF DelayClamped, Locked
<1> QED BY <1>1, <1>2, <1>3, <1>4, <1>5, <1>6 DEF LocksExact

\* The delay is compared with the lock in hand; a sleep covers what is missing.
LEMMA EnforceDelayKeeps ==
    ASSUME IInv, NEW t \in Tasks, EnforceDelay(t)
    PROVE  IInv'
<1> USE DEF IInv, slot
<1>1. pc[t] \in Locked /\ pc[t] = "locked" /\ host[t] \in Hosts
  BY DEF EnforceDelay, Locked, LocksExact, AskedForHost
<1>2. age[host[t]] \in 0..AgeCap /\ delay[t] \in 0..AgeCap /\ AgeCap \in Nat
  BY <1>1, AgeCapNat DEF TypeOK
<1>3. LocksExact' /\ DelayClamped' /\ pc' \in [Tasks -> States]
  BY <1>1, MovePastLock DEF EnforceDelay, Locked
<1>4. CASE age[host[t]] >= delay[t]
  <2>1. pc'[t] = "requesting" /\ nap' = nap /\ \A w \in Tasks : w # t => pc'[w] = pc[w]
    BY <1>2, <1>4 DEF EnforceDelay, Goto, TypeOK
  <2>2. TypeOK'
    BY <1>3, <2>1 DEF EnforceDelay, TypeOK
  <2>3. SpacingHeld' /\ NapSuffices'
    BY <1>4, <2>1 DEF EnforceDelay, SpacingHeld, NapSuffices
  <2> QED BY <1>3, <2>2, <2>3
<1>5. CASE age[host[t]] < delay[t]
  <2>1. /\ pc'[t] = "sleeping" /\ \A w \in Tasks : w # t => pc'[w] = pc[w] /\ nap'[w] = nap[w]
        /\ nap' = [nap EXCEPT ![t] = delay[t] - age[host[t]]]
        /\ nap'[t] = delay[t] - age[host[t]]
    BY <1>2, <1>5 DEF EnforceDelay, Goto, TypeOK
  <2>2. delay[t] - age[host[t]] \in 0..AgeCap
    BY <1>2, <1>5
  <2>3. TypeOK'
    BY <1>3, <2>1, <2>2 DEF EnforceDelay, TypeOK
  <2>4. SpacingHeld'
    BY <2>1 DEF EnforceDelay, SpacingHeld
  <2>5. NapSuffices'
    BY <1>2, <2>1 DEF EnforceDelay, NapSuffices
  <2> QED BY <1>3, <2>3, <2>4, <2>5
<1> QED BY <1>2, <1>4, <1>5

LEMMA WakeKeeps ==
    ASSUME IInv, NEW t \in Tasks, Wake(t)
    PROVE  IInv'
<1> USE DEF IInv, slot
<1>1. LocksExact' /\ DelayClamped' /\ pc' \in [Tasks -> States]
  BY MovePastLock DEF Wake, Locked
<1>2. pc'[t] = "requesting" /\ \A w \in Tasks : w # t => pc'[w] = pc[w]
  BY DEF Wake, Goto, TypeOK
<1>3. TypeOK'
  BY <1>1 DEF Wake, TypeOK
<1>4. age[host[t]] \in Nat /\ age[host[t]] + nap[t] >= delay[t] /\ nap[t] = 0
  BY AgeCapNat DEF Wake, NapSuffices, TypeOK, LocksExact, AskedForHost
<1>5. SpacingHeld' /\ NapSuffices'
  BY <1>2, <1>4 DEF Wake, SpacingHeld, NapSuffices, TypeOK
<1> QED BY <1>1, <1>3, <1>5

\* At the end of a request the lock and the permit go to the tasks that have
\* waited longest: nobody else's state changes.
LEMMA LeaveMoves ==
    ASSUME IInv, NEW t \in Tasks, Leave(t)
    PROVE  /\ pc[t] = "requesting" /\ host[t] \in Hosts /\ owner[host[t]] = t
           /\ pc' \in [Tasks -> States] /\ pc'[t] = "idle"
           /\ \A w \in First(hwait[host[t]]) :
                 w \in Tasks /\ w # t /\ pc[w] = "lockWait" /\ pc'[w] = "locked" /\ host[w] = host[t]
           /\ \A w \in First(gwait) :
                 w \in Tasks /\ w # t /\ pc[w] = "globalWait" /\ pc'[w] = "permitted"
           /\ \A w \in Tasks : w = t \/ w \in First(hwait[host[t]]) \/ w \in First(gwait)
                 \/ pc'[w] = pc[w]
           /\ \A w \in Tasks : w # t /\ pc[w] \in Locked => host[w] # host[t] /\ pc'[w] = pc[w]
<1> USE DEF IInv
<1>1. pc[t] = "requesting" /\ host[t] \in Hosts /\ owner[host[t]] = t
  BY DEF Leave, LocksExact, AskedForHost, PastLockOwns, Locked
<1> gwait \in Seq(Tasks) /\ hwait[host[t]] \in Seq(Tasks)
  BY <1>1 DEF TypeOK
<1>2. ASSUME NEW w \in First(hwait[host[t]])
      PROVE  w \in Tasks /\ w # t /\ pc[w] = "lockWait" /\ host[w] = host[t]
  <2>1. w = hwait[host[t]][1] /\ 1 \in DOMAIN hwait[host[t]]
    BY FirstElement
  <2> QED BY <1>1, <2>1, WhoIsWhere
<1>3. ASSUME NEW w \in First(gwait) PROVE w \in Tasks /\ w # t /\ pc[w] = "globalWait"
  <2>1. w = gwait[1] /\ 1 \in DOMAIN gwait
    BY FirstElement
  <2> QED BY <1>1, <2>1, WhoIsWhere
<1>4. pc' = [w \in Tasks |-> CASE w = t -> "idle"
                               [] w \in First(hwait[host[t]]) -> "locked"
                               [] w \in First(gwait) -> "permitted"
                               [] OTHER -> pc[w]]
  BY DEF Leave
<1>5. pc'[t] = "idle"
  BY <1>2, <1>3, <1>4
<1>10. ASSUME NEW w \in First(hwait[host[t]]) PROVE pc'[w] = "locked"
  <2>1. w \in Tasks /\ w # t /\ w \notin First(gwait)
    BY <1>2, <1>3
  <2> QED BY <1>4, <2>1
<1>6. ASSUME NEW w \in First(gwait) PROVE pc'[w] = "permitted"
  <2>1. w \in Tasks /\ w # t /\ w \notin First(hwait[host[t]])
    BY <1>2, <1>3
  <2> QED BY <1>4, <2>1
<1>7. \A w \in Tasks : w = t \/ w \in First(hwait[host[t]]) \/ w \in First(gwait)
                       \/ pc'[w] = pc[w]
  BY <1>4
<1>8. pc' \in [Tasks -> States]
  <2>1. \A w \in Tasks : pc'[w] \in States
    BY <1>5, <1>6, <1>7, <1>10 DEF TypeOK, States, Idle, Owning, Locked
  <2> QED BY <1>4, <2>1
<1>9. \A w \in Tasks : w # t /\ pc[w] \in Locked => host[w] # host[t] /\ pc'[w] = pc[w]
  BY <1>1, <1>2, <1>3, <1>7 DEF LocksExact, PastLockOwns, Locked
<1> QED BY <1>1, <1>2, <1>3, <1>5, <1>6, <1>7, <1>8, <1>9, <1>10

LEMMA LeaveKeeps ==
    ASSUME IInv, NEW t \in Tasks, Leave(t)
    PROVE  IInv'
<1> USE DEF IInv, slot
<1> DEFINE h == host[t]
<1>1. /\ h \in Hosts /\ UNCHANGED <<host, delay, nap, cancelled>>
      /\ age' = [age EXCEPT ![h] = 0]
      /\ owner' = [owner EXCEPT ![h] = IF hwait[h] = <<>> THEN None ELSE Head(hwait[h])]
      /\ hwait' = [hwait EXCEPT ![h] = Rest(@)]
      /\ permits' = (IF gwait = <<>> THEN permits + 1 ELSE permits)
      /\ gwait' = Rest(gwait)
  BY LeaveMoves DEF Leave, HandOverLock, HandOverPermit
<1>2. /\ gwait \in Seq(Tasks) /\ hwait[h] \in Seq(Tasks)
      /\ hwait[h] # <<>> => Head(hwait[h]) \in First(hwait[h])
      /\ hwait[h] # <<>> => hwait[h][1] \in First(hwait[h])
      /\ gwait # <<>> => gwait[1] \in First(gwait)
  BY <1>1, TailElements DEF TypeOK, First
<1>3. TypeOK'
  <2>1. owner' \in [Hosts -> Tasks \cup {None}]
    BY <1>1, <1>2, LeaveMoves DEF TypeOK
  <2>2. hwait' \in [Hosts -> Seq(Tasks)] /\ gwait' \in Seq(Tasks)
    BY <1>1, <1>2, RestElements DEF TypeOK
  <2>3. permits' \in Nat /\ age' \in [Hosts -> 0..AgeCap]
    BY <1>1, AgeCapNat DEF TypeOK
  <2> QED BY <1>1, <2>1, <2>2, <2>3, LeaveMoves DEF TypeOK
<1>4. AskedForHost'
  BY <1>1, LeaveMoves DEF LocksExact, AskedForHost
<1>5. PastLockOwns'
  <2> SUFFICES ASSUME NEW w \in Tasks, pc'[w] \in Locked PROVE owner'[host[w]] = w
    BY <1>1 DEF PastLockOwns
  <2>1. CASE w \in First(hwait[h])
    <3>1. w = hwait[h][1] /\ hwait[h] # <<>> /\ host[w] = h
      BY <1>2, <2>1, LeaveMoves, FirstElement
    <3>2. owner'[h] = Head(hwait[h]) /\ Head(hwait[h]) = hwait[h][1]
      BY <1>1, <1>2, <3>1, TailElements DEF TypeOK
    <3> QED BY <3>1, <3>2
  <2>2. CASE w \notin First(hwait[h])
    <3>1. w # t /\ pc[w] \in Locked /\ host[w] # h /\ host[w] \in Hosts
      BY <2>2, LeaveMoves DEF Locked, LocksExact, AskedForHost
    <3> QED BY <1>1, <3>1 DEF LocksExact, PastLockOwns, TypeOK
  <2> QED BY <2>1, <2>2
<1>6. OwnerPastLock'
  <2> SUFFICES ASSUME NEW k \in Hosts, owner'[k] # None
               PROVE  pc'[owner'[k]] \in Owning /\ host[owner'[k]] = k
    BY <1>1 DEF OwnerPastLock
  <2>1. CASE k = h
    <3>1. hwait[h] # <<>> /\ owner'[h] = Head(hwait[h])
      BY <1>1, <2>1 DEF TypeOK
    <3>2. pc'[owner'[h]] = "locked" /\ host[owner'[h]] = h
      BY <1>2, <3>1, LeaveMoves
    <3> QED BY <2>1, <3>2 DEF Owning, Locked
  <2>2. CASE k # h
    <3>1. owner'[k] = owner[k]
      BY <1>1, <2>2 DEF TypeOK
    <3>2. owner[k] \in Tasks /\ pc[owner[k]] \in Owning /\ host[owner[k]] = k /\ owner[k] # t
      BY <2>2, <3>1, WhoIsWhere
    <3>3. owner[k] \notin First(hwait[h]) /\ owner[k] \notin First(gwait)
      BY <3>2, LeaveMoves DEF Owning, Locked
    <3> QED BY <3>1, <3>2, <3>3, LeaveMoves
  <2> QED BY <2>1, <2>2
<1>7. WaitersWait'
  <2>1. ASSUME NEW k \in Hosts, NEW i \in DOMAIN hwait'[k]
        PROVE  \E j \in DOMAIN hwait[k] :
                  /\ hwait'[k][i] = hwait[k][j] /\ i \in Int /\ j = (IF k = h THEN i + 1 ELSE i)
                  /\ k = h => hwait[h] # <<>> /\ i # 0 /\ 1 \in DOMAIN hwait[h]
    <3>1. CASE k = h
      BY <1>1, <1>2, <3>1, RestElements DEF TypeOK
    <3>2. CASE k # h
      BY <1>1, <3>2 DEF TypeOK
    <3> QED BY <3>1, <3>2
  <2>2. ASSUME NEW k \in Hosts, NEW i \in DOMAIN hwait'[k]
        PROVE  pc'[hwait'[k][i]] = "lockWait" /\ host[hwait'[k][i]] = k
    <3>1. PICK j \in DOMAIN hwait[k] :
                  /\ hwait'[k][i] = hwait[k][j] /\ i \in Int /\ j = (IF k = h THEN i + 1 ELSE i)
                  /\ k = h => hwait[h] # <<>> /\ i # 0 /\ 1 \in DOMAIN hwait[h]
      BY <2>1
    <3>2. /\ hwait[k][j] \in Tasks /\ pc[hwait[k][j]] = "lockWait" /\ host[hwait[k][j]] = k
      BY WhoIsWhere
    <3>3. hwait[k][j] \notin First(hwait[h])
      <4>1. CASE k = h
        <5>1. hwait[h][j] # hwait[h][1]
          BY <3>1, <4>1 DEF LocksExact, WaitersWait
        <5> QED BY <1>2, <4>1, <5>1, FirstElement
      <4>2. CASE k # h
        BY <3>2, <4>2, LeaveMoves
      <4> QED BY <4>1, <4>2
    <3>4. hwait[k][j] \notin First(gwait) /\ hwait[k][j] # t
      BY <3>2, LeaveMoves
    <3> QED BY <3>1, <3>2, <3>3, <3>4, LeaveMoves
  <2>3. ASSUME NEW k \in Hosts, NEW i \in DOMAIN hwait'[k], NEW m \in DOMAIN hwait'[k],
               hwait'[k][i] = hwait'[k][m]
        PROVE  i = m
    BY <2>1, <2>3 DEF LocksExact, WaitersWait
  <2> QED BY <1>1, <2>2, <2>3 DEF WaitersWait
<1>8. AskersWait'
  <2>1. \A i \in DOMAIN gwait' :
            gwait # <<>> /\ i + 1 \in DOMAIN gwait /\ gwait'[i] = gwait[i + 1] /\ i \in Nat \ {0}
            /\ 1 \in DOMAIN gwait
    BY <1>1, <1>2, RestElements
  <2>2. ASSUME NEW i \in DOMAIN gwait' PROVE pc'[gwait'[i]] = "globalWait"
    <3>1. gwait[i + 1] \in Tasks /\ pc[gwait[i + 1]] = "globalWait"
      BY <2>1, WhoIsWhere
    <3>2. gwait[i + 1] # gwait[1]
      BY <2>1 DEF LocksExact, AskersWait
    <3>3. gwait[i + 1] \notin First(gwait)
      BY <1>2, <3>2, FirstElement
    <3> QED BY <2>1, <3>1, <3>3, LeaveMoves
  <2>3. ASSUME NEW i \in DOMAIN gwait', NEW j \in DOMAIN gwait', gwait'[i] = gwait'[j]
        PROVE  i = j
    BY <2>1, <2>3 DEF LocksExact, AskersWait
  <2> QED BY <2>2, <2>3 DEF AskersWait
<1>9. NobodyWaitsForFreeLock'
  BY <1>1, <1>2, LeaveMoves, LimiterAssumption
     DEF LocksExact, NobodyWaitsForFreeLock, TypeOK, Rest
<1>13. NobodyWaitsOnceCancelled'
  BY <1>1 DEF LocksExact, NobodyWaitsOnceCancelled, Rest, TypeOK
<1>10. ASSUME NEW w \in Tasks, pc'[w] \in {"requesting", "sleeping"}
       PROVE  w # t /\ pc'[w] = pc[w] /\ host[w] \in Hosts /\ age'[host[w]] = age[host[w]]
  <2>1. w # t /\ pc'[w] = pc[w]
    BY <1>10, LeaveMoves
  <2>2. host[w] # h /\ host[w] \in Hosts
    BY <1>10, <2>1, LeaveMoves DEF Locked, LocksExact, AskedForHost
  <2> QED BY <1>1, <2>1, <2>2 DEF TypeOK
<1>11. SpacingHeld' /\ NapSuffices'
  BY <1>1, <1>10 DEF SpacingHeld, NapSuffices
<1>12. DelayClamped'
  BY <1>1, LeaveMoves DEF DelayClamped
<1> QED BY <1>3, <1>4, <1>5, <1>6, <1>7, <1>8, <1>9, <1>11, <1>12, <1>13 DEF LocksExact

\* The cancellation empties the queues: a task that waited for the lock or slept
\* is cut off where it stood, and still owns the lock it had.
LEMMA CancelKeeps ==
    ASSUME IInv, Cancel
    PROVE  IInv'
<1> USE DEF IInv, slot
<1>1. /\ pc' \in [Tasks -> States]
      /\ \A t \in Tasks : \/ pc'[t] = pc[t] /\ pc[t] \notin {"globalWait", "lockWait"}
                          \/ pc[t] = "globalWait" /\ pc'[t] = "idle"
                          \/ pc[t] \in {"lockWait", "sleeping"} /\ pc'[t] = "cutOff"
  BY DEF Cancel, TypeOK, States, Idle, Owning, Locked
<1>2. /\ gwait' = <<>> /\ hwait' = [h \in Hosts |-> <<>>] /\ cancelled'
      /\ UNCHANGED <<permits, owner, age, host, delay, nap>>
  BY DEF Cancel
<1>3. TypeOK'
  BY <1>1, <1>2 DEF TypeOK
<1>4. AskedForHost' /\ PastLockOwns'
  BY <1>1, <1>2 DEF LocksExact, AskedForHost, PastLockOwns, Locked
<1>5. OwnerPastLock'
  BY <1>1, <1>2, WhoIsWhere DEF OwnerPastLock, Owning, Locked
<1>6. /\ WaitersWait' /\ AskersWait' /\ NobodyWaitsForFreeLock'
      /\ NobodyWaitsOnceCancelled'
  BY <1>2 DEF WaitersWait, AskersWait, NobodyWaitsForFreeLock, NobodyWaitsOnceCancelled
<1>7. SpacingHeld' /\ NapSuffices' /\ DelayClamped'
  BY <1>1, <1>2 DEF SpacingHeld, NapSuffices, DelayClamped
<1> QED BY <1>3, <1>4, <1>5, <1>6, <1>7 DEF LocksExact

\* A task cut off later gives back what the interrupted acquire got it, or nothing.
LEMMA CutOffKeeps ==
    ASSUME IInv, NEW t \in Tasks, CutOff(t)
    PROVE  IInv'
<1> USE DEF IInv, slot
<1>1. /\ pc[t] \in {"permitted", "locked", "sleeping"} /\ host[t] \in Hosts
      /\ pc'[t] \in {"idle", "cutOff"} /\ pc' \in [Tasks -> States]
      /\ \A w \in Tasks : w # t => pc'[w] = pc[w]
      /\ permits' \in Nat /\ cancelled
      /\ UNCHANGED <<gwait, hwait, age, host, delay, nap, cancelled>>
  <2>1. /\ pc[t] \in {"permitted", "locked", "sleeping"} /\ permits' \in Nat /\ cancelled
        /\ Goto(t, "idle") \/ Goto(t, "cutOff")
        /\ UNCHANGED <<gwait, hwait, age, host, delay, nap, cancelled>>
    BY DEF CutOff, TypeOK
  <2> QED BY <2>1 DEF Goto, TypeOK, States, Idle, Owning, LocksExact, AskedForHost
<1>2. \/ owner' = owner /\ (pc[t] = "permitted" \/ pc'[t] = "cutOff")
      \/ owner' = [owner EXCEPT ![host[t]] = None] /\ pc[t] = "locked"
  BY DEF CutOff, Goto, TypeOK
<1>3. /\ owner' \in [Hosts -> Tasks \cup {None}]
      /\ \A h \in Hosts : owner'[h] \in {owner[h], None}
      /\ \A h \in Hosts : h # host[t] => owner'[h] = owner[h]
  BY <1>1, <1>2 DEF TypeOK
<1>4. TypeOK'
  BY <1>1, <1>3 DEF TypeOK
<1>5. \A w \in Tasks : w # t /\ pc[w] \in Locked => owner'[host[w]] = w
  <2> SUFFICES ASSUME NEW w \in Tasks, w # t, pc[w] \in Locked PROVE owner'[host[w]] = w
    OBVIOUS
  <2>1. owner[host[w]] = w /\ host[w] \in Hosts
    BY DEF LocksExact, PastLockOwns, AskedForHost, Locked
  <2>2. CASE owner' = owner
    BY <2>1, <2>2
  <2>3. CASE owner' = [owner EXCEPT ![host[t]] = None] /\ pc[t] = "locked"
    <3>1. owner[host[t]] = t
      BY <2>3 DEF LocksExact, PastLockOwns, Locked
    <3>2. host[w] # host[t]
      BY <2>1, <3>1
    <3> QED BY <1>3, <2>1, <3>2
  <2> QED BY <1>2, <2>2, <2>3
<1>6. AskedForHost' /\ PastLockOwns'
  BY <1>1, <1>5 DEF LocksExact, AskedForHost, PastLockOwns, Locked
<1>7. OwnerPastLock'
  <2> SUFFICES ASSUME NEW h \in Hosts, owner'[h] # None
               PROVE  pc'[owner'[h]] \in Owning /\ host[owner'[h]] = h
    BY <1>1 DEF OwnerPastLock
  <2>1. owner'[h] = owner[h] /\ owner[h] \in Tasks /\ pc[owner[h]] \in Owning /\ host[owner[h]] = h
    BY <1>3, WhoIsWhere
  <2>2. CASE owner[h] = t
    <3>1. pc[t] # "permitted"
      BY <2>1, <2>2 DEF Owning, Locked
    <3>2. pc'[t] = "cutOff" \/ owner' = [owner EXCEPT ![host[t]] = None]
      BY <1>2, <3>1
    <3>3. owner' # [owner EXCEPT ![host[t]] = None]
      BY <1>1, <2>1, <2>2, LimiterAssumption DEF TypeOK
    <3> QED BY <2>1, <2>2, <3>2, <3>3 DEF Owning
  <2>3. CASE owner[h] # t
    BY <1>1, <2>1, <2>3
  <2> QED BY <2>2, <2>3
<1>8. gwait' = <<>> /\ \A h \in Hosts : hwait'[h] = <<>>
  BY <1>1 DEF LocksExact, NobodyWaitsOnceCancelled
<1>9. /\ WaitersWait' /\ AskersWait' /\ NobodyWaitsForFreeLock'
      /\ NobodyWaitsOnceCancelled'
  BY <1>8 DEF WaitersWait, AskersWait, NobodyWaitsForFreeLock, NobodyWaitsOnceCancelled
<1>10. SpacingHeld' /\ NapSuffices' /\ DelayClamped'
  BY <1>1 DEF SpacingHeld, NapSuffices, DelayClamped
<1> QED BY <1>4, <1>6, <1>7, <1>9, <1>10 DEF LocksExact

\* Time only makes a host's last request older and a sleep shorter.
LEMMA TickKeeps ==
    ASSUME IInv, Tick
    PROVE  IInv'
<1> USE DEF IInv, slot
<1>1. \A h \in Hosts : age[h] \in 0..AgeCap /\ age'[h] = AtMost(AgeCap, age[h] + 1)
  BY DEF Tick, TypeOK
<1>2. \A t \in Tasks : nap[t] \in 0..AgeCap /\ nap'[t] = AtLeast(0, nap[t] - 1)
  BY DEF Tick, TypeOK
<1>3. TypeOK'
  BY <1>1, <1>2, AgeCapNat DEF Tick, TypeOK, AtMost, AtLeast
<1>4. LocksExact'
  BY DEF Tick, LocksExact, AskedForHost, PastLockOwns, OwnerPastLock, WaitersWait,
         AskersWait, NobodyWaitsForFreeLock, NobodyWaitsOnceCancelled
<1>5. SpacingHeld'
  BY <1>1, AgeCapNat
     DEF Tick, SpacingHeld, AtMost, TypeOK, LocksExact, AskedForHost
<1>6. NapSuffices'
  <2> SUFFICES ASSUME NEW t \in Tasks, pc'[t] = "sleeping"
               PROVE  age'[host'[t]] + nap'[t] >= delay'[t]
    BY DEF NapSuffices
  <2> DEFINE a == age[host[t]]  n == nap[t]  d == delay[t]
  <2>1. pc[t] = "sleeping" /\ host' = host /\ delay' = delay /\ host[t] \in Hosts
    BY DEF Tick, LocksExact, AskedForHost
  <2>2. a \in 0..AgeCap /\ n \in 0..AgeCap /\ d \in 0..AgeCap /\ a + n >= d
    BY <2>1 DEF TypeOK, NapSuffices
  <2>3. age'[host[t]] = AtMost(AgeCap, a + 1) /\ nap'[t] = AtLeast(0, n - 1)
    BY <1>1, <1>2, <2>1
  <2>4. AtMost(AgeCap, a + 1) + AtLeast(0, n - 1) >= d
    <3> HIDE DEF a, n, d
    <3> QED BY <2>2, AgeCapNat DEF AtMost, AtLeast
  <2> QED BY <2>1, <2>3, <2>4
<1>7. DelayClamped'
  BY DEF Tick, DelayClamped
<1> QED BY <1>3, <1>4, <1>5, <1>6, <1>7

LEMMA NextKeeps == IInv /\ [Next]_vars => IInv'
<1> SUFFICES ASSUME IInv, [Next]_vars PROVE IInv'
  OBVIOUS
<1>1. CASE Tick
  BY <1>1, TickKeeps
<1>2. ASSUME NEW t \in Tasks, Ask(t) PROVE IInv'
  BY <1>2, AskKeeps
<1>3. ASSUME NEW t \in Tasks, Step(t) PROVE IInv'
  BY <1>3, LockHostKeeps, EnforceDelayKeeps, WakeKeeps, LeaveKeeps, CutOffKeeps DEF Step
<1>5. CASE Cancel
  BY <1>5, CancelKeeps
<1>4. CASE UNCHANGED vars
  BY <1>4 DEF vars, slot, IInv, TypeOK, LocksExact, AskedForHost, PastLockOwns, OwnerPastLock,
              WaitersWait, AskersWait, NobodyWaitsForFreeLock, NobodyWaitsOnceCancelled,
              SpacingHeld, NapSuffices, DelayClamped
<1> QED BY <1>1, <1>2, <1>3, <1>4, <1>5 DEF Next

-----------------------------------------------------------------------------
\* The inductive invariant holds throughout.
THEOREM Invariance == Spec => []IInv
BY InitEstablishes, NextKeeps, PTL DEF Spec

\* Every variable keeps its type; no sleep and no delay exceeds AgeCap.
THEOREM TypeCorrect == Spec => []TypeOK
<1>1. IInv => TypeOK
  BY DEF IInv
<1> QED BY <1>1, Invariance, PTL

\* The lock bookkeeping of the limiter is exact: whoever is past the lock of a
\* host owns it, a waiter stands once in the queue of its host.
THEOREM LockBookkeeping == Spec => []LocksExact
<1>1. IInv => LocksExact
  BY DEF IInv
<1> QED BY <1>1, Invariance, PTL

\* The hard rule of limiter.py: one concurrent request per host, for any number
\* of tasks and hosts and any capacity.
THEOREM MutualExclusion == Spec => []OneRequestPerHost
<1>1. IInv => OneRequestPerHost
  BY DEF IInv, LocksExact, PastLockOwns, OneRequestPerHost, Locked
<1> QED BY <1>1, Invariance, PTL

\* A request never starts before the delay its caller asked for has passed since
\* the previous request to the host ended, for any delays and clamp.
THEOREM Spacing == Spec => []SpacingHeld
<1>1. IInv => SpacingHeld
  BY DEF IInv
<1> QED BY <1>1, Invariance, PTL

-----------------------------------------------------------------------------
(***************************************************************************)
(* The refinement: serving and quiet are what the state of the limiter      *)
(* shows of the two variables of PoliteHost.                                *)
(***************************************************************************)
Serving == [h \in Hosts |-> {t \in Tasks : pc[t] = "requesting" /\ host[t] = h}]
Quiet == [h \in Hosts |-> AtMost(Lo, age[h])]

LEMMA InitMaps == Init => Promise!Init
BY LimiterAssumption, AgeCapNat DEF Init, Promise!Init, AtMost

\* A step that starts and ends no request and moves no clock is a stutter.
LEMMA Stutters ==
    ASSUME UNCHANGED <<host, age>>,
           \A t \in Tasks : pc'[t] = "requesting" <=> pc[t] = "requesting"
    PROVE  UNCHANGED <<Serving, Quiet>>
BY DEF Serving, Quiet

\* A task that goes to the request finds nobody there and the host quiet for Lo.
LEMMA GoMaps ==
    ASSUME IInv, IInv', NEW t \in Tasks, NEW h \in Hosts, h = host[t],
           pc[t] \in {"locked", "sleeping"},
           Goto(t, "requesting"), UNCHANGED <<host, age, delay>>
    PROVE  Promise!Start(t, h)
<1>1. /\ pc'[t] = "requesting" /\ \A w \in Tasks : w # t => pc'[w] = pc[w]
      /\ age[h] \in Nat /\ Lo \in Nat /\ delay[t] \in Nat
  BY LimiterAssumption, AgeCapNat DEF Goto, IInv, TypeOK, LocksExact, AskedForHost
<1>2. \A w \in Tasks : ~(pc[w] = "requesting" /\ host[w] = h)
  BY DEF IInv, LocksExact, PastLockOwns, Locked
<1>3. age[h] >= Lo
  <2>1. age[h] >= delay[t] /\ delay[t] >= Lo
    BY <1>1 DEF IInv, SpacingHeld, DelayClamped
  <2> QED BY <1>1, <2>1
<1>4. Serving[h] = {} /\ Quiet[h] = Lo
  BY <1>1, <1>2, <1>3 DEF Serving, Quiet, AtMost
<1>5. Serving' = [Serving EXCEPT ![h] = {t}]
  <2>1. \A k \in Hosts : k # h => Serving'[k] = Serving[k]
    BY <1>1 DEF Serving
  <2>2. Serving'[h] = {t}
    BY <1>1, <1>2 DEF Serving
  <2> QED BY <1>1, <2>1, <2>2 DEF Serving
<1>6. UNCHANGED Quiet
  BY DEF Quiet
<1> QED BY <1>4, <1>5, <1>6 DEF Promise!Start, Serving, Quiet

\* The end of a request ends it for the host and stamps the host.
LEMMA LeaveMaps ==
    ASSUME IInv, NEW t \in Tasks, NEW h \in Hosts, h = host[t], Leave(t)
    PROVE  Promise!Stop(t, h)
<1>1. /\ pc[t] = "requesting" /\ pc'[t] = "idle" /\ host' = host
      /\ age' = [age EXCEPT ![h] = 0] /\ age \in [Hosts -> 0..AgeCap]
  BY LeaveMoves DEF Leave, slot, IInv, TypeOK
<1>2. \A w \in Tasks : pc'[w] = "requesting" <=> pc[w] = "requesting" /\ w # t
  BY LeaveMoves
<1>3. \A w \in Tasks : pc[w] = "requesting" /\ host[w] = h => w = t
  BY <1>1 DEF IInv, LocksExact, PastLockOwns, Locked
<1>4. Serving[h] = {t}
  BY <1>1, <1>3 DEF Serving
<1>5. Serving' = [Serving EXCEPT ![h] = {}]
  <2>1. \A k \in Hosts : k # h => Serving'[k] = Serving[k]
    BY <1>1, <1>2 DEF Serving
  <2>2. Serving'[h] = {}
    BY <1>1, <1>2, <1>3 DEF Serving
  <2> QED BY <1>1, <2>1, <2>2 DEF Serving
<1>6. Quiet' = [Quiet EXCEPT ![h] = 0]
  <2>1. \A k \in Hosts : k # h => Quiet'[k] = Quiet[k]
    BY <1>1 DEF Quiet
  <2>2. Quiet'[h] = 0
    <3>1. age'[h] = 0
      BY <1>1
    <3> QED BY <3>1, LimiterAssumption DEF Quiet, AtMost
  <2> QED BY <2>1, <2>2 DEF Quiet
<1> QED BY <1>4, <1>5, <1>6 DEF Promise!Stop, Serving, Quiet

\* Capping the age at Lo commutes with the tick.
LEMMA TickMaps ==
    ASSUME IInv, Tick
    PROVE  Promise!Tick
<1>1. \A h \in Hosts : age[h] \in 0..AgeCap /\ age'[h] = AtMost(AgeCap, age[h] + 1)
  BY DEF Tick, IInv, TypeOK
<1>2. Quiet' = [h \in Hosts |-> IF Quiet[h] < Lo THEN Quiet[h] + 1 ELSE Lo]
  <2>1. \A h \in Hosts : Quiet'[h] = IF Quiet[h] < Lo THEN Quiet[h] + 1 ELSE Lo
    BY <1>1, AgeCapNat, LimiterAssumption DEF Quiet, AtMost
  <2> QED BY <2>1 DEF Quiet
<1>3. UNCHANGED Serving
  BY DEF Tick, Serving, slot
<1> QED BY <1>2, <1>3 DEF Promise!Tick, Serving, Quiet

LEMMA StepMaps ==
    ASSUME IInv, IInv', [Next]_vars
    PROVE  [Promise!Next]_<<Serving, Quiet>>
<1>1. CASE Tick
  BY <1>1, TickMaps DEF Promise!Next
<1>2. ASSUME NEW t \in Tasks, Ask(t) PROVE UNCHANGED <<Serving, Quiet>>
  <2>1. /\ pc[t] # "requesting" /\ pc'[t] # "requesting" /\ UNCHANGED age
        /\ \A w \in Tasks : w # t => pc'[w] = pc[w] /\ host'[w] = host[w]
    BY <1>2 DEF Ask, Goto, IInv, TypeOK
  <2> QED BY <2>1 DEF Serving, Quiet
<1>3. ASSUME NEW t \in Tasks, LockHost(t) PROVE UNCHANGED <<Serving, Quiet>>
  <2>1. \A w \in Tasks : pc'[w] = "requesting" <=> pc[w] = "requesting"
    BY <1>3 DEF LockHost, Goto, IInv, TypeOK
  <2> QED BY <1>3, <2>1, Stutters DEF LockHost, slot
<1>4. ASSUME NEW t \in Tasks, NEW h \in Hosts, h = host[t], EnforceDelay(t)
      PROVE  Promise!Start(t, h) \/ UNCHANGED <<Serving, Quiet>>
  <2>1. CASE Goto(t, "requesting")
    BY <1>4, <2>1, GoMaps DEF EnforceDelay, slot
  <2>2. CASE Goto(t, "sleeping")
    <3>1. \A w \in Tasks : pc'[w] = "requesting" <=> pc[w] = "requesting"
      BY <1>4, <2>2 DEF EnforceDelay, Goto, IInv, TypeOK
    <3> QED BY <1>4, <3>1, Stutters DEF EnforceDelay, slot
  <2> QED BY <1>4, <2>1, <2>2 DEF EnforceDelay
<1>5. ASSUME NEW t \in Tasks, NEW h \in Hosts, h = host[t], Wake(t)
      PROVE  Promise!Start(t, h)
  BY <1>5, GoMaps DEF Wake, slot
<1>6. ASSUME NEW t \in Tasks, NEW h \in Hosts, h = host[t], Leave(t)
      PROVE  Promise!Stop(t, h)
  BY <1>6, LeaveMaps
<1>7. CASE UNCHANGED vars
  BY <1>7 DEF vars, slot, Serving, Quiet
<1>10. ASSUME NEW t \in Tasks, CutOff(t) PROVE UNCHANGED <<Serving, Quiet>>
  <2>1. \A w \in Tasks : pc'[w] = "requesting" <=> pc[w] = "requesting"
    BY <1>10 DEF CutOff, Goto, IInv, TypeOK
  <2> QED BY <1>10, <2>1, Stutters DEF CutOff, slot
<1>11. CASE Cancel
  <2>1. \A w \in Tasks : pc'[w] = "requesting" <=> pc[w] = "requesting"
    BY <1>11 DEF Cancel
  <2> QED BY <1>11, <2>1, Stutters DEF Cancel, slot
<1>8. \A t \in Tasks : Step(t) => host[t] \in Hosts
  BY DEF IInv, LocksExact, AskedForHost, Step, LockHost, EnforceDelay, Wake, Leave, CutOff
<1>9. ASSUME NEW t \in Tasks, Step(t) PROVE [Promise!Next]_<<Serving, Quiet>>
  <2>1. PICK h \in Hosts : h = host[t]
    BY <1>8, <1>9
  <2>2. Promise!Start(t, h) \/ Promise!Stop(t, h) => Promise!Next
    BY DEF Promise!Next
  <2> QED BY <1>3, <1>4, <1>5, <1>6, <1>9, <1>10, <2>1, <2>2 DEF Step
<1> QED BY <1>1, <1>2, <1>7, <1>9, <1>11 DEF Next

\* docs/politeness.md, for any number of tasks and hosts, any configuration and
\* any robots.txt: one request at a time per host, and between two of them at
\* least the lower end of the clamp.
THEOREM KeepsThePromise == Spec => KeepsPromise
<1>1. IInv /\ IInv' /\ [Next]_vars => [Promise!Next]_<<Serving, Quiet>>
  BY StepMaps
<1> QED BY <1>1, InitMaps, Invariance, PTL
        DEF Spec, KeepsPromise, Promise!Spec, Serving, Quiet
-----------------------------------------------------------------------------
(* The global semaphore: permits and the tasks that hold one.               *)
Holders == {t \in Tasks : pc[t] \notin Idle}

\* However many tasks there are, only finitely many hold a permit.
Accounted == IsFiniteSet(Holders) /\ PermitsConserved

\* A task that gets its permit at once, and one that gives it back unclaimed.
LEMMA OneMoreHolder ==
    ASSUME Accounted, TypeOK, NEW t \in Tasks, t \notin Holders, permits > 0,
           permits' = permits - 1, gwait' = gwait, Holders' = Holders \cup {t}
    PROVE  Accounted'
<1>1. IsFiniteSet(Holders') /\ Cardinality(Holders') = Cardinality(Holders) + 1
  BY FS_AddElement DEF Accounted
<1>2. Cardinality(Holders) \in Nat
  BY FS_CardinalityType DEF Accounted
<1>3. permits' + Cardinality(Holders') = Capacity
  BY <1>1, <1>2 DEF Accounted, PermitsConserved, Holders, TypeOK
<1>4. gwait' = <<>>
  BY DEF Accounted, PermitsConserved
<1> QED BY <1>1, <1>3, <1>4 DEF Accounted, PermitsConserved, Holders

LEMMA OneHolderLess ==
    ASSUME Accounted, TypeOK, NEW t \in Tasks, t \in Holders, gwait = <<>>,
           permits' = permits + 1, gwait' = <<>>, Holders' = Holders \ {t}
    PROVE  Accounted'
<1>1. IsFiniteSet(Holders') /\ Cardinality(Holders') = Cardinality(Holders) - 1
  BY FS_RemoveElement DEF Accounted
<1>2. Cardinality(Holders) \in Nat
  BY FS_CardinalityType DEF Accounted
<1>3. permits' + Cardinality(Holders') = Capacity
  BY <1>1, <1>2 DEF Accounted, PermitsConserved, Holders, TypeOK
<1> QED BY <1>1, <1>3 DEF Accounted, PermitsConserved, Holders

\* A permit that goes from a task to the first waiter is never free.
LEMMA HolderReplaced ==
    ASSUME Accounted, TypeOK, NEW t \in Holders, NEW w \in Tasks, w \notin Holders,
           permits' = permits, gwait # <<>>, Holders' = (Holders \ {t}) \cup {w}
    PROVE  Accounted'
<1>1. IsFiniteSet(Holders \ {t}) /\ Cardinality(Holders \ {t}) = Cardinality(Holders) - 1
  BY FS_RemoveElement DEF Accounted
<1>2. IsFiniteSet(Holders') /\ Cardinality(Holders') = Cardinality(Holders \ {t}) + 1
  BY <1>1, FS_AddElement
<1>3. Cardinality(Holders) \in Nat
  BY FS_CardinalityType DEF Accounted
<1>4. permits' + Cardinality(Holders') = Capacity
  BY <1>1, <1>2, <1>3 DEF Accounted, PermitsConserved, Holders, TypeOK
<1>5. ~(permits' > 0)
  BY DEF Accounted, PermitsConserved
<1> QED BY <1>2, <1>4, <1>5 DEF Accounted, PermitsConserved, Holders

\* What moves no task in or out and leaves the semaphore alone.
LEMMA HoldersSame ==
    ASSUME Accounted, UNCHANGED <<permits, gwait>>, Holders' = Holders
    PROVE  Accounted'
BY DEF Accounted, PermitsConserved, Holders

LEMMA PermitsKept == IInv /\ Accounted /\ [Next]_vars => Accounted'
<1> SUFFICES ASSUME IInv, Accounted, [Next]_vars PROVE Accounted'
  OBVIOUS
<1>0. TypeOK
  BY DEF IInv
<1>1. ASSUME NEW t \in Tasks, Ask(t) PROVE Accounted'
  <2>1. t \notin Holders
    BY <1>1 DEF Ask, Holders, Idle
  <2>2. CASE permits > 0 /\ permits' = permits - 1 /\ Goto(t, "permitted") /\ UNCHANGED gwait
    <3>1. Holders' = Holders \cup {t}
      BY <1>0, <2>2 DEF Holders, Goto, Idle, TypeOK
    <3> QED BY <1>0, <2>1, <2>2, <3>1, OneMoreHolder
  <2>3. CASE permits = 0 /\ gwait' = Append(gwait, t) /\ Goto(t, "globalWait") /\ UNCHANGED permits
    <3>1. Holders' = Holders
      BY <1>0, <2>1, <2>3 DEF Holders, Goto, Idle, TypeOK
    <3>2. permits' = permits /\ ~(permits' > 0)
      BY <2>3
    <3>3. permits' + Cardinality(Holders') = Capacity /\ IsFiniteSet(Holders')
      BY <3>1, <3>2 DEF Accounted, PermitsConserved, Holders
    <3> QED BY <3>2, <3>3 DEF Accounted, PermitsConserved, Holders
  <2> QED BY <1>1, <2>2, <2>3 DEF Ask
<1>2. ASSUME NEW t \in Tasks, LockHost(t) \/ EnforceDelay(t) \/ Wake(t) PROVE Accounted'
  <2>1. /\ UNCHANGED <<permits, gwait>> /\ pc[t] \notin Idle
        /\ \E s \in States \ Idle : Goto(t, s)
    BY <1>2 DEF LockHost, EnforceDelay, Wake, Idle, States, Owning, Locked
  <2>2. Holders' = Holders
    BY <1>0, <2>1 DEF Holders, Goto, TypeOK
  <2> QED BY <2>1, <2>2, HoldersSame
<1>3. ASSUME NEW t \in Tasks, Leave(t) PROVE Accounted'
  <2>1. /\ t \in Holders
        /\ permits' = (IF gwait = <<>> THEN permits + 1 ELSE permits) /\ gwait' = Rest(gwait)
    BY <1>3, LeaveMoves DEF Leave, HandOverPermit, Holders, Idle
  <2>2. \A w \in Tasks : w # t /\ w \notin First(gwait) => (w \in Holders' <=> w \in Holders)
    BY <1>3, LeaveMoves DEF Holders, Idle
  <2>3. t \notin Holders'
    BY <1>3, LeaveMoves DEF Holders, Idle
  <2>4. CASE gwait = <<>>
    <3>1. First(gwait) = {} /\ Rest(gwait) = <<>>
      BY <2>4 DEF First, Rest
    <3>2. Holders' = Holders \ {t}
      BY <2>2, <2>3, <3>1 DEF Holders
    <3> QED BY <1>0, <2>1, <2>4, <3>1, <3>2, OneHolderLess
  <2>5. CASE gwait # <<>>
    <3>1. PICK w : First(gwait) = {w}
      BY <2>5 DEF First
    <3>2. w \in Tasks /\ w # t /\ w \notin Holders /\ w \in Holders'
      BY <1>3, <3>1, LeaveMoves DEF Holders, Idle
    <3>3. Holders' = (Holders \ {t}) \cup {w}
      BY <2>2, <2>3, <3>1, <3>2 DEF Holders
    <3> QED BY <1>0, <2>1, <2>5, <3>2, <3>3, HolderReplaced
  <2> QED BY <2>4, <2>5
<1>5. CASE Cancel
  <2>1. permits' = permits /\ gwait' = <<>>
    BY <1>5 DEF Cancel
  <2>2. Holders' = Holders
    BY <1>5 DEF Cancel, Holders, Idle
  <2>3. permits' + Cardinality(Holders') = Capacity /\ IsFiniteSet(Holders')
    BY <2>1, <2>2 DEF Accounted, PermitsConserved, Holders
  <2> QED BY <2>1, <2>3 DEF Accounted, PermitsConserved, Holders
<1>6. ASSUME NEW t \in Tasks, CutOff(t) PROVE Accounted'
  <2>1. t \in Holders /\ gwait = <<>> /\ gwait' = <<>>
    BY <1>6 DEF CutOff, Holders, Idle, IInv, LocksExact, NobodyWaitsOnceCancelled
  <2>2. \/ permits' = permits + 1 /\ Goto(t, "idle")
        \/ permits' = permits /\ Goto(t, "cutOff")
    BY <1>6 DEF CutOff
  <2>3. CASE permits' = permits + 1 /\ Goto(t, "idle")
    <3>1. Holders' = Holders \ {t}
      BY <1>0, <2>3 DEF Holders, Goto, Idle, TypeOK
    <3> QED BY <1>0, <2>1, <2>3, <3>1, OneHolderLess DEF Holders
  <2>4. CASE permits' = permits /\ Goto(t, "cutOff")
    <3>1. Holders' = Holders
      BY <1>0, <2>1, <2>4 DEF Holders, Goto, Idle, TypeOK
    <3> QED BY <2>1, <2>4, <3>1, HoldersSame
  <2> QED BY <2>2, <2>3, <2>4
<1>4. CASE Tick \/ UNCHANGED vars
  <2>1. UNCHANGED <<permits, gwait>> /\ Holders' = Holders
    BY <1>4 DEF Tick, vars, Holders
  <2> QED BY <2>1, HoldersSame
<1> QED BY <1>1, <1>2, <1>3, <1>4, <1>5, <1>6 DEF Next, Step

\* The semaphore of HostRateLimiter loses and invents no permit, however the
\* lock and the permit are handed over and whenever the run is cancelled: a permit
\* that is not free is held by a task, for ever by one that was cut off inside
\* __aenter__, and none is free while a task waits.
THEOREM PermitsAreConserved == Spec => []PermitsConserved
<1>1. Init => Accounted
  <2> SUFFICES ASSUME Init PROVE Accounted
    OBVIOUS
  <2>1. Holders = {} /\ permits = Capacity /\ gwait = <<>>
    BY DEF Init, Holders, Idle
  <2>2. IsFiniteSet(Holders) /\ permits + Cardinality(Holders) = Capacity
    BY <2>1, FS_EmptySet, LimiterAssumption
  <2> QED BY <2>1, <2>2 DEF Accounted, PermitsConserved, Holders
<1>2. Accounted => PermitsConserved
  BY DEF Accounted
<1> QED BY <1>1, <1>2, PermitsKept, Invariance, PTL DEF Spec

=============================================================================
