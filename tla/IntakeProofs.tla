----------------------------- MODULE IntakeProofs -----------------------------
(***************************************************************************)
(* What a row and a pinned address can be relied on for, whatever the lines *)
(* of the input and the answers of the resolver.                            *)
(*                                                                          *)
(* First the guard, then the normal form of a path, that of a query, and    *)
(* the rows of the urls table.                                              *)
(***************************************************************************)
EXTENDS Intake, LoopLemmas

\* The list comprehension of resolve_and_validate, address by address.
LEMMA DedupeLoop ==
    ASSUME NEW infos, Len(infos) \in Nat, NEW A, \A i \in 1..Len(infos) : infos[i].ip \in A
    PROVE  \E kept \in [0..Len(infos) -> Seq(A)] :
              /\ Dedupe(infos) = kept[Len(infos)]
              /\ kept[0] = <<>>
              /\ \A k \in 1..Len(infos) :
                    kept[k] = IF Contains(kept[k - 1], infos[k].ip) THEN kept[k - 1]
                              ELSE Append(kept[k - 1], infos[k].ip)
<1> DEFINE n == Len(infos)
           Step(k, out) == IF Contains(out, infos[k].ip) THEN out ELSE Append(out, infos[k].ip)
           turn == [k \in 1..n |-> [out \in Seq(A) |-> Step(k, out)]]
<1>1. turn \in [1..n -> [Seq(A) -> Seq(A)]]
  BY DEF Contains
<1>2. PICK g : LoopOf(g, n, Seq(A), <<>>, turn)
  <2>1. <<>> \in Seq(A) /\ n \in Nat
    OBVIOUS
  <2> HIDE DEF turn, n
  <2> QED BY <1>1, <2>1, LoopExists
<1>3. \A k \in 1..n : g[k] = Step(k, g[k - 1])
  <2> SUFFICES ASSUME NEW k \in 1..n PROVE g[k] = Step(k, g[k - 1])
    OBVIOUS
  <2>1. g[k - 1] \in Seq(A) /\ g[k] = turn[k][g[k - 1]]
    <3>1. n \in Nat
      OBVIOUS
    <3> HIDE DEF turn, Step, n
    <3>2. k - 1 \in 0..n
      BY <3>1
    <3> QED BY <1>2, <3>2 DEF LoopOf
  <2> QED BY <2>1
<1> HIDE DEF turn, Step
<1> DEFINE Loops(f) == f = [k \in 0..n |-> IF k = 0 THEN <<>> ELSE Step(k, f[k - 1])]
<1>4. Loops(g)
  BY <1>2, <1>3 DEF LoopOf
<1> DEFINE kept == CHOOSE f : Loops(f)
<1>5. Loops(kept)
  <2> HIDE DEF Loops
  <2> QED BY <1>4, Zenon
<1>6. Dedupe(infos) = kept[n]
  BY DEF Dedupe, Step
<1> HIDE DEF kept
<1> DEFINE S == {m \in Nat : m <= n => kept[m] = g[m]}
<1>7. 0 \in S
  BY <1>2, <1>5 DEF LoopOf
<1>8. ASSUME NEW m \in S PROVE m + 1 \in S
  BY <1>3, <1>5
<1> HIDE DEF S
<1>9. S = Nat
  <2>1. S \in SUBSET Nat
    BY DEF S
  <2> QED BY <1>7, <1>8, <2>1, Induct
<1>10. Dedupe(infos) = g[n]
  BY <1>6, <1>9 DEF S
<1> QED BY <1>2, <1>3, <1>10 DEF Step, LoopOf

\* The addresses answered, each once.
LEMMA DedupeKeepsAll ==
    ASSUME NEW A, NEW infos, Len(infos) \in Nat, DOMAIN infos = 1..Len(infos),
           \A i \in 1..Len(infos) : infos[i].ip \in A
    PROVE  /\ Dedupe(infos) \in Seq(A)
           /\ ToSet(Dedupe(infos)) = {infos[i].ip : i \in DOMAIN infos}
           /\ \A i, j \in DOMAIN Dedupe(infos) : Dedupe(infos)[i] = Dedupe(infos)[j] => i = j
<1> DEFINE n == Len(infos)
<1>1. PICK kept \in [0..n -> Seq(A)] :
              /\ Dedupe(infos) = kept[n]
              /\ kept[0] = <<>>
              /\ \A k \in 1..n :
                    kept[k] = IF Contains(kept[k - 1], infos[k].ip) THEN kept[k - 1]
                              ELSE Append(kept[k - 1], infos[k].ip)
  BY DedupeLoop
<1> DEFINE Exact(k) ==
              /\ \A i \in DOMAIN kept[k] : \E j \in 1..k : kept[k][i] = infos[j].ip
              /\ \A j \in 1..k : \E i \in DOMAIN kept[k] : kept[k][i] = infos[j].ip
              /\ \A i, j \in DOMAIN kept[k] : kept[k][i] = kept[k][j] => i = j
           S == {k \in Nat : k <= n => Exact(k)}
<1>2. Exact(0)
  BY <1>1
<1>3. ASSUME NEW k \in Nat, k + 1 <= n, Exact(k) PROVE Exact(k + 1)
  <2> DEFINE old == kept[k]
             new == kept[k + 1]
             ip == infos[k + 1].ip
  <2>1. old \in Seq(A) /\ ip \in A /\ k + 1 \in 1..n /\ k \in 0..n
    BY <1>3
  <2>2. new = IF Contains(old, ip) THEN old ELSE Append(old, ip)
    BY <1>1, <2>1
  <2>3. 1..(k + 1) = 1..k \cup {k + 1}
    BY <1>3
  <2>4. CASE Contains(old, ip)
    <3>1. new = old /\ \E i \in DOMAIN old : old[i] = ip
      BY <2>1, <2>2, <2>4 DEF Contains
    <3>2. \A i \in DOMAIN new : \E j \in 1..(k + 1) : new[i] = infos[j].ip
      BY <1>3, <2>3, <3>1
    <3>3. \A j \in 1..(k + 1) : \E i \in DOMAIN new : new[i] = infos[j].ip
      BY <1>3, <2>3, <3>1
    <3>4. \A i, j \in DOMAIN new : new[i] = new[j] => i = j
      BY <1>3, <3>1
    <3> QED BY <3>2, <3>3, <3>4
  <2>5. CASE ~Contains(old, ip)
    <3>1. new = Append(old, ip) /\ ~\E i \in DOMAIN old : old[i] = ip
      BY <2>1, <2>2, <2>5 DEF Contains
    <3>2. /\ DOMAIN new = DOMAIN old \cup {Len(old) + 1} /\ Len(old) + 1 \notin DOMAIN old
          /\ new[Len(old) + 1] = ip /\ \A i \in DOMAIN old : new[i] = old[i]
      BY <2>1, <3>1
    <3> HIDE DEF old, new, ip
    <3>3. \A i \in DOMAIN new : \E j \in 1..(k + 1) : new[i] = infos[j].ip
      <4>1. \A i \in DOMAIN old : \E j \in 1..k : old[i] = infos[j].ip
        BY <1>3 DEF old
      <4>2. ip = infos[k + 1].ip
        BY DEF ip
      <4> QED BY <2>3, <3>2, <4>1, <4>2
    <3>4. \A j \in 1..(k + 1) : \E i \in DOMAIN new : new[i] = infos[j].ip
      BY <1>3, <2>3, <3>2 DEF old, new, ip
    <3>5. \A i, j \in DOMAIN new : new[i] = new[j] => i = j
      <4>1. \A i, j \in DOMAIN old : old[i] = old[j] => i = j
        BY <1>3 DEF old
      <4> QED BY <3>1, <3>2, <4>1
    <3> QED BY <3>3, <3>4, <3>5 DEF new
  <2> QED BY <2>4, <2>5
<1> HIDE DEF Exact
<1>4. 0 \in S /\ \A k \in S : k + 1 \in S
  BY <1>2, <1>3
<1> HIDE DEF S
<1>5. S = Nat
  <2>1. S \in SUBSET Nat
    BY DEF S
  <2> QED BY <1>4, <2>1, Induct
<1>6. Exact(n)
  <2>1. n \in S
    BY <1>5
  <2> QED BY <2>1 DEF S
<1>7. kept[n] \in Seq(A)
  OBVIOUS
<1> DEFINE d == kept[n]
<1>8. Dedupe(infos) = d
  BY <1>1
<1>9. /\ \A i \in DOMAIN d : \E j \in 1..n : d[i] = infos[j].ip
      /\ \A j \in 1..n : \E i \in DOMAIN d : d[i] = infos[j].ip
      /\ \A i, j \in DOMAIN d : d[i] = d[j] => i = j
  BY <1>6 DEF Exact
<1> HIDE DEF d, n
<1>10. {d[i] : i \in DOMAIN d} = {infos[i].ip : i \in 1..n}
  BY <1>9
<1>11. d \in Seq(A)
  BY <1>7 DEF d
<1>12. DOMAIN infos = 1..n
  BY DEF n
<1>13. ToSet(d) = {infos[i].ip : i \in DOMAIN infos}
  BY <1>10, <1>12 DEF ToSet
<1> QED BY <1>8, <1>9, <1>11, <1>13

-----------------------------------------------------------------------------
\* What getaddrinfo answers with.
Infos == [ip : Addresses, zone : BOOLEAN]

\* What a fetch was given is what the guard made of the answer.
PinInv ==
    pinned # None =>
        /\ pinned.answer \in Seq(Infos)
        /\ pinned.ips = ResolveAndValidate(pinned.key.port, pinned.answer)

\* Resolve is the only action that pins.
LEMMA PinInvHolds == Spec => []PinInv
<1>1. Init => PinInv
  BY DEF Init, PinInv
<1>2. PinInv /\ [Next]_vars => PinInv'
  <2> SUFFICES ASSUME PinInv, [Next]_vars PROVE PinInv'
    OBVIOUS
  <2>1. CASE UNCHANGED pinned
    BY <2>1 DEF PinInv
  <2>2. ASSUME NEW key \in DOMAIN rows, Resolve(key) PROVE PinInv'
    <3>1. PICK answer \in Answers :
             pinned' = [key |-> key, answer |-> answer, ips |-> ResolveAndValidate(key.port, answer)]
      BY <2>2 DEF Resolve
    <3>2. answer \in Seq(Infos)
      BY IntakeAssumption DEF Infos
    <3>3. pinned'.key = key /\ pinned'.answer = answer
          /\ pinned'.ips = ResolveAndValidate(key.port, answer)
      BY <3>1
    <3> QED BY <3>2, <3>3 DEF PinInv
  <2> QED BY <2>1, <2>2 DEF Next, List, Skip, EndRun, Relist, vars
<1> QED BY <1>1, <1>2, PTL DEF Spec

\* The same, for an answer of the resolver.
LEMMA AnswerDeduped ==
    ASSUME NEW infos \in Seq(Infos)
    PROVE  /\ Dedupe(infos) \in Seq(Addresses)
           /\ ToSet(Dedupe(infos)) = {infos[i].ip : i \in DOMAIN infos}
           /\ \A i, j \in DOMAIN Dedupe(infos) : Dedupe(infos)[i] = Dedupe(infos)[j] => i = j
<1>1. \A i \in 1..Len(infos) : infos[i].ip \in Addresses
  <2> TAKE i \in 1..Len(infos)
  <2>1. infos[i] \in Infos
    OBVIOUS
  <2> QED BY <2>1 DEF Infos
<1>2. Len(infos) \in Nat /\ DOMAIN infos = 1..Len(infos)
  OBVIOUS
<1> QED BY <1>1, <1>2, DedupeKeepsAll

\* An address that passes is public, and so is where it leads.
LEMMA ValidIsPublic ==
    ASSUME NEW ip \in Addresses, ValidateIp(ip), ~AllowPrivate
    PROVE  \A target \in Targets(ip) : Public(target)
<1> USE DEF Addresses, Carriers, Kinds
<1>1. ip.form \in {"v4", "v6", "mapped", "sixtofour", "nat64", "teredo"}
      /\ ip.kind \in {"public", "private", "cgnat", "wireserver", "multicast"}
      /\ ip.form = "v6" => ip.kind \in {"public", "private", "multicast"}
  OBVIOUS
<1>2. ip.form \in {"v4", "v6", "mapped"}
  BY <1>1 DEF ValidateIp, ExtraBlocked
<1>3. CASE ip.form = "mapped"
  <2> DEFINE inner == [form |-> "v4", kind |-> ip.kind]
  <2>1. Embedded(ip) = inner /\ inner # None
    BY <1>1, <1>3, GuardAssumption DEF Embedded
  <2>2. ~ExtraBlocked(inner) /\ IsGlobal(inner) /\ ~IsMulticast(inner)
    BY <2>1 DEF ValidateIp
  <2>3. ip.kind = "public"
    BY <1>1, <2>2 DEF ExtraBlocked, IsGlobal, IsMulticast
  <2> QED BY <2>3 DEF Targets, Public
<1>4. CASE ip.form \in {"v4", "v6"}
  <2>1. Embedded(ip) = None
    BY <1>4 DEF Embedded
  <2>2. ~ExtraBlocked(ip) /\ IsGlobal(ip) /\ ~IsMulticast(ip)
    BY <2>1 DEF ValidateIp
  <2>3. ip.kind = "public"
    BY <1>1, <1>4, <2>2 DEF ExtraBlocked, IsGlobal, IsMulticast
  <2> QED BY <1>4, <2>3 DEF Targets, Public
<1> QED BY <1>2, <1>3, <1>4

\* Defences 2 to 4 of guard.py, for every answer: what a fetch may connect to is
\* public, however the address is written, and carries no other one that is not.
THEOREM PinnedArePublic == Spec => []PinnedIsPublic
<1>1. ASSUME PinInv PROVE PinnedIsPublic
  <2> SUFFICES ASSUME pinned # None, ~AllowPrivate, NEW ip \in ToSet(pinned.ips)
               PROVE  \A target \in Targets(ip) : Public(target)
    BY DEF PinnedIsPublic
  <2> DEFINE infos == pinned.answer
  <2>1. infos \in Seq(Infos) /\ pinned.ips = ResolveAndValidate(pinned.key.port, infos)
    BY <1>1 DEF PinInv
  <2>2. pinned.ips # <<>>
    BY DEF ToSet
  <2>3. pinned.ips = Dedupe(infos) /\ \A a \in ToSet(Dedupe(infos)) : ValidateIp(a)
    BY <2>1, <2>2 DEF ResolveAndValidate
  <2>4. ip \in Addresses /\ ValidateIp(ip)
    <3>1. Dedupe(infos) \in Seq(Addresses)
      BY <2>1, AnswerDeduped
    <3> QED BY <2>3, <3>1 DEF ToSet
  <2> QED BY <2>4, ValidIsPublic
<1> QED BY <1>1, PinInvHolds, PTL

\* A public address in a form the code does not block by name is let through.
LEMMA PublicPasses ==
    ASSUME NEW ip \in Addresses, Public(ip), ip.form \in Plain \cup {"mapped"}
    PROVE  ValidateIp(ip)
BY DEF Addresses, Public, Plain, ValidateIp, Embedded, ExtraBlocked, IsGlobal, IsMulticast

\* The guard is closed no further than that: on an allowed port, a host that has
\* public addresses only may be fetched at each of them, and each is there once.
THEOREM PublicHostsGetThrough == Spec => []PublicGetsThrough
<1>1. ASSUME PinInv PROVE PublicGetsThrough
  <2> SUFFICES ASSUME pinned # None PROVE PublicGetsThrough
    BY DEF PublicGetsThrough
  <2> DEFINE infos == pinned.answer
             port == pinned.key.port
             ips == {info.ip : info \in ToSet(infos)}
             out == pinned.ips
  <2>1. infos \in Seq(Infos) /\ out = ResolveAndValidate(port, infos)
    BY <1>1 DEF PinInv
  <2>2. out = Dedupe(infos) \/ out = <<>>
    BY <2>1 DEF ResolveAndValidate
  <2>3. out \in Seq(Addresses) /\ \A i, j \in DOMAIN out : out[i] = out[j] => i = j
    <3>1. CASE out = Dedupe(infos)
      BY <2>1, <3>1, AnswerDeduped
    <3>2. CASE out = <<>>
      BY <3>2
    <3> QED BY <2>2, <3>1, <3>2
  <2>4. Cardinality(ToSet(out)) = Len(out)
    <3> DEFINE n == Len(out)
    <3>1. n \in Nat /\ DOMAIN out = 1..n
      BY <2>3
    <3>2. out \in Bijection(1..n, ToSet(out))
      <4>1. out \in [1..n -> ToSet(out)]
        BY <2>3, <3>1 DEF ToSet
      <4>2. \A t \in ToSet(out) : \E i \in 1..n : out[i] = t
        BY <3>1 DEF ToSet
      <4> HIDE DEF out, n
      <4> QED BY <2>3, <3>1, <4>1, <4>2 DEF Bijection, Injection, Surjection, IsInjective
    <3>3. IsFiniteSet(1..n) /\ Cardinality(1..n) = n
      BY <3>1, CountUpTo
    <3>4. Cardinality(ToSet(out)) = Cardinality(1..n)
      BY <3>2, <3>3, FS_Bijection DEF ExistsBijection
    <3> QED BY <3>3, <3>4
  <2>5. ASSUME \A ip \in ips : Public(ip) /\ ip.form \in Plain \cup {"mapped"},
               port \in {None} \cup AllowedPorts
        PROVE  ToSet(out) = ips
    <3>1. ToSet(Dedupe(infos)) = {infos[i].ip : i \in DOMAIN infos}
          /\ Dedupe(infos) \in Seq(Addresses)
      BY <2>1, AnswerDeduped
    <3>2. ToSet(Dedupe(infos)) = ips
      BY <3>1 DEF ToSet
    <3>3. \A ip \in ToSet(Dedupe(infos)) : ValidateIp(ip)
      <4> TAKE ip \in ToSet(Dedupe(infos))
      <4>1. ip \in Addresses
        BY <3>1 DEF ToSet
      <4> QED BY <2>5, <3>2, <4>1, PublicPasses
    <3>4. out = Dedupe(infos)
      BY <2>1, <2>5, <3>3 DEF ResolveAndValidate, ValidatePort
    <3> QED BY <3>2, <3>4
  <2> QED BY <2>4, <2>5 DEF PublicGetsThrough
<1> QED BY <1>1, PinInvHolds, PTL

-----------------------------------------------------------------------------
(*****************************************************************************)
(* The reference: a path is read from left to right, and reading it on from  *)
(* a state is a fold.                                                        *)
(*****************************************************************************)
\* What a path is made of between its slashes.
Octets == {"dot", "slash", "space", "percent", "x", "pdf"}
Segs == Seq(Octets)
Readings == [stack : Seq(Segs), seg : Segs]
Start == [stack |-> <<>>, seg |-> <<>>]

\* One token more.
After(was, tok) ==
    IF tok = "/" THEN [stack |-> Closed(was.stack, was.seg), seg |-> <<>>]
    ELSE [stack |-> was.stack, seg |-> Append(was.seg, Octet(tok))]

\* After, as the turn of a fold.
Reads == [tok \in Tokens |-> [was \in Readings |-> After(was, tok)]]

\* What a reading comes to at the end of the path.
Resolved(end) ==
    IF end.seg \in {Here, Up} THEN Append(Closed(end.stack, end.seg), <<>>)
    ELSE Append(end.stack, end.seg)

\* Every token but a slash is an octet.
LEMMA OctetType == \A tok \in Tokens \ {"/"} : Octet(tok) \in Octets
BY DEF Tokens, Octet, Octets

\* output.pop() leaves a list of what was in it.
LEMMA PoppedType == ASSUME NEW S, NEW s \in Seq(S) PROVE Popped(s) \in Seq(S)
<1>1. CASE s = <<>>
  BY <1>1 DEF Popped
<1>2. CASE s # <<>>
  <2>1. Len(s) \in Nat /\ Len(s) >= 1
    BY <1>2
  <2>2. SubSeq(s, 1, Len(s) - 1) \in Seq(S)
    BY <2>1
  <2> QED BY <1>2, <2>2 DEF Popped, Front
<1> QED BY <1>1, <1>2

\* Closing a segment leaves a stack of segments.
LEMMA ClosedType == ASSUME NEW S, NEW stack \in Seq(S), NEW seg \in S PROVE Closed(stack, seg) \in Seq(S)
BY PoppedType DEF Closed

\* A reading stays a reading.
LEMMA AfterType == ASSUME NEW was \in Readings, NEW tok \in Tokens PROVE After(was, tok) \in Readings
<1>1. was.stack \in Seq(Segs) /\ was.seg \in Segs
  BY DEF Readings
<1>2. Closed(was.stack, was.seg) \in Seq(Segs) /\ <<>> \in Segs
  BY <1>1, ClosedType DEF Segs
<1>3. tok # "/" => Append(was.seg, Octet(tok)) \in Segs
  BY <1>1, OctetType DEF Segs
<1> QED BY <1>1, <1>2, <1>3 DEF After, Readings

\* Reads is a turn on readings.
LEMMA ReadsType == Reads \in [Tokens -> [Readings -> Readings]] /\ Start \in Readings
<1>1. Start \in Readings
  BY DEF Start, Readings, Segs
<1> QED BY <1>1, AfterType DEF Reads

\* Reading is the loop of After.
LEMMA ReadingIs ==
    ASSUME NEW path \in Seq(Tokens), path # <<>>
    PROVE  Reading(path) = Folded(Reads, Start, Tail(path)) /\ Tail(path) \in Seq(Tokens)
<1> DEFINE data == Tail(path)
           n == Len(data)
           Solves(g) == g = [k \in 0..n |->
               IF k = 0 THEN [stack |-> <<>>, seg |-> <<>>]
               ELSE LET was == g[k - 1]
                    IN  IF data[k] = "/" THEN [stack |-> Closed(was.stack, was.seg), seg |-> <<>>]
                        ELSE [stack |-> was.stack, seg |-> Append(was.seg, Octet(data[k]))]]
           Turns(g) == g = [k \in 0..n |-> IF k = 0 THEN Start ELSE After(g[k - 1], data[k])]
           read == CHOOSE g : Turns(g)
<1>1. data \in Seq(Tokens)
  BY HeadTailProperties
<1>2. n \in Nat /\ \A k \in 1..n : data[k] \in Tokens /\ k \in 0..n /\ k - 1 \in 0..n /\ k # 0
  BY <1>1
<1>3. \A g : Solves(g) <=> Turns(g)
  BY DEF Start, After
<1>4. Reading(path) = read[n]
  <2>1. Reading(path) = (CHOOSE g : Solves(g))[n]
    BY Zenon DEF Reading
  <2> HIDE DEF Solves, Turns
  <2> QED BY <2>1, <1>3, Zenon
<1> HIDE DEF data, Solves
<1>5. PICK f : FoldsTo(f, Reads, Start, data, Readings)
  BY <1>1, ReadsType, FoldExists
<1>6. f \in [0..n -> Readings] /\ f[0] = Start /\ \A k \in 1..n : f[k] = Reads[data[k]][f[k - 1]]
  BY <1>5 DEF FoldsTo
<1>7. \A k \in 1..n : \A was \in Readings : Reads[data[k]][was] = After(was, data[k])
  BY <1>2 DEF Reads
<1> HIDE DEF n
<1>8. Turns(f)
  <2>1. \A k \in 1..n : f[k] = After(f[k - 1], data[k])
    BY <1>2, <1>6, <1>7
  <2>2. \A k \in 0..n : k # 0 => k \in 1..n
    BY <1>2
  <2> QED BY <1>6, <2>1, <2>2
<1>9. Turns(read)
  <2> HIDE DEF Turns
  <2> QED BY <1>8, Zenon
<1> HIDE DEF read
<1>10. read[0] = Start /\ \A k \in 1..n : read[k] = After(read[k - 1], data[k])
  <2>1. 0 \in 0..n
    BY <1>2
  <2> QED BY <1>2, <1>9, <2>1
<1>11. Iterates(read, Reads, Start, data, Readings)
  BY <1>7, <1>10 DEF Iterates, n
<1>12. \A f1 : Iterates(f1, Reads, Start, data, Readings) => Folded(Reads, Start, data) = f1[n]
  BY <1>1, ReadsType, FoldUnique DEF n
<1> QED BY <1>1, <1>4, <1>11, <1>12 DEF data

\* What a path names is how its reading ends.
LEMMA ResolvedPathIs ==
    ASSUME NEW path \in Seq(Tokens), path # <<>>
    PROVE  ResolvedPath(path) = Resolved(Folded(Reads, Start, Tail(path)))
BY ReadingIs DEF ResolvedPath, Resolved

\* The octets of a segment.
Oct(seg) == [i \in 1..Len(seg) |-> Octet(seg[i])]
\* The tokens of a segment.
Named == Tokens \ {"/"}

\* A segment has an octet for each token.
LEMMA OctType == ASSUME NEW seg \in Seq(Named) PROVE Oct(seg) \in Segs /\ Len(Oct(seg)) = Len(seg)
BY OctetType DEF Oct, Segs, Named

\* One token more is one octet more.
LEMMA OctAppend ==
    ASSUME NEW seg \in Seq(Named), NEW tok \in Named
    PROVE  Oct(Append(seg, tok)) = Append(Oct(seg), Octet(tok))
<1> DEFINE s == Append(seg, tok)
           t == Append(Oct(seg), Octet(tok))
<1>1. s \in Seq(Named) /\ Len(s) = Len(seg) + 1 /\ s[Len(seg) + 1] = tok
      /\ \A i \in 1..Len(seg) : s[i] = seg[i]
  BY AppendProperties
<1>2. Octet(tok) \in Octets
  BY OctetType DEF Named
<1>3. t \in Segs /\ Len(t) = Len(seg) + 1 /\ t[Len(seg) + 1] = Octet(tok)
      /\ \A i \in 1..Len(seg) : t[i] = Oct(seg)[i]
  BY <1>2, OctType, AppendProperties DEF Segs
<1> HIDE DEF s, t
<1>4. Oct(s) \in Segs /\ Len(Oct(s)) = Len(seg) + 1
  BY <1>1, OctType
<1>5. \A i \in 1..(Len(seg) + 1) : Oct(s)[i] = t[i]
  <2>1. \A i \in 1..(Len(seg) + 1) : i \in 1..Len(seg) \/ i = Len(seg) + 1
    OBVIOUS
  <2>2. \A i \in 1..(Len(seg) + 1) : Oct(s)[i] = Octet(s[i])
    BY <1>1 DEF Oct
  <2>3. \A i \in 1..Len(seg) : Oct(seg)[i] = Octet(seg[i])
    BY DEF Oct
  <2> QED BY <1>1, <1>3, <2>1, <2>2, <2>3
<1>6. Oct(s) = t
  BY <1>3, <1>4, <1>5, SeqEqual DEF Segs
<1> QED BY <1>6 DEF s, t

\* What is appended behind two sequences is appended to the second one.
LEMMA AppendBehind ==
    \A s, t \in Seq(Octets), a \in Octets : Append(s \o t, a) = s \o Append(t, a)
OBVIOUS

\* Reading on over a segment.
LEMMA ReadSegment ==
    ASSUME NEW st \in Readings, NEW seg \in Seq(Named)
    PROVE  Folded(Reads, st, seg) = [stack |-> st.stack, seg |-> st.seg \o Oct(seg)]
<1> DEFINE S == {s \in Seq(Named) : Folded(Reads, st, s) = [stack |-> st.stack, seg |-> st.seg \o Oct(s)]}
<1>0. st.stack \in Seq(Segs) /\ st.seg \in Segs /\ st = [stack |-> st.stack, seg |-> st.seg]
  BY DEF Readings
<1>1. <<>> \in S
  <2>1. Folded(Reads, st, <<>>) = st
    BY ReadsType, FoldEmpty
  <2>2. Oct(<<>>) = <<>>
    BY DEF Oct
  <2>3. st.seg \o <<>> = st.seg
    BY <1>0, ConcatEmptySeq DEF Segs
  <2>4. Folded(Reads, st, <<>>) = [stack |-> st.stack, seg |-> st.seg \o Oct(<<>>)]
    BY <1>0, <2>1, <2>2, <2>3
  <2>5. <<>> \in Seq(Named)
    OBVIOUS
  <2> QED BY <2>4, <2>5
<1>2. ASSUME NEW s \in S, NEW tok \in Named PROVE Append(s, tok) \in S
  <2>1. s \in Seq(Tokens) /\ s \in Seq(Named) /\ tok \in Tokens /\ tok # "/" /\ Append(s, tok) \in Seq(Named)
    BY DEF Named
  <2>2. Folded(Reads, st, Append(s, tok)) = Reads[tok][Folded(Reads, st, s)]
    BY <2>1, ReadsType, FoldAppend
  <2>3. Folded(Reads, st, s) \in Readings
    BY <2>1, ReadsType, FoldType
  <2>4. Reads[tok][Folded(Reads, st, s)] = After(Folded(Reads, st, s), tok)
    BY <2>1, <2>3 DEF Reads
  <2> DEFINE sofar == st.seg \o Oct(s)
  <2>5. Folded(Reads, st, s) = [stack |-> st.stack, seg |-> sofar]
    OBVIOUS
  <2>6. After(Folded(Reads, st, s), tok) = [stack |-> st.stack, seg |-> Append(sofar, Octet(tok))]
    <3> HIDE DEF sofar
    <3> QED BY <2>1, <2>5 DEF After
  <2>7. Append(sofar, Octet(tok)) = st.seg \o Append(Oct(s), Octet(tok))
    <3>1. st.seg \in Seq(Octets) /\ Oct(s) \in Seq(Octets) /\ Octet(tok) \in Octets
      BY <1>0, <2>1, OctType, OctetType DEF Segs
    <3> QED BY <3>1, AppendBehind
  <2>8. Folded(Reads, st, Append(s, tok)) = [stack |-> st.stack, seg |-> st.seg \o Oct(Append(s, tok))]
    <3> HIDE DEF sofar, S
    <3> QED BY <2>1, <2>2, <2>4, <2>6, <2>7, OctAppend
  <2> QED BY <2>1, <2>8
<1> HIDE DEF S
<1>3. S = Seq(Named)
  <2>1. S \in SUBSET Seq(Named)
    BY DEF S
  <2> QED BY <1>1, <1>2, <2>1, InductSeq
<1> QED BY <1>3 DEF S

\* Reading on over a token.
LEMMA ReadOne ==
    ASSUME NEW st \in Readings, NEW tok \in Tokens, NEW rest \in Seq(Tokens)
    PROVE  Folded(Reads, st, <<tok>> \o rest) = Folded(Reads, After(st, tok), rest)
<1> DEFINE one == <<tok>>
           nil == <<>>
<1>1. nil \in Seq(Tokens) /\ one \in Seq(Tokens) /\ one = Append(nil, tok)
  OBVIOUS
<1> HIDE DEF one, nil
<1>2. Folded(Reads, st, Append(nil, tok)) = Reads[tok][Folded(Reads, st, nil)]
  BY <1>1, ReadsType, FoldAppend
<1>3. Folded(Reads, st, nil) = st
  BY ReadsType, FoldEmpty DEF nil
<1>4. Reads[tok][st] = After(st, tok)
  BY DEF Reads
<1>5. \A s, t \in Seq(Tokens) : Folded(Reads, st, s \o t) = Folded(Reads, Folded(Reads, st, s), t)
  BY ReadsType, FoldConcat
<1>6. Folded(Reads, st, one \o rest) = Folded(Reads, Folded(Reads, st, one), rest)
  BY <1>1, <1>5
<1> QED BY <1>1, <1>2, <1>3, <1>4, <1>6 DEF one

\* The same, at a place in the middle of a sequence.
LEMMA ReadOn ==
    ASSUME NEW st \in Readings, NEW s \in Seq(Tokens), NEW m \in 1..Len(s)
    PROVE  Folded(Reads, st, SubSeq(s, m, Len(s)))
             = Folded(Reads, After(st, s[m]), SubSeq(s, m + 1, Len(s)))
<1> DEFINE rest == SubSeq(s, m + 1, Len(s))
<1>1. s[m] \in Tokens /\ rest \in Seq(Tokens)
  OBVIOUS
<1>2. SubSeq(s, m, Len(s)) = <<s[m]>> \o rest
  BY SubSeqRecursiveFirst
<1> HIDE DEF rest
<1> QED BY <1>1, <1>2, ReadOne DEF rest

-----------------------------------------------------------------------------
(*****************************************************************************)
(* The clean spelling of a segment: canonical tokens, and no dot segment.    *)
(* Segments with the same octets have the same clean spelling.               *)
(*****************************************************************************)
\* The tokens that _canonicalize_percent writes.
Canonical == Tokens \ {"%2E", "%2f", " ", "%"}
\* The canonical tokens of a segment.
Plainly == Canonical \ {"/"}
\* The segments that stay: canonical, and neither dot nor double dot.
CleanSegs == {s \in Seq(Plainly) : s # <<".">> /\ s # <<".", ".">>}

\* No two canonical tokens are the same octet.
LEMMA OctetsApart ==
    \A t, v \in Plainly : (Octet(t) = Octet(v) => t = v) /\ (Octet(t) = "dot" <=> t = ".")
<1>1. Plainly = {".", "%2F", "%20", "%25", "x", "pdf"}
  BY DEF Plainly, Canonical, Tokens
<1>2. /\ Octet(".") = "dot" /\ Octet("%2F") = "slash" /\ Octet("%20") = "space"
      /\ Octet("%25") = "percent" /\ Octet("x") = "x" /\ Octet("pdf") = "pdf"
  BY DEF Octet
<1> QED BY <1>1, <1>2

\* A canonical segment is a segment.
LEMMA PlainlyNamed == ASSUME NEW s \in Seq(Plainly) PROVE s \in Seq(Named) /\ s \in Seq(Canonical) /\ s \in Seq(Tokens)
<1>1. Plainly \subseteq Named /\ Plainly \subseteq Canonical /\ Plainly \subseteq Tokens
  BY DEF Plainly, Canonical, Named
<1> QED BY <1>1, SeqMonotonic

\* Canonical segments with the same octets are the same.
LEMMA OctInjective ==
    ASSUME NEW s \in Seq(Plainly), NEW t \in Seq(Plainly), Oct(s) = Oct(t)
    PROVE  s = t
<1>1. Len(s) = Len(t)
  BY PlainlyNamed, OctType
<1>2. \A i \in 1..Len(s) : s[i] \in Plainly /\ t[i] \in Plainly /\ Oct(s)[i] = Octet(s[i]) /\ Oct(t)[i] = Octet(t[i])
  BY <1>1 DEF Oct
<1>3. \A i \in 1..Len(s) : s[i] = t[i]
  BY <1>2, OctetsApart
<1> QED BY <1>1, <1>3, SeqEqual

\* The octets of a clean segment lead neither here nor up.
LEMMA CleanIsNoDot ==
    ASSUME NEW s \in CleanSegs
    PROVE  Oct(s) # Here /\ Oct(s) # Up
<1>1. s \in Seq(Plainly) /\ Len(Oct(s)) = Len(s)
  BY PlainlyNamed, OctType DEF CleanSegs
<1>2. \A i \in 1..Len(s) : s[i] \in Plainly /\ Oct(s)[i] = Octet(s[i])
  BY <1>1 DEF Oct
<1>3. ASSUME Oct(s) = Here PROVE FALSE
  <2>1. Len(s) = 1 /\ Oct(s)[1] = "dot"
    BY <1>1, <1>3 DEF Here
  <2>2. s[1] = "."
    BY <1>2, <2>1, OctetsApart
  <2>3. s = <<".">>
    BY <1>1, <2>1, <2>2
  <2> QED BY <2>3 DEF CleanSegs
<1>4. ASSUME Oct(s) = Up PROVE FALSE
  <2>1. Len(s) = 2 /\ Oct(s)[1] = "dot" /\ Oct(s)[2] = "dot"
    BY <1>1, <1>4 DEF Up
  <2>2. s[1] = "." /\ s[2] = "."
    BY <1>2, <2>1, OctetsApart
  <2>3. s = <<".", ".">>
    BY <1>1, <2>1, <2>2
  <2> QED BY <2>3 DEF CleanSegs
<1> QED BY <1>3, <1>4

-----------------------------------------------------------------------------
\* pop() undoes append().
LEMMA PoppedAppend == ASSUME NEW A, NEW s \in Seq(A), NEW a \in A PROVE Popped(Append(s, a)) = s
<1> DEFINE l == Append(s, a)
<1>1. l \in Seq(A) /\ l # <<>> /\ Len(l) = Len(s) + 1 /\ \A i \in 1..Len(s) : l[i] = s[i]
  BY AppendProperties
<1> HIDE DEF l
<1>2. Popped(l) = SubSeq(l, 1, Len(s))
  BY <1>1 DEF Popped, Front
<1>3. SubSeq(l, 1, Len(s)) \in Seq(A) /\ Len(SubSeq(l, 1, Len(s))) = Len(s)
      /\ \A i \in 1..Len(s) : SubSeq(l, 1, Len(s))[i] = s[i]
  BY <1>1
<1>4. SubSeq(l, 1, Len(s)) = s
  BY <1>3, SeqEqual
<1> QED BY <1>2, <1>4 DEF l

\* A map commutes with pop().
LEMMA MapPopped ==
    ASSUME NEW A, NEW B, NEW m \in [A -> B], NEW s \in Seq(A)
    PROVE  Mapped(m, Popped(s)) = Popped(Mapped(m, s)) /\ Popped(s) \in Seq(A)
<1>1. CASE s = <<>>
  <2>1. Mapped(m, s) = <<>>
    BY <1>1 DEF Mapped
  <2> QED BY <1>1, <2>1 DEF Popped
<1>2. CASE s # <<>>
  <2>1. PICK t \in Seq(A), a \in A : s = Append(t, a)
    BY <1>2, SequenceEmptyOrAppend
  <2>2. Popped(s) = t
    BY <2>1, PoppedAppend
  <2>3. Mapped(m, s) = Append(Mapped(m, t), m[a])
    BY <2>1, MapAppend
  <2>4. Mapped(m, t) \in Seq(B) /\ m[a] \in B
    BY MapType
  <2>5. Popped(Mapped(m, s)) = Mapped(m, t)
    BY <2>3, <2>4, PoppedAppend
  <2> QED BY <2>2, <2>5
<1> QED BY <1>1, <1>2

\* The octets of a clean segment, and its form in the output buffer.
OctOf == [s \in CleanSegs |-> Oct(s)]
SlashOf == [s \in CleanSegs |-> <<"/">> \o s]

\* Both are functions on the clean segments.
LEMMA MapsType == OctOf \in [CleanSegs -> Segs] /\ SlashOf \in [CleanSegs -> Seq(Canonical)]
<1>1. \A s \in CleanSegs : s \in Seq(Plainly)
  BY DEF CleanSegs
<1>2. \A s \in CleanSegs : Oct(s) \in Segs
  BY <1>1, PlainlyNamed, OctType
<1>3. <<"/">> \in Seq(Canonical)
  <2>1. "/" \in Canonical
    BY DEF Canonical, Tokens
  <2> QED BY <2>1
<1>4. \A s \in CleanSegs : <<"/">> \o s \in Seq(Canonical)
  BY <1>1, <1>3, PlainlyNamed, ConcatProperties
<1> QED BY <1>2, <1>4 DEF OctOf, SlashOf

-----------------------------------------------------------------------------
(*****************************************************************************)
(* _remove_dot_segments.  What its two buffers have in common with a reading *)
(* of the path: the output spells the segments read, the input is still to be*)
(* read from there.  One lemma for the turns of a dot segment, one for the   *)
(* turn that moves a segment.                                                *)
(*****************************************************************************)
\* One segment more is one value more.
LEMMA MapsAppend ==
    /\ \A s \in Seq(CleanSegs), a \in CleanSegs : Mapped(OctOf, Append(s, a)) = Append(Mapped(OctOf, s), OctOf[a])
    /\ \A s \in Seq(CleanSegs), a \in CleanSegs : Mapped(SlashOf, Append(s, a)) = Append(Mapped(SlashOf, s), SlashOf[a])
<1>1. ASSUME NEW B, NEW m \in [CleanSegs -> B], NEW s \in Seq(CleanSegs), NEW a \in CleanSegs
      PROVE  Mapped(m, Append(s, a)) = Append(Mapped(m, s), m[a])
  BY MapAppend, Zenon
<1>2. ASSUME NEW B, NEW m \in [CleanSegs -> B]
      PROVE  \A s \in Seq(CleanSegs), a \in CleanSegs : Mapped(m, Append(s, a)) = Append(Mapped(m, s), m[a])
  BY <1>1
<1> DEFINE C == Seq(Canonical)
<1>3. OctOf \in [CleanSegs -> Segs] /\ SlashOf \in [CleanSegs -> C]
  BY MapsType
<1> HIDE DEF C
<1>4. \A s \in Seq(CleanSegs), a \in CleanSegs : Mapped(OctOf, Append(s, a)) = Append(Mapped(OctOf, s), OctOf[a])
  BY <1>2, <1>3, Zenon
<1>5. \A s \in Seq(CleanSegs), a \in CleanSegs : Mapped(SlashOf, Append(s, a)) = Append(Mapped(SlashOf, s), SlashOf[a])
  BY <1>2, <1>3, Zenon
<1> QED BY <1>4, <1>5

\* The input and the output buffer.
Buffers == [input : Seq(Canonical), output : Seq(Seq(Canonical))]

\* Where a reading stands behind the slash after fin.
At(fin) == [stack |-> Mapped(OctOf, fin), seg |-> <<>>]

\* What is left to be read leads from fin to where the path leads.
Continues(path, fin, input) ==
    /\ input # <<>> /\ input[1] = "/"
    /\ ResolvedPath(path) = Resolved(Folded(Reads, At(fin), SubSeq(input, 2, Len(input))))

\* The two buffers name the page of the path between them.
TurnInv(path, b) ==
    \E fin \in Seq(CleanSegs) :
        /\ b.output = Mapped(SlashOf, fin)
        /\ \/ Continues(path, fin, b.input)
           \/ b.input = <<>> /\ fin # <<>> /\ ResolvedPath(path) = Mapped(OctOf, fin)

\* Canonical paths are paths.
LEMMA CanonicalTokens == ASSUME NEW s \in Seq(Canonical) PROVE s \in Seq(Tokens)
BY SeqMonotonic DEF Canonical

\* At is a reading.
LEMMA AtType == ASSUME NEW fin \in Seq(CleanSegs) PROVE At(fin) \in Readings /\ Mapped(OctOf, fin) \in Seq(Segs)
<1>1. Mapped(OctOf, fin) \in Seq(Segs)
  BY MapsType, MapType
<1>2. <<>> \in Segs
  BY DEF Segs
<1> QED BY <1>1, <1>2 DEF At, Readings

\* The input with its first tokens replaced by a slash.
LEMMA Shortened ==
    ASSUME NEW input \in Seq(Canonical), Len(input) >= 2, NEW m \in 3..5
    PROVE  LET rest == SubSeq(input, m, Len(input))
               new == <<"/">> \o rest
           IN  /\ new \in Seq(Canonical) /\ new # <<>> /\ new[1] = "/" /\ Len(new) < Len(input)
               /\ SubSeq(new, 2, Len(new)) = rest /\ rest \in Seq(Tokens)
<1> DEFINE rest == SubSeq(input, m, Len(input))
           new == <<"/">> \o rest
<1>1. "/" \in Canonical
  BY DEF Canonical, Tokens
<1>2. rest \in Seq(Canonical) /\ Len(rest) <= Len(input) - 2 /\ Len(rest) \in Nat
  OBVIOUS
<1>3. <<"/">> \in Seq(Canonical) /\ Len(<<"/">>) = 1 /\ <<"/">>[1] = "/"
  BY <1>1
<1> HIDE DEF rest
<1>4. new \in Seq(Canonical) /\ Len(new) = 1 + Len(rest) /\ new[1] = "/"
      /\ \A i \in 1..Len(rest) : new[i + 1] = rest[i]
  BY <1>2, <1>3
<1> HIDE DEF new
<1>5. SubSeq(new, 2, Len(new)) \in Seq(Canonical) /\ Len(SubSeq(new, 2, Len(new))) = Len(rest)
      /\ \A i \in 1..Len(rest) : SubSeq(new, 2, Len(new))[i] = new[i + 1]
  BY <1>2, <1>4
<1>6. SubSeq(new, 2, Len(new)) = rest
  BY <1>2, <1>4, <1>5, SeqEqual
<1>7. new # <<>> /\ Len(new) < Len(input)
  BY <1>2, <1>4
<1>8. rest \in Seq(Tokens)
  BY <1>2, CanonicalTokens
<1> QED BY <1>4, <1>6, <1>7, <1>8 DEF new, rest

\* startswith, element by element.
LEMMA PrefixSays ==
    ASSUME NEW A, NEW p \in Seq(A), NEW s \in Seq(A)
    PROVE  IsPrefix(p, s) <=> Len(p) <= Len(s) /\ \A i \in 1..Len(p) : s[i] = p[i]
<1>1. ASSUME Len(p) <= Len(s)
      PROVE  SubSeq(p, 1, Len(p)) = SubSeq(s, 1, Len(p)) <=> \A i \in 1..Len(p) : s[i] = p[i]
  <2> DEFINE t == SubSeq(s, 1, Len(p))
  <2>1. SubSeq(p, 1, Len(p)) = p
    BY SubSeqFull
  <2>2. t \in Seq(A) /\ Len(t) = Len(p) /\ \A i \in 1..Len(p) : t[i] = s[i]
    BY <1>1
  <2> HIDE DEF t
  <2>3. p = t <=> \A i \in 1..Len(p) : t[i] = p[i]
    BY <2>2, SeqEqual
  <2> QED BY <2>1, <2>2, <2>3 DEF t
<1> QED BY <1>1 DEF IsPrefix

\* The four turns that meet dots: the page stays.
LEMMA DotTurns ==
    ASSUME NEW path, NEW fin \in Seq(CleanSegs), NEW input \in Seq(Canonical),
           Continues(path, fin, input)
    PROVE  /\ IsPrefix(<<"/", ".", "/">>, input) \/ input = <<"/", ".">> =>
                 /\ Len(input) >= 2
                 /\ Continues(path, fin, <<"/">> \o SubSeq(input, 4, Len(input)))
           /\ IsPrefix(<<"/", ".", ".", "/">>, input) \/ input = <<"/", ".", ".">> =>
                 /\ Len(input) >= 2
                 /\ Continues(path, Popped(fin), <<"/">> \o SubSeq(input, 5, Len(input)))
<1> DEFINE st == At(fin)
           n == Len(input)
           Rest(m) == SubSeq(input, m, n)
<1>1. input \in Seq(Tokens) /\ n \in Nat
  BY CanonicalTokens
<1>2. st \in Readings /\ st.stack = Mapped(OctOf, fin) /\ st.seg = <<>> /\ Mapped(OctOf, fin) \in Seq(Segs)
  BY AtType DEF At
<1>3. ResolvedPath(path) = Resolved(Folded(Reads, st, Rest(2)))
  BY DEF Continues
<1>4. "." \in Tokens /\ "/" \in Tokens /\ Octet(".") = "dot"
  BY DEF Tokens, Octet
<1> DEFINE dot1 == [stack |-> Mapped(OctOf, fin), seg |-> Here]
           dot2 == [stack |-> Mapped(OctOf, fin), seg |-> Up]
<1>5. After(st, ".") = dot1 /\ dot1 \in Readings
  <2>1. After(st, ".") = dot1
    BY <1>2, <1>4 DEF After, Here
  <2> QED BY <1>2, <1>4, <2>1, AfterType
<1>6. After(dot1, ".") = dot2 /\ dot2 \in Readings
  <2>1. After(dot1, ".") = dot2
    BY <1>4 DEF After, Here, Up
  <2> QED BY <1>4, <1>5, <2>1, AfterType
<1>7. Popped(fin) \in Seq(CleanSegs) /\ Mapped(OctOf, Popped(fin)) = Popped(Mapped(OctOf, fin))
  <2>1. \A s \in Seq(CleanSegs) : Mapped(OctOf, Popped(s)) = Popped(Mapped(OctOf, s)) /\ Popped(s) \in Seq(CleanSegs)
    BY MapsType, MapPopped
  <2> QED BY <2>1
<1>8. After(dot1, "/") = st
  BY DEF After, Closed, At
<1>9. After(dot2, "/") = At(Popped(fin))
  BY <1>7 DEF After, Closed, At, Here, Up
<1>10. Resolved(dot1) = Append(Mapped(OctOf, fin), <<>>) /\ Resolved(st) = Append(Mapped(OctOf, fin), <<>>)
       /\ Resolved(dot2) = Append(Mapped(OctOf, Popped(fin)), <<>>)
       /\ Resolved(At(Popped(fin))) = Append(Mapped(OctOf, Popped(fin)), <<>>)
  BY <1>7 DEF Resolved, Closed, At, Here, Up
<1> DEFINE st2 == At(Popped(fin))
<1>20. Resolved(dot1) = Resolved(st) /\ Resolved(dot2) = Resolved(st2)
  BY <1>10, Zenon
<1>11. n >= 1 /\ \A s \in Readings, m \in 1..n : Folded(Reads, s, Rest(m)) = Folded(Reads, After(s, input[m]), Rest(m + 1))
  BY <1>1, ReadOn DEF Continues
<1>12. \A s \in Readings, m \in Nat : m > n => Folded(Reads, s, Rest(m)) = s
  <2> TAKE s \in Readings, m \in Nat
  <2>1. m > n => Rest(m) = <<>>
    BY <1>1, SubSeqEmpty
  <2> HIDE DEF n
  <2> QED BY <2>1, ReadsType, FoldEmpty
<1>13. ASSUME Len(input) >= 2, NEW m \in 3..5, NEW f, 
              ResolvedPath(path) = Resolved(Folded(Reads, At(f), Rest(m)))
       PROVE  Continues(path, f, <<"/">> \o Rest(m))
  BY <1>13, Shortened DEF Continues
<1> HIDE DEF Rest, dot1, dot2, st
<1>21. \A p, s \in Seq(Tokens) : IsPrefix(p, s) => Len(p) <= Len(s) /\ \A i \in 1..Len(p) : s[i] = p[i]
  BY PrefixSays
<1>14. ASSUME IsPrefix(<<"/", ".", "/">>, input)
       PROVE  n >= 3 /\ input[2] = "." /\ input[3] = "/"
  <2> DEFINE p == <<"/", ".", "/">>
  <2>1. p \in Seq(Tokens) /\ Len(p) = 3 /\ p[2] = "." /\ p[3] = "/"
    BY <1>4
  <2> HIDE DEF p
  <2>2. IsPrefix(p, input)
    BY <1>14 DEF p
  <2>3. Len(p) <= Len(input) /\ \A i \in 1..Len(p) : input[i] = p[i]
    BY <1>1, <2>1, <2>2, <1>21
  <2> QED BY <2>1, <2>3
<1>15. ASSUME IsPrefix(<<"/", ".", ".", "/">>, input)
       PROVE  n >= 4 /\ input[2] = "." /\ input[3] = "." /\ input[4] = "/"
  <2> DEFINE p == <<"/", ".", ".", "/">>
  <2>1. p \in Seq(Tokens) /\ Len(p) = 4 /\ p[2] = "." /\ p[3] = "." /\ p[4] = "/"
    BY <1>4
  <2> HIDE DEF p
  <2>2. IsPrefix(p, input)
    BY <1>15 DEF p
  <2>3. Len(p) <= Len(input) /\ \A i \in 1..Len(p) : input[i] = p[i]
    BY <1>1, <2>1, <2>2, <1>21
  <2> QED BY <2>1, <2>3
<1>16. ASSUME IsPrefix(<<"/", ".", "/">>, input)
       PROVE  n >= 2 /\ ResolvedPath(path) = Resolved(Folded(Reads, At(fin), Rest(4)))
  <2>1. Folded(Reads, st, Rest(2)) = Folded(Reads, dot1, Rest(3))
    BY <1>2, <1>5, <1>11, <1>14, <1>16
  <2>2. Folded(Reads, dot1, Rest(3)) = Folded(Reads, st, Rest(4))
    BY <1>5, <1>8, <1>11, <1>14, <1>16
  <2> QED BY <1>3, <1>14, <1>16, <2>1, <2>2 DEF st
<1>17. ASSUME input = <<"/", ".">>
       PROVE  n >= 2 /\ ResolvedPath(path) = Resolved(Folded(Reads, At(fin), Rest(4)))
  <2>1. n = 2 /\ input[2] = "."
    BY <1>17
  <2>2. Folded(Reads, st, Rest(2)) = Folded(Reads, dot1, Rest(3))
    BY <1>2, <1>5, <1>11, <2>1
  <2>3. Folded(Reads, dot1, Rest(3)) = dot1 /\ Folded(Reads, st, Rest(4)) = st
    BY <1>2, <1>5, <1>12, <2>1
  <2> QED BY <1>3, <1>20, <2>1, <2>2, <2>3 DEF st
<1>18. ASSUME IsPrefix(<<"/", ".", ".", "/">>, input)
       PROVE  n >= 2 /\ ResolvedPath(path) = Resolved(Folded(Reads, At(Popped(fin)), Rest(5)))
  <2>1. Folded(Reads, st, Rest(2)) = Folded(Reads, dot1, Rest(3))
    BY <1>2, <1>5, <1>11, <1>15, <1>18
  <2>2. Folded(Reads, dot1, Rest(3)) = Folded(Reads, dot2, Rest(4))
    BY <1>5, <1>6, <1>11, <1>15, <1>18
  <2>3. Folded(Reads, dot2, Rest(4)) = Folded(Reads, At(Popped(fin)), Rest(5))
    BY <1>6, <1>9, <1>11, <1>15, <1>18
  <2> QED BY <1>3, <1>15, <1>18, <2>1, <2>2, <2>3
<1>19. ASSUME input = <<"/", ".", ".">>
       PROVE  n >= 2 /\ ResolvedPath(path) = Resolved(Folded(Reads, At(Popped(fin)), Rest(5)))
  <2>1. n = 3 /\ input[2] = "." /\ input[3] = "."
    BY <1>19
  <2>2. Folded(Reads, st, Rest(2)) = Folded(Reads, dot1, Rest(3))
    BY <1>2, <1>5, <1>11, <2>1
  <2>3. Folded(Reads, dot1, Rest(3)) = Folded(Reads, dot2, Rest(4))
    BY <1>5, <1>6, <1>11, <2>1
  <2>4. At(Popped(fin)) \in Readings
    BY <1>7, AtType
  <2>5. Folded(Reads, dot2, Rest(4)) = dot2 /\ Folded(Reads, At(Popped(fin)), Rest(5)) = At(Popped(fin))
    BY <1>6, <1>12, <2>1, <2>4
  <2> QED BY <1>3, <1>20, <2>1, <2>2, <2>3, <2>5
<1> QED BY <1>13, <1>16, <1>17, <1>18, <1>19 DEF Rest

\* Where the last branch of the loop cuts.
LEMMA CutIs ==
    ASSUME NEW input \in Seq(Canonical), input # <<>>, NEW output,
           ~(IsPrefix(<<"/", ".", "/">>, input) \/ input = <<"/", ".">>),
           ~(IsPrefix(<<"/", ".", ".", "/">>, input) \/ input = <<"/", ".", ".">>)
    PROVE  \E cut \in 1..Len(input) :
              /\ Turn(input, output) = [input |-> SubSeq(input, cut + 1, Len(input)),
                                        output |-> Append(output, SubSeq(input, 1, cut))]
              /\ \A i \in 2..cut : input[i] # "/"
              /\ cut < Len(input) => input[cut + 1] = "/"
<1> DEFINE n == Len(input)
           I == {i \in 2..n : input[i] = "/"}
           slash == IF I # {} THEN Min(I) ELSE 0
           cut == IF slash = 0 THEN n ELSE slash - 1
<1>1. n \in Nat /\ n >= 1
  OBVIOUS
<1>2. Turn(input, output) = [input |-> SubSeq(input, cut + 1, n),
                             output |-> Append(output, SubSeq(input, 1, cut))]
  BY DEF Turn, SelectInSubSeq
<1> DEFINE Ok(c) == /\ c \in 1..n
                    /\ \A i \in 2..c : input[i] # "/"
                    /\ c < n => input[c + 1] = "/"
<1>3. ASSUME I = {} PROVE Ok(cut)
  <2>1. cut = n
    BY <1>3
  <2>2. \A i \in 2..n : input[i] # "/"
    BY <1>3
  <2> HIDE DEF cut
  <2> QED BY <1>1, <2>1, <2>2
<1>4. ASSUME I # {} PROVE Ok(cut)
  <2>1. I \in SUBSET Nat
    BY <1>1
  <2>2. \E k \in I : \A m \in I : k <= m
    <3> HIDE DEF I
    <3> QED BY <1>4, <2>1, Smallest
  <2>3. slash \in I /\ \A m \in I : slash <= m
    <3> HIDE DEF I
    <3> QED BY <1>4, <2>2 DEF Min
  <2> HIDE DEF slash
  <2>4. slash \in 2..n /\ input[slash] = "/" /\ \A i \in 2..(slash - 1) : input[i] # "/"
    BY <1>1, <2>3
  <2>5. cut = slash - 1
    BY <2>4
  <2> HIDE DEF cut
  <2> QED BY <1>1, <2>4, <2>5
<1>5. Ok(cut)
  BY <1>3, <1>4
<1> HIDE DEF cut, I
<1> QED BY <1>2, <1>5

\* The last branch moves a clean segment from the input to the output.
LEMMA MoveTurn ==
    ASSUME NEW path, NEW fin \in Seq(CleanSegs), NEW input \in Seq(Canonical), NEW output,
           Continues(path, fin, input),
           ~(IsPrefix(<<"/", ".", "/">>, input) \/ input = <<"/", ".">>),
           ~(IsPrefix(<<"/", ".", ".", "/">>, input) \/ input = <<"/", ".", ".">>)
    PROVE  \E seg \in CleanSegs, rest \in Seq(Canonical) :
              /\ Turn(input, output) = [input |-> rest, output |-> Append(output, SlashOf[seg])]
              /\ Len(rest) < Len(input)
              /\ \/ rest = <<>> /\ ResolvedPath(path) = Mapped(OctOf, Append(fin, seg))
                 \/ Continues(path, Append(fin, seg), rest)
<1> DEFINE n == Len(input)
<1>1. input # <<>> /\ input[1] = "/" /\ input \in Seq(Tokens) /\ n \in Nat /\ n >= 1
  BY CanonicalTokens DEF Continues
<1>2. PICK cut \in 1..n :
        /\ Turn(input, output) = [input |-> SubSeq(input, cut + 1, n),
                                  output |-> Append(output, SubSeq(input, 1, cut))]
        /\ \A i \in 2..cut : input[i] # "/"
        /\ cut < n => input[cut + 1] = "/"
  BY <1>1, CutIs
<1>21. n = cut \/ n > cut
  BY <1>1
<1> DEFINE seg == SubSeq(input, 2, cut)
           rest == SubSeq(input, cut + 1, n)
<1>3. seg \in Seq(Plainly) /\ Len(seg) = cut - 1 /\ \A i \in 1..(cut - 1) : seg[i] = input[i + 1]
  <2>1. \A i \in 2..cut : input[i] \in Plainly
    BY <1>2 DEF Plainly
  <2>2. 2 \in Int /\ cut \in Int /\ cut >= 1
    BY <1>1
  <2> QED BY <2>1, <2>2, SubSeqProperties
<1>4. rest \in Seq(Canonical) /\ Len(rest) = n - cut
  BY <1>1
<1>5. SubSeq(input, 1, cut) = <<"/">> \o seg
  <2>1. SubSeq(input, 1, cut) = <<input[1]>> \o SubSeq(input, 1 + 1, cut)
    BY <1>1, SubSeqRecursiveFirst
  <2> QED BY <1>1, <2>1
<1>6. seg # <<".">>
  <2> SUFFICES ASSUME seg = <<".">> PROVE FALSE
    OBVIOUS
  <2>0. Len(seg) = 1 /\ seg[1] = "."
    <3> HIDE DEF seg
    <3> QED OBVIOUS
  <2>1. cut = 2 /\ input[2] = "."
    <3> HIDE DEF seg
    <3> QED BY <1>1, <1>3, <2>0
  <2>2. CASE n = 2
    <3>1. input = <<"/", ".">>
      BY <1>1, <2>1, <2>2
    <3> QED BY <3>1
  <2>3. CASE n > 2
    <3> DEFINE p == <<"/", ".", "/">>
    <3>0. "/" \in Canonical /\ "." \in Canonical
      BY DEF Canonical, Tokens
    <3>1. p \in Seq(Canonical) /\ Len(p) = 3 /\ p[1] = "/" /\ p[2] = "." /\ p[3] = "/"
      BY <3>0
    <3>2. input[3] = "/"
      BY <1>2, <2>1, <2>3
    <3> HIDE DEF p
    <3>3. \A i \in 1..Len(p) : input[i] = p[i]
      BY <1>1, <2>1, <3>1, <3>2
    <3>4. IsPrefix(p, input)
      <4>1. \A q, t \in Seq(Canonical) :
              Len(q) <= Len(t) /\ (\A i \in 1..Len(q) : t[i] = q[i]) => IsPrefix(q, t)
        BY PrefixSays
      <4>2. Len(p) <= n
        BY <1>1, <2>3, <3>1
      <4> HIDE DEF seg
      <4> QED BY <3>1, <3>3, <4>1, <4>2
    <3> QED BY <3>4 DEF p
  <2>4. n = 2 \/ n > 2
    BY <1>21, <2>1
  <2> QED BY <2>2, <2>3, <2>4
<1>7. seg # <<".", ".">>
  <2> SUFFICES ASSUME seg = <<".", ".">> PROVE FALSE
    OBVIOUS
  <2>0. Len(seg) = 2 /\ seg[1] = "." /\ seg[2] = "."
    <3> HIDE DEF seg
    <3> QED OBVIOUS
  <2>1. cut = 3 /\ input[2] = "." /\ input[3] = "."
    <3> HIDE DEF seg
    <3> QED BY <1>1, <1>3, <2>0
  <2>2. CASE n = 3
    <3>1. input = <<"/", ".", ".">>
      BY <1>1, <2>1, <2>2
    <3> QED BY <3>1
  <2>3. CASE n > 3
    <3> DEFINE p == <<"/", ".", ".", "/">>
    <3>0. "/" \in Canonical /\ "." \in Canonical
      BY DEF Canonical, Tokens
    <3>1. p \in Seq(Canonical) /\ Len(p) = 4 /\ p[1] = "/" /\ p[2] = "." /\ p[3] = "." /\ p[4] = "/"
      BY <3>0
    <3>2. input[4] = "/"
      BY <1>2, <2>1, <2>3
    <3> HIDE DEF p
    <3>3. \A i \in 1..Len(p) : input[i] = p[i]
      BY <1>1, <2>1, <3>1, <3>2
    <3>4. IsPrefix(p, input)
      <4>1. \A q, t \in Seq(Canonical) :
              Len(q) <= Len(t) /\ (\A i \in 1..Len(q) : t[i] = q[i]) => IsPrefix(q, t)
        BY PrefixSays
      <4>2. Len(p) <= n
        BY <1>1, <2>3, <3>1
      <4> HIDE DEF seg
      <4> QED BY <3>1, <3>3, <4>1, <4>2
    <3> QED BY <3>4 DEF p
  <2>4. n = 3 \/ n > 3
    BY <1>21, <2>1
  <2> QED BY <2>2, <2>3, <2>4
<1>8. SubSeq(input, 2, n) = seg \o rest
  <2>1. 2 \in 1..(n + 1) /\ cut \in (2 - 1)..n /\ n \in cut..n
    BY <1>1
  <2> QED BY <2>1, ConcatAdjacentSubSeq
<1> HIDE DEF seg
<1>9. seg \in CleanSegs
  BY <1>3, <1>6, <1>7 DEF CleanSegs
<1> DEFINE st == At(fin)
           end == [stack |-> Mapped(OctOf, fin), seg |-> Oct(seg)]
<1>10. seg \in Seq(Named) /\ seg \in Seq(Tokens) /\ Oct(seg) \in Segs
  BY <1>3, PlainlyNamed, OctType
<1>11. st \in Readings /\ end \in Readings
  BY <1>10, AtType DEF Readings
<1>12. Folded(Reads, st, seg) = end
  <2>1. Folded(Reads, st, seg) = [stack |-> st.stack, seg |-> st.seg \o Oct(seg)]
    BY <1>10, <1>11, ReadSegment
  <2>2. <<>> \o Oct(seg) = Oct(seg)
    BY <1>10, ConcatEmptySeq DEF Segs
  <2> QED BY <2>1, <2>2 DEF At
<1> HIDE DEF end, st
<1>13. ResolvedPath(path) = Resolved(Folded(Reads, end, rest))
  <2>1. \A s, t \in Seq(Tokens) : Folded(Reads, st, s \o t) = Folded(Reads, Folded(Reads, st, s), t)
    BY <1>11, ReadsType, FoldConcat
  <2>2. rest \in Seq(Tokens)
    BY <1>4, CanonicalTokens
  <2> HIDE DEF rest
  <2>3. Folded(Reads, st, seg \o rest) = Folded(Reads, end, rest)
    BY <1>10, <1>12, <2>1, <2>2
  <2> QED BY <1>8, <2>3 DEF Continues, st
<1>14. Mapped(OctOf, Append(fin, seg)) = Append(Mapped(OctOf, fin), Oct(seg))
  <2>1. \A s \in Seq(CleanSegs), a \in CleanSegs : Mapped(OctOf, Append(s, a)) = Append(Mapped(OctOf, s), OctOf[a])
    BY MapsAppend
  <2> QED BY <1>9, <2>1 DEF OctOf
<1>15. Oct(seg) # Here /\ Oct(seg) # Up
  BY <1>9, CleanIsNoDot
<1> DEFINE Goal(r) == /\ Len(r) < Len(input)
                      /\ \/ r = <<>> /\ ResolvedPath(path) = Mapped(OctOf, Append(fin, seg))
                         \/ Continues(path, Append(fin, seg), r)
<1>20. Len(rest) < n
  BY <1>1, <1>4
<1>16. ASSUME cut = n PROVE Goal(rest)
  <2>1. rest = <<>>
    BY <1>4, <1>16
  <2>2. Folded(Reads, end, rest) = end
    BY <1>11, <2>1, ReadsType, FoldEmpty
  <2>3. Resolved(end) = Append(Mapped(OctOf, fin), Oct(seg))
    BY <1>15 DEF Resolved, end
  <2> HIDE DEF rest
  <2> QED BY <1>13, <1>14, <1>20, <2>1, <2>2, <2>3
<1>17. ASSUME cut < n PROVE Goal(rest)
  <2>0. rest[1] = input[cut + 1]
    BY <1>1, <1>17
  <2>1. rest # <<>> /\ rest[1] = "/"
    <3> HIDE DEF rest
    <3> QED BY <1>1, <1>2, <1>4, <1>17, <2>0
  <2>2. SubSeq(rest, 2, Len(rest)) = SubSeq(input, cut + 2, n)
    <3> DEFINE l == SubSeq(rest, 2, Len(rest))
               r == SubSeq(input, cut + 2, n)
    <3>0. \A i \in 1..(n - cut) : rest[i] = input[i + cut]
      BY <1>1
    <3>1. r \in Seq(Canonical) /\ Len(r) = n - cut - 1 /\ \A i \in 1..(n - cut - 1) : r[i] = input[i + cut + 1]
      BY <1>1, <1>17
    <3> HIDE DEF rest, r
    <3>2. l \in Seq(Canonical) /\ Len(l) = n - cut - 1 /\ \A i \in 1..(n - cut - 1) : l[i] = rest[i + 1]
      BY <1>1, <1>4, <1>17
    <3> HIDE DEF l
    <3>3. \A i \in 1..(n - cut - 1) : l[i] = r[i]
      BY <1>1, <1>17, <3>0, <3>1, <3>2
    <3> QED BY <3>1, <3>2, <3>3, SeqEqual DEF l, r
  <2>3. After(end, "/") = At(Append(fin, seg))
    BY <1>14, <1>15 DEF After, Closed, At, end
  <2>4. Folded(Reads, end, rest) = Folded(Reads, After(end, input[cut + 1]), SubSeq(input, cut + 2, n))
    <3>1. \A m \in 1..n : Folded(Reads, end, SubSeq(input, m, n)) = Folded(Reads, After(end, input[m]), SubSeq(input, m + 1, n))
      BY <1>1, <1>11, ReadOn
    <3>2. cut + 1 \in 1..n /\ (cut + 1) + 1 = cut + 2
      BY <1>1, <1>17
    <3> QED BY <3>1, <3>2
  <2>5. Continues(path, Append(fin, seg), rest)
    BY <1>2, <1>13, <1>17, <2>1, <2>2, <2>3, <2>4 DEF Continues
  <2> QED BY <1>20, <2>5
<1>18. Goal(rest)
  BY <1>1, <1>16, <1>17
<1>19. Turn(input, output) = [input |-> rest, output |-> Append(output, SlashOf[seg])]
  BY <1>2, <1>5, <1>9 DEF SlashOf
<1> HIDE DEF rest, n
<1> QED BY <1>4, <1>9, <1>18, <1>19

-----------------------------------------------------------------------------
(*****************************************************************************)
(* The turns together: the loop ends with the whole input moved.             *)
(*****************************************************************************)
\* A turn keeps the page, and takes a token at least.
LEMMA TurnKeeps ==
    ASSUME NEW path, NEW b \in Buffers, TurnInv(path, b)
    PROVE  LET next == Turn(b.input, b.output)
           IN  /\ next \in Buffers /\ TurnInv(path, next)
               /\ IF b.input = <<>> THEN next.input = <<>> ELSE Len(next.input) < Len(b.input)
<1> DEFINE input == b.input
           output == b.output
           next == Turn(input, output)
           dot == IsPrefix(<<"/", ".", "/">>, input) \/ input = <<"/", ".">>
           up == IsPrefix(<<"/", ".", ".", "/">>, input) \/ input = <<"/", ".", ".">>
           here == <<"/">> \o SubSeq(input, 4, Len(input))
           back == <<"/">> \o SubSeq(input, 5, Len(input))
<1>1. input \in Seq(Canonical) /\ output \in Seq(Seq(Canonical)) /\ b = [input |-> input, output |-> output]
  BY DEF Buffers
<1>2. PICK fin \in Seq(CleanSegs) :
        /\ output = Mapped(SlashOf, fin)
        /\ \/ Continues(path, fin, input)
           \/ input = <<>> /\ fin # <<>> /\ ResolvedPath(path) = Mapped(OctOf, fin)
  BY DEF TurnInv
<1> DEFINE Goal(in, f) == /\ in \in Seq(Canonical) /\ Len(in) < Len(input) /\ f \in Seq(CleanSegs)
                          /\ next = [input |-> in, output |-> Mapped(SlashOf, f)]
                          /\ \/ Continues(path, f, in)
                             \/ in = <<>> /\ f # <<>> /\ ResolvedPath(path) = Mapped(OctOf, f)
<1>3. ASSUME NEW in, NEW f, Goal(in, f)
      PROVE  next \in Buffers /\ TurnInv(path, next) /\ Len(next.input) < Len(input)
  <2>1. Mapped(SlashOf, f) \in Seq(Seq(Canonical))
    BY <1>3, MapsType, MapType
  <2> HIDE DEF next, input
  <2> QED BY <1>3, <2>1 DEF Buffers, TurnInv
<1>4. CASE input = <<>>
  <2>1. next = b
    BY <1>1, <1>4 DEF Turn
  <2> QED BY <1>4, <2>1
<1>5. ASSUME input # <<>>, dot PROVE Goal(here, fin)
  <2>1. Continues(path, fin, input)
    BY <1>2, <1>5
  <2>2. Len(input) >= 2 /\ Continues(path, fin, here)
    <3> HIDE DEF input
    <3> QED BY <1>1, <1>5, <2>1, DotTurns
  <2>3. here \in Seq(Canonical) /\ Len(here) < Len(input)
    <3> HIDE DEF input
    <3> QED BY <1>1, <2>2, Shortened
  <2>4. next = [input |-> here, output |-> output]
    <3> HIDE DEF input, output
    <3> QED BY <1>5 DEF Turn
  <2> HIDE DEF input, output, here, next
  <2> QED BY <1>2, <2>2, <2>3, <2>4
<1>6. ASSUME input # <<>>, ~dot, up PROVE Goal(back, Popped(fin))
  <2>1. Continues(path, fin, input)
    BY <1>2, <1>6
  <2>2. Len(input) >= 2 /\ Continues(path, Popped(fin), back)
    <3> HIDE DEF input
    <3> QED BY <1>1, <1>6, <2>1, DotTurns
  <2>3. back \in Seq(Canonical) /\ Len(back) < Len(input)
    <3> HIDE DEF input
    <3> QED BY <1>1, <2>2, Shortened
  <2>4. next = [input |-> back, output |-> Popped(output)]
    <3> HIDE DEF input, output
    <3> QED BY <1>6 DEF Turn
  <2>5. Popped(fin) \in Seq(CleanSegs) /\ Mapped(SlashOf, Popped(fin)) = Popped(Mapped(SlashOf, fin))
    <3>1. \A s \in Seq(CleanSegs) : Mapped(SlashOf, Popped(s)) = Popped(Mapped(SlashOf, s)) /\ Popped(s) \in Seq(CleanSegs)
      <4> DEFINE B == Seq(Canonical)
      <4>1. SlashOf \in [CleanSegs -> B]
        BY MapsType
      <4> HIDE DEF B
      <4> QED BY <4>1, MapPopped
    <3> QED BY <3>1
  <2> HIDE DEF input, output, back, next
  <2> QED BY <1>2, <2>2, <2>3, <2>4, <2>5
<1>7. ASSUME input # <<>>, ~dot, ~up PROVE \E in, f : Goal(in, f)
  <2>1. Continues(path, fin, input)
    BY <1>2, <1>7
  <2>2. PICK seg \in CleanSegs, rest \in Seq(Canonical) :
              /\ next = [input |-> rest, output |-> Append(output, SlashOf[seg])]
              /\ Len(rest) < Len(input)
              /\ \/ rest = <<>> /\ ResolvedPath(path) = Mapped(OctOf, Append(fin, seg))
                 \/ Continues(path, Append(fin, seg), rest)
    <3> HIDE DEF input, output
    <3> QED BY <1>1, <1>7, <2>1, MoveTurn
  <2>3. Mapped(SlashOf, Append(fin, seg)) = Append(output, SlashOf[seg])
    <3>1. \A s \in Seq(CleanSegs), a \in CleanSegs : Mapped(SlashOf, Append(s, a)) = Append(Mapped(SlashOf, s), SlashOf[a])
      BY MapsAppend
    <3> QED BY <1>2, <3>1
  <2>4. Append(fin, seg) \in Seq(CleanSegs) /\ Append(fin, seg) # <<>>
    BY AppendProperties
  <2> DEFINE f == Append(fin, seg)
  <2> HIDE DEF input, output, next, f
  <2>5. Goal(rest, f)
    BY <2>2, <2>3, <2>4 DEF f
  <2> QED BY <2>5
<1> HIDE DEF Goal, dot, up, here, back, next
<1>8. CASE input # <<>>
  BY <1>3, <1>5, <1>6, <1>7, <1>8 DEF next
<1> QED BY <1>4, <1>8 DEF next

\* The loop ends with the whole input moved: its output is clean, and names the
\* page of the path.
LEMMA DotsRemoved ==
    ASSUME NEW path \in Seq(Canonical), path # <<>>, path[1] = "/"
    PROVE  \E fin \in Seq(CleanSegs) :
              /\ fin # <<>>
              /\ RemoveDotSegments(path) = FlattenSeq(Mapped(SlashOf, fin))
              /\ ResolvedPath(path) = Mapped(OctOf, fin)
<1> DEFINE n == Len(path)
           B == {b \in Buffers : TurnInv(path, b)}
           base == [input |-> path, output |-> <<>>]
           step == [tok \in Canonical |-> [b \in B |-> Turn(b.input, b.output)]]
           Solves(g) == g = [k \in 0..n |-> IF k = 0 THEN [input |-> path, output |-> <<>>]
                                            ELSE LET was == g[k - 1] IN Turn(was.input, was.output)]
           buffers == CHOOSE g : Solves(g)
<1>1. n \in Nat /\ \A k \in 1..n : path[k] \in Canonical /\ k \in 0..n /\ k - 1 \in 0..n /\ k # 0
  OBVIOUS
<1>2. step \in [Canonical -> [B -> B]]
  BY TurnKeeps
<1>3. base \in B
  <2> DEFINE nil == <<>>
  <2>1. Mapped(OctOf, nil) = <<>> /\ Mapped(SlashOf, nil) = <<>> /\ nil \in Seq(CleanSegs)
    BY DEF Mapped
  <2>2. ResolvedPath(path) = Resolved(Folded(Reads, Start, Tail(path)))
    BY CanonicalTokens, ResolvedPathIs
  <2>3. Tail(path) = SubSeq(path, 2, Len(path))
    BY HeadTailProperties
  <2>4. At(nil) = Start
    BY <2>1 DEF At, Start
  <2>5. Continues(path, nil, path)
    BY <2>2, <2>3, <2>4 DEF Continues
  <2>6. base \in Buffers
    BY DEF Buffers
  <2>7. TurnInv(path, base)
    <3>1. base.input = path /\ base.output = <<>>
      OBVIOUS
    <3> HIDE DEF base, nil
    <3> QED BY <2>1, <2>5, <3>1 DEF TurnInv
  <2> QED BY <2>6, <2>7
<1>4. PICK f : FoldsTo(f, step, base, path, B)
  <2> HIDE DEF step, base, B
  <2> QED BY <1>2, <1>3, FoldExists
<1>5. f \in [0..n -> B] /\ f[0] = base /\ \A k \in 1..n : f[k] = Turn(f[k - 1].input, f[k - 1].output)
  <2>1. f \in [0..n -> B] /\ f[0] = base /\ \A k \in 1..n : f[k] = step[path[k]][f[k - 1]]
    BY <1>4 DEF FoldsTo
  <2> HIDE DEF B, base, n
  <2> QED BY <1>1, <2>1
<1>6. Solves(f)
  <2>1. \A k \in 0..n : k # 0 => k \in 1..n
    BY <1>1
  <2> HIDE DEF B, n
  <2> QED BY <1>5, <2>1
<1>7. Solves(buffers)
  <2> HIDE DEF Solves
  <2> QED BY <1>6, Zenon
<1>8. buffers[n] = f[n]
  <2> HIDE DEF buffers
  <2>1. Iterates(buffers, step, base, path, B)
    <3>1. buffers[0] = base /\ \A k \in 1..n : buffers[k] = Turn(buffers[k - 1].input, buffers[k - 1].output)
      <4>1. 0 \in 0..n
        BY <1>1
      <4> HIDE DEF n
      <4> QED BY <1>1, <1>7, <4>1
    <3>2. \A k \in 1..n : buffers[k - 1] \in B => step[path[k]][buffers[k - 1]] = Turn(buffers[k - 1].input, buffers[k - 1].output)
      <4> HIDE DEF B, n
      <4> QED BY <1>1
    <3> HIDE DEF step, base, B
    <3> QED BY <3>1, <3>2 DEF Iterates
  <2>2. Folded(step, base, path) = buffers[n]
    <3> HIDE DEF step, base, B
    <3>1. \A g : Iterates(g, step, base, path, B) => Folded(step, base, path) = g[Len(path)]
      BY <1>2, <1>3, FoldUnique
    <3> QED BY <2>1, <3>1
  <2>3. Folded(step, base, path) = f[n]
    BY <1>4 DEF FoldsTo
  <2> QED BY <2>2, <2>3
<1>9. \A k \in 0..n : Len(f[k].input) <= n - k
  <2> DEFINE S == {k \in Nat : k <= n => Len(f[k].input) <= n - k}
  <2>1. 0 \in S
    BY <1>1, <1>5
  <2>2. ASSUME NEW k \in S PROVE k + 1 \in S
    <3> SUFFICES ASSUME k + 1 <= n PROVE Len(f[k + 1].input) <= n - (k + 1)
      OBVIOUS
    <3>1. k + 1 \in 1..n /\ k \in 0..n /\ (k + 1) - 1 = k
      BY <1>1
    <3>2. Len(f[k].input) <= n - k /\ k \in Nat
      BY <3>1, <1>1
    <3> HIDE DEF S
    <3>3. f[k + 1] = Turn(f[k].input, f[k].output) /\ f[k] \in B
      <4> HIDE DEF n, B, base
      <4> QED BY <1>5, <3>1
    <3>4. IF f[k].input = <<>> THEN f[k + 1].input = <<>> ELSE Len(f[k + 1].input) < Len(f[k].input)
      <4>1. \A b \in Buffers : TurnInv(path, b) => IF b.input = <<>> THEN Turn(b.input, b.output).input = <<>>
                                     ELSE Len(Turn(b.input, b.output).input) < Len(b.input)
        BY TurnKeeps
      <4> QED BY <3>3, <4>1
    <3>5. f[k].input \in Seq(Canonical) /\ f[k + 1].input \in Seq(Canonical)
      <4>1. k + 1 \in 0..n
        BY <1>1, <3>1
      <4>2. f[k] \in Buffers /\ f[k + 1] \in Buffers
        <5> HIDE DEF n
        <5> QED BY <1>5, <3>1, <4>1
      <4> QED BY <4>2 DEF Buffers
    <3>6. Len(f[k].input) \in Nat /\ Len(f[k + 1].input) \in Nat /\ (f[k + 1].input = <<>> => Len(f[k + 1].input) = 0)
      <4>1. \A s \in Seq(Canonical) : Len(s) \in Nat /\ (s = <<>> => Len(s) = 0)
        OBVIOUS
      <4> QED BY <3>5, <4>1
    <3> HIDE DEF n
    <3>7. \A l, m \in Nat : l <= n - k /\ m < l => m <= n - (k + 1)
      BY <1>1, <3>2
    <3>8. n - (k + 1) >= 0
      BY <1>1, <3>1
    <3> QED BY <3>2, <3>4, <3>6, <3>7, <3>8
  <2>3. S = Nat
    <3> HIDE DEF S
    <3>1. S \in SUBSET Nat
      BY DEF S
    <3> QED BY <2>1, <2>2, <3>1, Induct
  <2> HIDE DEF n
  <2>4. \A k \in 0..n : k \in S /\ k <= n
    BY <2>3, <1>1
  <2> QED BY <2>4
<1>10. f[n] \in Buffers /\ TurnInv(path, f[n]) /\ f[n].input = <<>>
  <2>1. n \in 0..n
    BY <1>1
  <2>2. f[n] \in Buffers /\ TurnInv(path, f[n])
    <3> HIDE DEF n
    <3> QED BY <1>5, <2>1
  <2>3. f[n].input \in Seq(Canonical)
    BY <2>2 DEF Buffers
  <2>4. Len(f[n].input) <= 0
    <3> HIDE DEF n
    <3> QED BY <1>1, <1>9, <2>1
  <2> HIDE DEF n
  <2> QED BY <2>2, <2>3, <2>4
<1>11. RemoveDotSegments(path) = FlattenSeq(buffers[n].output)
  BY Zenon DEF RemoveDotSegments
<1> HIDE DEF n, buffers
<1> QED BY <1>8, <1>10, <1>11 DEF TurnInv, Continues

-----------------------------------------------------------------------------
(*****************************************************************************)
(* The output of the loop, written out as one path again.                    *)
(*****************************************************************************)
\* The first slash is read like the others, from here.
Zero == [stack |-> <<>>, seg |-> Here]

\* Zero is a reading, and the first slash makes Start of it.
LEMMA ZeroType == Zero \in Readings /\ After(Zero, "/") = Start
BY DEF Zero, Readings, Segs, Octets, Here, After, Closed, Start

\* Read from Zero, a path is read with its first slash.
LEMMA ReadAll ==
    ASSUME NEW path \in Seq(Tokens), path # <<>>, path[1] = "/"
    PROVE  ResolvedPath(path) = Resolved(Folded(Reads, Zero, path))
<1>1. Len(path) \in Nat /\ 1 \in 1..Len(path)
  OBVIOUS
<1>2. Folded(Reads, Zero, SubSeq(path, 1, Len(path))) = Folded(Reads, After(Zero, path[1]), SubSeq(path, 1 + 1, Len(path)))
  BY <1>1, ZeroType, ReadOn
<1>3. SubSeq(path, 1, Len(path)) = path
  BY SubSeqFull
<1>4. Tail(path) = SubSeq(path, 1 + 1, Len(path))
  BY HeadTailProperties
<1> QED BY <1>2, <1>3, <1>4, ZeroType, ResolvedPathIs

\* The path written out of its segments.
Flat(fin) == FlattenSeq(Mapped(SlashOf, fin))

\* One segment more is a slash and the segment.
LEMMA FlatAppend ==
    ASSUME NEW fin \in Seq(CleanSegs), NEW s \in CleanSegs
    PROVE  Flat(fin) \in Seq(Canonical) /\ Flat(Append(fin, s)) = Flat(fin) \o (<<"/">> \o s)
<1> DEFINE B == Seq(Canonical)
           m == Mapped(SlashOf, fin)
<1>1. SlashOf \in [CleanSegs -> B]
  BY MapsType
<1>2. m \in Seq(B) /\ Mapped(SlashOf, Append(fin, s)) = Append(m, SlashOf[s])
  <2> HIDE DEF B
  <2>1. m \in Seq(B)
    BY <1>1, MapType
  <2> QED BY <2>1, MapsAppend
<1>3. SlashOf[s] \in B /\ SlashOf[s] = <<"/">> \o s
  BY <1>1 DEF SlashOf
<1> HIDE DEF m
<1>4. FlattenSeq(m) \in B /\ FlattenSeq(Append(m, SlashOf[s])) = FlattenSeq(m) \o SlashOf[s]
  BY <1>2, <1>3, FlattenAppend
<1> QED BY <1>2, <1>3, <1>4 DEF m, Flat

\* Reading a path written out of clean segments gives their octets.
LEMMA FlatNames ==
    ASSUME NEW fin \in Seq(CleanSegs), fin # <<>>
    PROVE  /\ Flat(fin) \in Seq(Canonical) /\ Flat(fin) # <<>> /\ Flat(fin)[1] = "/"
           /\ ResolvedPath(Flat(fin)) = Mapped(OctOf, fin)
<1> DEFINE S == {f \in Seq(CleanSegs) :
                   /\ After(Folded(Reads, Zero, Flat(f)), "/") = At(f)
                   /\ f # <<>> => /\ Flat(f) # <<>> /\ Flat(f)[1] = "/"
                                  /\ Resolved(Folded(Reads, Zero, Flat(f))) = Mapped(OctOf, f)}
<1>1. <<>> \in S
  <2>1. Flat(<<>>) = <<>>
    <3>1. Mapped(SlashOf, <<>>) = <<>>
      BY DEF Mapped
    <3> QED BY <3>1, FlattenEmpty DEF Flat
  <2>2. Folded(Reads, Zero, <<>>) = Zero
    BY ReadsType, ZeroType, FoldEmpty
  <2>3. At(<<>>) = Start
    <3>1. Mapped(OctOf, <<>>) = <<>>
      BY DEF Mapped
    <3> QED BY <3>1 DEF At, Start
  <2>4. <<>> \in Seq(CleanSegs)
    OBVIOUS
  <2> QED BY <2>1, <2>2, <2>3, <2>4, ZeroType
<1>2. ASSUME NEW f \in S, NEW s \in CleanSegs PROVE Append(f, s) \in S
  <2> DEFINE more == Append(f, s)
             flat == Flat(f)
             slashed == <<"/">> \o s
             end == [stack |-> Mapped(OctOf, f), seg |-> Oct(s)]
  <2>1. f \in Seq(CleanSegs) /\ After(Folded(Reads, Zero, flat), "/") = At(f)
        /\ (f # <<>> => flat # <<>> /\ flat[1] = "/")
    OBVIOUS
  <2>2. more \in Seq(CleanSegs)
    BY <2>1
  <2>3. flat \in Seq(Canonical) /\ Flat(more) = flat \o slashed
    BY <2>1, FlatAppend
  <2>4. flat \in Seq(Tokens) /\ s \in Seq(Named) /\ s \in Seq(Tokens) /\ s \in Seq(Canonical) /\ Oct(s) \in Segs
    <3>1. s \in Seq(Plainly)
      BY DEF CleanSegs
    <3> HIDE DEF flat
    <3> QED BY <2>3, <3>1, CanonicalTokens, PlainlyNamed, OctType
  <2>5. "/" \in Tokens /\ slashed \in Seq(Tokens) /\ slashed # <<>> /\ slashed[1] = "/" /\ Len(slashed) >= 1
    <3>1. "/" \in Tokens
      BY DEF Tokens
    <3>2. <<"/">> \in Seq(Tokens) /\ Len(<<"/">>) = 1 /\ <<"/">>[1] = "/"
      BY <3>1
    <3>3. slashed \in Seq(Tokens) /\ Len(slashed) = 1 + Len(s) /\ slashed[1] = "/"
      BY <2>4, <3>2, ConcatProperties
    <3> HIDE DEF slashed
    <3> QED BY <2>4, <3>1, <3>3
  <2> HIDE DEF S, more, flat
  <2>6. Folded(Reads, Zero, flat) \in Readings
    BY <2>4, ReadsType, ZeroType, FoldType
  <2>7. Folded(Reads, Zero, Flat(more)) = end
    <3>1. Folded(Reads, Zero, Flat(more)) = Folded(Reads, Folded(Reads, Zero, flat), slashed)
      <4> HIDE DEF slashed
      <4>1. \A a, b \in Seq(Tokens) : Folded(Reads, Zero, a \o b) = Folded(Reads, Folded(Reads, Zero, a), b)
        BY ReadsType, ZeroType, FoldConcat
      <4> QED BY <2>3, <2>4, <2>5, <4>1
    <3>2. Folded(Reads, Folded(Reads, Zero, flat), slashed) = Folded(Reads, At(f), s)
      BY <2>1, <2>4, <2>5, <2>6, ReadOne
    <3>3. Folded(Reads, At(f), s) = [stack |-> At(f).stack, seg |-> At(f).seg \o Oct(s)]
      BY <2>1, <2>4, AtType, ReadSegment
    <3>4. At(f).seg \o Oct(s) = Oct(s)
      BY <2>4, ConcatEmptySeq DEF At, Segs
    <3> QED BY <3>1, <3>2, <3>3, <3>4 DEF At
  <2>8. Mapped(OctOf, more) = Append(Mapped(OctOf, f), Oct(s))
    <3>1. \A t \in Seq(CleanSegs), a \in CleanSegs : Mapped(OctOf, Append(t, a)) = Append(Mapped(OctOf, t), OctOf[a])
      BY MapsAppend
    <3> QED BY <2>1, <3>1 DEF OctOf, more
  <2>9. Oct(s) # Here /\ Oct(s) # Up
    BY CleanIsNoDot
  <2>10. After(end, "/") = At(more) /\ Resolved(end) = Mapped(OctOf, more)
    BY <2>8, <2>9 DEF After, Closed, Resolved, At
  <2>11. Flat(more) # <<>> /\ Flat(more)[1] = "/"
    <3> HIDE DEF slashed
    <3>1. CASE f = <<>>
      <4>1. flat = <<>>
        <5>1. Mapped(SlashOf, <<>>) = <<>>
          BY DEF Mapped
        <5> QED BY <3>1, <5>1, FlattenEmpty DEF flat, Flat
      <4>2. Flat(more) = slashed
        BY <2>3, <2>5, <4>1, ConcatEmptySeq
      <4> QED BY <2>5, <4>2
    <3>2. CASE f # <<>>
      <4>1. Len(flat) \in Nat /\ Len(flat) >= 1
        BY <2>1, <2>4, <3>2
      <4>2. Len(flat \o slashed) = Len(flat) + Len(slashed) /\ (flat \o slashed)[1] = flat[1]
            /\ flat \o slashed \in Seq(Tokens)
        BY <2>4, <2>5, <4>1, ConcatProperties
      <4>3. Len(slashed) \in Nat
        BY <2>5
      <4> DEFINE both == flat \o slashed
      <4> HIDE DEF both
      <4>4. both # <<>>
        BY <4>1, <4>2, <4>3 DEF both
      <4> QED BY <2>1, <2>3, <3>2, <4>2, <4>4 DEF both
    <3> QED BY <3>1, <3>2
  <2> HIDE DEF end
  <2> QED BY <2>2, <2>7, <2>10, <2>11 DEF S, more
<1> HIDE DEF S
<1>3. S = Seq(CleanSegs)
  <2>1. S \in SUBSET Seq(CleanSegs)
    BY DEF S
  <2> QED BY <1>1, <1>2, <2>1, InductSeq
<1>4. /\ Flat(fin) # <<>> /\ Flat(fin)[1] = "/"
      /\ Resolved(Folded(Reads, Zero, Flat(fin))) = Mapped(OctOf, fin)
  BY <1>3 DEF S
<1>5. Flat(fin) \in Seq(Canonical)
  <2>1. <<>> \in CleanSegs
    BY DEF CleanSegs
  <2> QED BY <2>1, FlatAppend
<1> DEFINE flat == Flat(fin)
<1> HIDE DEF flat
<1>6. flat \in Seq(Tokens)
  BY <1>5, CanonicalTokens DEF flat
<1>7. ResolvedPath(flat) = Resolved(Folded(Reads, Zero, flat))
  BY <1>4, <1>6, ReadAll DEF flat
<1> QED BY <1>4, <1>5, <1>7 DEF flat

-----------------------------------------------------------------------------
(*****************************************************************************)
(* normalize_path: two paths have one form exactly if they name one page.    *)
(*****************************************************************************)
\* What urlsplit makes of a path behind a host.
Rooted(path) == path \in Seq(Tokens) /\ (path # <<>> => path[1] = "/")

\* What a token is turned into: it divides or stands for the same octet.
LEMMA PercentOf ==
    ASSUME NEW path \in Seq(Tokens)
    PROVE  LET canon == CanonicalizePercent(path)
           IN  /\ canon \in Seq(Canonical) /\ Len(canon) = Len(path)
               /\ \A i \in 1..Len(path) : /\ canon[i] = "/" <=> path[i] = "/"
                                          /\ Octet(canon[i]) = Octet(path[i])
<1> DEFINE canon == CanonicalizePercent(path)
           Canon(tok) == CASE tok = "%2E" -> "."
                           [] tok = "%2f" -> "%2F"
                           [] tok = " " -> "%20"
                           [] tok = "%" -> "%25"
                           [] OTHER -> tok
<1>1. \A tok \in Tokens : Canon(tok) \in Canonical /\ (Canon(tok) = "/" <=> tok = "/") /\ Octet(Canon(tok)) = Octet(tok)
  <2> TAKE tok \in Tokens
  <2>1. Canon(tok) \in Canonical
    BY DEF Tokens, Canonical
  <2>2. Canon(tok) = "/" <=> tok = "/"
    BY DEF Tokens
  <2>3. Octet(Canon(tok)) = Octet(tok)
    <3>1. CASE tok \in {"%2E", "%2f", " ", "%"}
      BY <3>1 DEF Octet
    <3>2. CASE tok \notin {"%2E", "%2f", " ", "%"}
      BY <3>2
    <3> QED BY <3>1, <3>2
  <2> QED BY <2>1, <2>2, <2>3
<1>2. canon = [i \in 1..Len(path) |-> Canon(path[i])]
  BY DEF CanonicalizePercent
<1>3. \A i \in 1..Len(path) : path[i] \in Tokens
  OBVIOUS
<1> HIDE DEF Canon, canon
<1>4. canon \in Seq(Canonical) /\ Len(canon) = Len(path) /\ \A i \in 1..Len(path) : canon[i] = Canon(path[i])
  BY <1>1, <1>2, <1>3
<1> QED BY <1>1, <1>3, <1>4 DEF canon

\* Escapes do not change the page.
LEMMA PercentKeeps ==
    ASSUME NEW path, Rooted(path), path # <<>>
    PROVE  LET canon == CanonicalizePercent(path)
           IN  /\ canon \in Seq(Canonical) /\ canon # <<>> /\ canon[1] = "/"
               /\ ResolvedPath(canon) = ResolvedPath(path)
<1> DEFINE canon == CanonicalizePercent(path)
<1>1. path \in Seq(Tokens) /\ path[1] = "/" /\ Len(path) \in Nat /\ Len(path) >= 1
  BY DEF Rooted
<1>2. /\ canon \in Seq(Canonical) /\ Len(canon) = Len(path)
      /\ \A i \in 1..Len(path) : /\ canon[i] = "/" <=> path[i] = "/"
                                 /\ Octet(canon[i]) = Octet(path[i])
  BY <1>1, PercentOf
<1> HIDE DEF canon
<1>3. canon # <<>> /\ canon[1] = "/" /\ canon \in Seq(Tokens)
  BY <1>1, <1>2, CanonicalTokens
<1>4. PICK f : FoldsTo(f, Reads, Zero, path, Readings)
  BY <1>1, ReadsType, ZeroType, FoldExists
<1>5. \A i \in 1..Len(path) : \A was \in Readings : Reads[path[i]][was] = Reads[canon[i]][was]
  <2> TAKE i \in 1..Len(path)
  <2> TAKE was \in Readings
  <2>1. path[i] \in Tokens /\ canon[i] \in Tokens
    BY <1>1, <1>2, <1>3
  <2>2. After(was, path[i]) = After(was, canon[i])
    BY <1>2 DEF After
  <2> QED BY <2>1, <2>2 DEF Reads
<1>6. Iterates(f, Reads, Zero, canon, Readings)
  BY <1>2, <1>4, <1>5 DEF Iterates, FoldsTo
<1>7. Folded(Reads, Zero, canon) = f[Len(canon)]
  <2>1. \A f1 : Iterates(f1, Reads, Zero, canon, Readings) => Folded(Reads, Zero, canon) = f1[Len(canon)]
    BY <1>3, ReadsType, ZeroType, FoldUnique
  <2> QED BY <1>6, <2>1
<1>8. Folded(Reads, Zero, canon) = Folded(Reads, Zero, path)
  BY <1>2, <1>4, <1>7 DEF FoldsTo
<1>9. ResolvedPath(canon) = ResolvedPath(path)
  BY <1>1, <1>3, <1>8, ReadAll
<1> QED BY <1>2, <1>3, <1>9 DEF canon

\* An empty path stays empty.
LEMMA NoPath == RemoveDotSegments(<<>>) = <<>> /\ CanonicalizePercent(<<>>) = <<>>
<1> DEFINE base == [input |-> <<>>, output |-> <<>>]
           Solves(g) == g = [k \in 0..0 |-> IF k = 0 THEN [input |-> <<>>, output |-> <<>>]
                                            ELSE LET was == g[k - 1] IN Turn(was.input, was.output)]
           buffers == CHOOSE g : Solves(g)
<1>1. RemoveDotSegments(<<>>) = FlattenSeq(buffers[0].output)
  <2>1. Len(<<>>) = 0
    OBVIOUS
  <2> QED BY <2>1, Zenon DEF RemoveDotSegments
<1>2. Solves([k \in 0..0 |-> base])
  OBVIOUS
<1>3. Solves(buffers)
  <2> HIDE DEF Solves
  <2> QED BY <1>2, Zenon
<1> HIDE DEF buffers
<1>4. buffers[0].output = <<>>
  BY <1>3
<1> QED BY <1>1, <1>4, FlattenEmpty DEF CanonicalizePercent

\* What normalize_path writes for these segments.
Short(fin) == IF Flat(fin) = <<"/">> THEN <<>> ELSE Flat(fin)

\* The empty segment alone is written as the root path.
LEMMA FlatOfNothing ==
    /\ << <<>> >> \in Seq(CleanSegs) /\ << <<>> >> # <<>> /\ Flat(<< <<>> >>) = <<"/">>
    /\ Mapped(OctOf, << <<>> >>) = << <<>> >>
<1> DEFINE nil == <<>>
           one == << <<>> >>
           slash == <<"/">>
<1>1. nil \in Seq(CleanSegs) /\ nil \in CleanSegs /\ one = Append(nil, nil) /\ one \in Seq(CleanSegs) /\ one # <<>>
  BY DEF CleanSegs
<1>2. Flat(nil) = nil
  <2>1. Mapped(SlashOf, nil) = nil
    BY DEF Mapped
  <2> QED BY <2>1, FlattenEmpty DEF Flat
<1>3. slash \in Seq(Tokens)
  BY DEF Tokens
<1>4. Mapped(OctOf, one) = one
  <2>1. OctOf[nil] = nil
    BY <1>1 DEF OctOf, Oct
  <2>2. Len(one) = 1 /\ one[1] = nil
    OBVIOUS
  <2> HIDE DEF nil
  <2>3. Mapped(OctOf, one) = [i \in 1..1 |-> nil]
    BY <2>1, <2>2 DEF Mapped
  <2>4. one = [i \in 1..1 |-> nil]
    BY <1>1, <2>2
  <2> QED BY <2>3, <2>4
<1> HIDE DEF one, slash
<1>5. Flat(one) = nil \o (slash \o nil)
  BY <1>1, <1>2, FlatAppend DEF slash
<1>6. slash \o nil = slash /\ nil \o slash = slash
  BY <1>3, ConcatEmptySeq
<1>7. Flat(one) = slash
  BY <1>5, <1>6
<1> QED BY <1>1, <1>4, <1>7 DEF one, slash

\* normalize_path writes the segments its path resolves to, in their only clean
\* spelling.
LEMMA PathIs ==
    ASSUME NEW path, Rooted(path)
    PROVE  \E fin \in Seq(CleanSegs) :
              /\ fin # <<>> /\ NormalizePath(path) = Short(fin)
              /\ ResolvedPath(path) = Mapped(OctOf, fin)
<1> DEFINE canon == CanonicalizePercent(path)
<1>1. CASE path = <<>>
  <2>1. NormalizePath(path) = <<>>
    <3>1. <<>> # <<"/">>
      OBVIOUS
    <3> QED BY <1>1, <3>1, NoPath DEF NormalizePath
  <2>2. ResolvedPath(path) = << <<>> >>
    BY <1>1 DEF ResolvedPath
  <2> DEFINE one == << <<>> >>
  <2>3. one \in Seq(CleanSegs) /\ one # <<>> /\ Mapped(OctOf, one) = ResolvedPath(path) /\ Short(one) = <<>>
    BY <2>2, FlatOfNothing DEF Short
  <2> HIDE DEF one
  <2> QED BY <2>1, <2>3
<1>2. CASE path # <<>>
  <2>1. canon \in Seq(Canonical) /\ canon # <<>> /\ canon[1] = "/" /\ ResolvedPath(canon) = ResolvedPath(path)
    BY <1>2, PercentKeeps
  <2> HIDE DEF canon
  <2>2. PICK fin \in Seq(CleanSegs) :
              /\ fin # <<>>
              /\ RemoveDotSegments(canon) = FlattenSeq(Mapped(SlashOf, fin))
              /\ ResolvedPath(canon) = Mapped(OctOf, fin)
    BY <2>1, DotsRemoved
  <2>3. NormalizePath(path) = Short(fin)
    BY <2>2 DEF NormalizePath, Short, Flat, canon
  <2> QED BY <2>1, <2>2, <2>3
<1> QED BY <1>1, <1>2

\* Clean segments with the same octets, one by one, are the same.
LEMMA MapInjective ==
    ASSUME NEW f \in Seq(CleanSegs), NEW g \in Seq(CleanSegs), Mapped(OctOf, f) = Mapped(OctOf, g)
    PROVE  f = g
<1>1. \A s \in Seq(CleanSegs) : Len(Mapped(OctOf, s)) = Len(s)
  BY DEF Mapped
<1>2. Len(f) = Len(g)
  BY <1>1
<1>3. \A i \in 1..Len(f) : f[i] \in CleanSegs /\ g[i] \in CleanSegs /\ Oct(f[i]) = Oct(g[i])
  <2>1. \A i \in 1..Len(f) : Mapped(OctOf, f)[i] = OctOf[f[i]] /\ Mapped(OctOf, g)[i] = OctOf[g[i]]
    BY <1>2 DEF Mapped
  <2>2. \A i \in 1..Len(f) : f[i] \in CleanSegs /\ g[i] \in CleanSegs
    BY <1>2
  <2> QED BY <2>1, <2>2 DEF OctOf
<1>4. \A i \in 1..Len(f) : f[i] = g[i]
  BY <1>3, OctInjective DEF CleanSegs
<1> QED BY <1>2, <1>4, SeqEqual

\* Two paths of one page get one form.
LEMMA OneForm ==
    ASSUME NEW p, NEW q, Rooted(p), Rooted(q), ResolvedPath(p) = ResolvedPath(q)
    PROVE  NormalizePath(p) = NormalizePath(q)
<1>1. PICK f \in Seq(CleanSegs) : NormalizePath(p) = Short(f) /\ ResolvedPath(p) = Mapped(OctOf, f)
  BY PathIs
<1>2. PICK g \in Seq(CleanSegs) : NormalizePath(q) = Short(g) /\ ResolvedPath(q) = Mapped(OctOf, g)
  BY PathIs
<1>3. f = g
  BY <1>1, <1>2, MapInjective
<1> QED BY <1>1, <1>2, <1>3

\* The form is a path of that page.
LEMMA FormNames ==
    ASSUME NEW path, Rooted(path)
    PROVE  Rooted(NormalizePath(path)) /\ ResolvedPath(NormalizePath(path)) = ResolvedPath(path)
<1>1. PICK fin \in Seq(CleanSegs) :
              /\ fin # <<>> /\ NormalizePath(path) = Short(fin)
              /\ ResolvedPath(path) = Mapped(OctOf, fin)
  BY PathIs
<1>2. /\ Flat(fin) \in Seq(Canonical) /\ Flat(fin) # <<>> /\ Flat(fin)[1] = "/"
      /\ ResolvedPath(Flat(fin)) = Mapped(OctOf, fin)
  BY <1>1, FlatNames
<1>3. CASE Flat(fin) = <<"/">>
  <2> DEFINE one == << <<>> >>
  <2>1. one \in Seq(CleanSegs) /\ one # <<>> /\ Flat(one) = <<"/">> /\ Mapped(OctOf, one) = one
    BY FlatOfNothing
  <2>2. ResolvedPath(<<"/">>) = one
    <3> HIDE DEF one
    <3> QED BY <2>1, FlatNames
  <2>3. ResolvedPath(<<>>) = one
    BY DEF ResolvedPath
  <2>4. NormalizePath(path) = <<>> /\ <<>> \in Seq(Tokens)
    BY <1>1, <1>3 DEF Short
  <2> HIDE DEF one
  <2> QED BY <1>1, <1>2, <1>3, <2>2, <2>3, <2>4 DEF Rooted
<1>4. CASE Flat(fin) # <<"/">>
  <2>1. NormalizePath(path) = Flat(fin)
    BY <1>1, <1>4 DEF Short
  <2> DEFINE flat == Flat(fin)
  <2> HIDE DEF flat
  <2>2. flat \in Seq(Tokens)
    BY <1>2, CanonicalTokens DEF flat
  <2> QED BY <1>1, <1>2, <2>1, <2>2 DEF Rooted, flat
<1> QED BY <1>3, <1>4

-----------------------------------------------------------------------------
(*****************************************************************************)
(* The query: _filter keeps the pairs that name the page, as often as they   *)
(* are there.                                                                *)
(*****************************************************************************)
\* The pieces once parse_qsl has decoded them, and the pairs of them that are kept.
Legible == [key : Nat \ Undecodable, value : {NoValue, Blank, 1, WithColon, Replacement}] \cup {EmptyPiece}
Kind == {p \in [key : Nat \ Undecodable, value : {Blank, 1, WithColon, Replacement}] : p.key \notin Tracking}

\* The pair parse_qsl makes of a piece, and the pieces it is kept of.
Pair(piece) == [key |-> piece.key, value |-> IF piece.value = NoValue THEN Blank ELSE piece.value]
Matters(piece) == piece # EmptyPiece /\ piece.key \notin Tracking

\* How often a pair is in a sequence, and how often a query names it.
Count(s, p) == Cardinality({i \in 1..Len(s) : s[i] = p})
Occurs(query, p) == Cardinality({i \in 1..Len(query) : Matters(query[i]) /\ Pair(query[i]) = p})

\* A piece is kept exactly if it names the page, as the pair it names.
LEMMA PieceType ==
    ASSUME NEW piece \in Legible
    PROVE  /\ Matters(piece) <=> piece.key \notin Tracking \cup {None}
           /\ Matters(piece) => /\ Pair(piece) \in Kind
                               /\ [piece EXCEPT !.value = IF @ = NoValue THEN Blank ELSE @] = Pair(piece)
           /\ \A p \in Kind : Matters(piece) => (Pair(piece) = p <=> Param(piece) = Param(p))
<1>1. CASE piece = EmptyPiece
  BY <1>1 DEF EmptyPiece, Matters
<1>2. CASE piece # EmptyPiece
  <2>1. piece \in [key : Nat \ Undecodable, value : {NoValue, Blank, 1, WithColon, Replacement}]
    BY <1>2 DEF Legible
  <2>2. piece.key \in Nat \ Undecodable /\ piece.value \in {NoValue, Blank, 1, WithColon, Replacement}
        /\ piece = [key |-> piece.key, value |-> piece.value]
    BY <2>1
  <2>3. piece.key # None
    BY <2>2, GuardAssumption DEF GuardAssumption
  <2>4. [piece EXCEPT !.value = IF @ = NoValue THEN Blank ELSE @] = Pair(piece)
    BY <2>2 DEF Pair
  <2>5. Matters(piece) => Pair(piece) \in Kind
    BY <2>2 DEF Pair, Kind, Matters, NoValue, Blank, WithColon, Replacement
  <2>6. ASSUME NEW p \in Kind PROVE Pair(piece) = p <=> Param(piece) = Param(p)
    <3>1. p = [key |-> p.key, value |-> p.value] /\ p.value # NoValue
      BY DEF Kind, NoValue, Blank, WithColon, Replacement
    <3>2. Param(p) = <<p.key, p.value>>
      BY <3>1 DEF Param
    <3>3. Param(piece) = <<Pair(piece).key, Pair(piece).value>>
      BY DEF Param, Pair
    <3>4. Pair(piece) = [key |-> Pair(piece).key, value |-> Pair(piece).value]
      BY DEF Pair
    <3> DEFINE a == Pair(piece)
    <3> HIDE DEF a
    <3>5. <<a.key, a.value>> = <<p.key, p.value>> <=> a.key = p.key /\ a.value = p.value
      OBVIOUS
    <3>6. a = p <=> a.key = p.key /\ a.value = p.value
      BY <3>1, <3>4 DEF a
    <3> QED BY <3>2, <3>3, <3>5, <3>6 DEF a
  <2> QED BY <1>2, <2>3, <2>4, <2>5, <2>6 DEF Matters
<1> QED BY <1>1, <1>2

\* Places in a sequence are finitely many, and none if they count to 0.
LEMMA Counting ==
    ASSUME NEW n \in Nat, NEW S \in SUBSET (1..n)
    PROVE  IsFiniteSet(S) /\ Cardinality(S) \in Nat /\ (Cardinality(S) = 0 <=> S = {})
<1>1. IsFiniteSet(1..n)
  BY CountUpTo
<1>2. IsFiniteSet(S)
  BY <1>1, FS_Subset
<1> QED BY <1>2, FS_CardinalityType, FS_EmptySet

\* One element more counts once.
LEMMA CountAppend ==
    ASSUME NEW A, NEW s \in Seq(A), NEW a \in A, NEW p
    PROVE  Count(s, p) \in Nat /\ Count(Append(s, a), p) = Count(s, p) + (IF a = p THEN 1 ELSE 0)
<1> DEFINE n == Len(s)
           more == Append(s, a)
           S == {i \in 1..n : s[i] = p}
           M == {i \in 1..Len(more) : more[i] = p}
<1>1. n \in Nat /\ Len(more) = n + 1 /\ more[n + 1] = a /\ \A i \in 1..n : more[i] = s[i]
  BY AppendProperties
<1>2. S \in SUBSET (1..n) /\ n + 1 \notin S
  BY <1>1
<1>3. IsFiniteSet(S) /\ Cardinality(S) \in Nat
  <2> HIDE DEF S, n
  <2> QED BY <1>1, <1>2, Counting
<1>4. M = IF a = p THEN S \cup {n + 1} ELSE S
  <2>1. \A i : i \in 1..(n + 1) <=> i \in 1..n \/ i = n + 1
    BY <1>1
  <2> HIDE DEF n, more
  <2> QED BY <1>1, <2>1
<1>5. Cardinality(S \cup {n + 1}) = Cardinality(S) + 1
  <2> HIDE DEF S, n
  <2> QED BY <1>2, <1>3, FS_AddElement
<1> HIDE DEF S, n
<1>6. Cardinality(M) = Cardinality(S) + (IF a = p THEN 1 ELSE 0)
  <2> HIDE DEF M
  <2> QED BY <1>3, <1>4, <1>5
<1> QED BY <1>3, <1>6 DEF Count, S, n

\* One piece more counts once, if it names the page.
LEMMA NamedAppend ==
    ASSUME NEW s \in Seq(Legible), NEW a \in Legible, NEW p
    PROVE  Occurs(s, p) \in Nat
           /\ Occurs(Append(s, a), p) = Occurs(s, p) + (IF Matters(a) /\ Pair(a) = p THEN 1 ELSE 0)
<1> DEFINE n == Len(s)
           more == Append(s, a)
           Is(piece) == Matters(piece) /\ Pair(piece) = p
           S == {i \in 1..n : Is(s[i])}
           M == {i \in 1..Len(more) : Is(more[i])}
<1> HIDE DEF Is
<1>1. n \in Nat /\ Len(more) = n + 1 /\ more[n + 1] = a /\ \A i \in 1..n : more[i] = s[i]
  BY AppendProperties
<1>2. S \in SUBSET (1..n) /\ n + 1 \notin S
  BY <1>1
<1>3. IsFiniteSet(S) /\ Cardinality(S) \in Nat
  <2> HIDE DEF S, n
  <2> QED BY <1>1, <1>2, Counting
<1>4. M = IF Is(a) THEN S \cup {n + 1} ELSE S
  <2>1. \A i : i \in 1..(n + 1) <=> i \in 1..n \/ i = n + 1
    BY <1>1
  <2> HIDE DEF n, more
  <2> QED BY <1>1, <2>1
<1>5. Cardinality(S \cup {n + 1}) = Cardinality(S) + 1
  <2> HIDE DEF S, n
  <2> QED BY <1>2, <1>3, FS_AddElement
<1> HIDE DEF S, n
<1>6. Cardinality(M) = Cardinality(S) + (IF Is(a) THEN 1 ELSE 0)
  <2> HIDE DEF M
  <2> QED BY <1>3, <1>4, <1>5
<1> QED BY <1>3, <1>6 DEF Occurs, S, n, Is

\* The loop that keeps the pairs.
Keeps == [piece \in Legible |-> [kept \in Seq(Kind) |-> IF Matters(piece) THEN Append(kept, Pair(piece)) ELSE kept]]

\* Keeping is a turn on lists of pairs.
LEMMA KeepsType == Keeps \in [Legible -> [Seq(Kind) -> Seq(Kind)]] /\ <<>> \in Seq(Kind)
BY PieceType, AppendProperties DEF Keeps

\* Kept is the fold of keeping.
LEMMA KeptIs ==
    ASSUME NEW query \in Seq(Legible)
    PROVE  Kept(query) = Folded(Keeps, <<>>, query)
<1> DEFINE n == Len(query)
           nil == <<>>
           T == Seq(Kind)
           Keep(was, piece) == IF piece.key \in Tracking \cup {None} THEN was
                     ELSE Append(was, [piece EXCEPT !.value = IF @ = NoValue THEN Blank ELSE @])
           Solves(g) == g = [k \in 0..n |-> IF k = 0 THEN <<>> ELSE Keep(g[k - 1], query[k])]
           kept == CHOOSE g : Solves(g)
<1>1. n \in Nat /\ \A k \in 1..n : query[k] \in Legible /\ k \in 0..n /\ k # 0 /\ k - 1 \in 0..n
  OBVIOUS
<1>2. Kept(query) = kept[n]
  BY Zenon DEF Kept
<1>3. \A piece \in Legible, was \in T : Keeps[piece][was] = Keep(was, piece)
  BY PieceType DEF Keeps
<1> HIDE DEF Keep, T, nil, n
<1>4. Keeps \in [Legible -> [T -> T]] /\ nil \in T
  BY KeepsType DEF T, nil
<1>5. PICK f : FoldsTo(f, Keeps, nil, query, T)
  BY <1>4, FoldExists
<1>6. f \in [0..n -> T] /\ f[0] = nil /\ \A k \in 1..n : f[k] = Keeps[query[k]][f[k - 1]]
  BY <1>5 DEF FoldsTo, n
<1>7. Solves(f)
  <2>1. \A k \in 0..n : k # 0 => k \in 1..n
    BY <1>1
  <2>2. \A k \in 1..n : f[k] = Keep(f[k - 1], query[k])
    BY <1>1, <1>3, <1>6
  <2> QED BY <1>6, <2>1, <2>2 DEF nil
<1>8. Solves(kept)
  <2> HIDE DEF Solves
  <2> QED BY <1>7, Zenon
<1> HIDE DEF kept
<1>9. Iterates(kept, Keeps, nil, query, T)
  <2>1. 0 \in 0..n
    BY <1>1
  <2>2. kept[0] = nil /\ \A k \in 1..n : kept[k] = Keep(kept[k - 1], query[k])
    BY <1>1, <1>8, <2>1 DEF nil
  <2> QED BY <1>1, <1>3, <2>2 DEF Iterates, n
<1>10. \A f1 : Iterates(f1, Keeps, nil, query, T) => Folded(Keeps, nil, query) = f1[Len(query)]
  BY <1>4, FoldUnique
<1> QED BY <1>2, <1>9, <1>10 DEF nil, n

\* Exactly the parameters that name the page are kept.
LEMMA KeptCounts ==
    ASSUME NEW query \in Seq(Legible)
    PROVE  Kept(query) \in Seq(Kind) /\ \A p : Count(Kept(query), p) = Occurs(query, p)
<1> DEFINE nil == <<>>
           fold(q) == Folded(Keeps, nil, q)
           S == {q \in Seq(Legible) : \A p : Count(fold(q), p) = Occurs(q, p)}
<1> HIDE DEF nil
<1>1. nil \in Seq(Legible) /\ nil \in Seq(Kind) /\ Len(nil) = 0
  BY DEF nil
<1>2. \A q \in Seq(Legible) : fold(q) \in Seq(Kind)
  BY <1>1, KeepsType, FoldType
<1>3. nil \in S
  <2>1. fold(nil) = nil
    BY <1>1, KeepsType, FoldEmpty DEF nil
  <2>2. \A p : Count(nil, p) = Cardinality({}) /\ Occurs(nil, p) = Cardinality({})
    BY <1>1 DEF Count, Occurs
  <2> QED BY <1>1, <2>1, <2>2
<1>4. ASSUME NEW q \in S, NEW piece \in Legible PROVE Append(q, piece) \in S
  <2> DEFINE more == Append(q, piece)
  <2>1. q \in Seq(Legible) /\ more \in Seq(Legible) /\ \A p : Count(fold(q), p) = Occurs(q, p)
    OBVIOUS
  <2>2. fold(q) \in Seq(Kind)
    BY <1>2, <2>1
  <2>3. fold(more) = Keeps[piece][fold(q)]
    <3> HIDE DEF S
    <3>1. \A v \in Seq(Legible), a \in Legible : Folded(Keeps, nil, Append(v, a)) = Keeps[a][Folded(Keeps, nil, v)]
      <4> TAKE v \in Seq(Legible), a \in Legible
      <4> DEFINE T == Seq(Kind)
      <4>1. nil \in T /\ Keeps \in [Legible -> [T -> T]]
        BY <1>1, KeepsType
      <4> HIDE DEF T
      <4> QED BY <4>1, FoldAppend
    <3> QED BY <2>1, <3>1
  <2> HIDE DEF fold, S, more
  <2>4. fold(more) = IF Matters(piece) THEN Append(fold(q), Pair(piece)) ELSE fold(q)
    BY <2>2, <2>3 DEF Keeps
  <2>5. Matters(piece) => Pair(piece) \in Kind
    BY PieceType
  <2>6. ASSUME NEW p PROVE Count(fold(more), p) = Occurs(more, p)
    <3>1. Occurs(q, p) \in Nat /\ Occurs(more, p) = Occurs(q, p) + (IF Matters(piece) /\ Pair(piece) = p THEN 1 ELSE 0)
      BY <2>1, NamedAppend DEF more
    <3>2. CASE Matters(piece)
      <4>1. Count(fold(more), p) = Count(fold(q), p) + (IF Pair(piece) = p THEN 1 ELSE 0)
        BY <2>2, <2>4, <2>5, <3>2, CountAppend
      <4> QED BY <2>1, <3>1, <3>2, <4>1
    <3>3. CASE ~Matters(piece)
      BY <2>1, <2>4, <3>1, <3>3
    <3> QED BY <3>2, <3>3
  <2> QED BY <2>1, <2>6 DEF S, more
<1> HIDE DEF S, fold
<1>5. S = Seq(Legible)
  <2>1. S \in SUBSET Seq(Legible)
    BY DEF S
  <2> QED BY <1>3, <1>4, <2>1, InductSeq DEF nil
<1>6. \A p : Count(fold(query), p) = Occurs(query, p)
  BY <1>5 DEF S
<1>7. Kept(query) = fold(query)
  BY KeptIs DEF fold, nil
<1> QED BY <1>2, <1>6, <1>7

-----------------------------------------------------------------------------
(*****************************************************************************)
(* sorted(): it keeps every pair, and puts a bag of pairs into the one order *)
(* there is for it.                                                          *)
(*****************************************************************************)

\* Tuples of a name and a value are totally ordered.
LEMMA BeforeOrder ==
    /\ \A a \in Kind : ~Before(a, a)
    /\ \A a, b \in Kind : Before(a, b) \/ Before(b, a) \/ a = b
    /\ \A a, b \in Kind : Before(a, b) => ~Before(b, a)
    /\ \A a, b, c \in Kind : Before(a, b) /\ Before(b, c) => Before(a, c)
<1>1. \A a \in Kind : a.key \in Nat /\ a.value \in Int /\ a = [key |-> a.key, value |-> a.value]
  BY DEF Kind, Blank, WithColon, Replacement
<1>2. \A a \in Kind : ~Before(a, a)
  BY <1>1 DEF Before
<1>3. \A a, b \in Kind : Before(a, b) \/ Before(b, a) \/ a = b
  BY <1>1 DEF Before
<1>4. \A a, b \in Kind : Before(a, b) => ~Before(b, a)
  BY <1>1 DEF Before
<1>5. \A a, b, c \in Kind : Before(a, b) /\ Before(b, c) => Before(a, c)
  BY <1>1 DEF Before
<1> QED BY <1>2, <1>3, <1>4, <1>5

\* No pair stands behind one it is before.
Ordered(s) == \A i, j \in 1..Len(s) : i < j => ~Before(s[j], s[i])

\* Sorted takes each pair to a place of its own, behind those before it.
LEMMA SortedIs ==
    ASSUME NEW s \in Seq(Kind)
    PROVE  \E at : /\ at \in Bijection(1..Len(s), 1..Len(s))
                   /\ Sorted(s) = [r \in 1..Len(s) |-> s[at[r]]]
                   /\ \A r, q \in 1..Len(s) : r < q => ~Before(s[at[q]], s[at[r]])
<1> DEFINE n == Len(s)
           Prec(j, i) == Before(s[j], s[i]) \/ (s[j] = s[i] /\ j <= i)
           Ahead(i) == {j \in 1..n : Prec(j, i)}
           place == [i \in 1..n |-> Cardinality(Ahead(i))]
           at == [r \in 1..n |-> CHOOSE i \in 1..n : place[i] = r]
<1>1. n \in Nat /\ DOMAIN s = 1..n /\ \A i \in 1..n : s[i] \in Kind /\ i \in Nat
  OBVIOUS
<1> HIDE DEF n
<1>2. /\ \A i \in 1..n : Prec(i, i)
      /\ \A i, j, k \in 1..n : Prec(i, j) /\ Prec(j, k) => Prec(i, k)
      /\ \A i, j \in 1..n : Prec(i, j) \/ Prec(j, i)
      /\ \A i, j \in 1..n : Prec(i, j) /\ Prec(j, i) => i = j
  <2>1. \A i \in 1..n : Prec(i, i)
    BY <1>1
  <2>2. \A i, j, k \in 1..n : Prec(i, j) /\ Prec(j, k) => Prec(i, k)
    BY <1>1, BeforeOrder
  <2>3. \A i, j \in 1..n : Prec(i, j) \/ Prec(j, i)
    BY <1>1, BeforeOrder
  <2>4. \A i, j \in 1..n : Prec(i, j) /\ Prec(j, i) => i = j
    BY <1>1, BeforeOrder
  <2> QED BY <2>1, <2>2, <2>3, <2>4
<1>20. \A i, j \in 1..n : Before(s[i], s[j]) => Prec(i, j)
  BY DEF Before
<1>21. \A i, j \in 1..n : Before(s[i], s[j]) => i # j
  BY <1>1, BeforeOrder
<1> HIDE DEF Prec
<1>3. \A i \in 1..n : IsFiniteSet(Ahead(i)) /\ place[i] = Cardinality(Ahead(i)) /\ place[i] \in 1..n
  <2> TAKE i \in 1..n
  <2>1. Ahead(i) \in SUBSET (1..n) /\ Ahead(i) # {}
    BY <1>2
  <2>2. IsFiniteSet(1..n) /\ Cardinality(1..n) = n
    BY <1>1, CountUpTo
  <2> HIDE DEF Ahead
  <2>3. IsFiniteSet(Ahead(i)) /\ Cardinality(Ahead(i)) \in Nat /\ Cardinality(Ahead(i)) # 0
    BY <1>1, <2>1, Counting
  <2>4. Cardinality(Ahead(i)) <= n
    BY <2>1, <2>2, FS_Subset
  <2> QED BY <1>1, <2>3, <2>4
<1>4. \A i, j \in 1..n : Prec(i, j) /\ i # j => place[i] < place[j]
  <2> SUFFICES ASSUME NEW i \in 1..n, NEW j \in 1..n, Prec(i, j), i # j PROVE place[i] < place[j]
    OBVIOUS
  <2>1. Ahead(i) \in SUBSET Ahead(j)
    BY <1>2
  <2>2. j \in Ahead(j) /\ j \notin Ahead(i)
    BY <1>2
  <2> HIDE DEF Ahead, place
  <2>3. Cardinality(Ahead(i)) <= Cardinality(Ahead(j)) /\ Cardinality(Ahead(i)) # Cardinality(Ahead(j))
    BY <1>3, <2>1, <2>2, FS_Subset
  <2> QED BY <1>1, <1>3, <2>3
<1>5. \A i, j \in 1..n : place[i] = place[j] => i = j
  <2> SUFFICES ASSUME NEW i \in 1..n, NEW j \in 1..n, place[i] = place[j], i # j PROVE FALSE
    OBVIOUS
  <2> HIDE DEF place
  <2>1. place[i] \in Nat
    BY <1>1, <1>3
  <2>2. ~(place[i] < place[i])
    BY <2>1
  <2>3. ~Prec(i, j) /\ ~Prec(j, i)
    BY <1>4, <2>2
  <2> QED BY <1>2, <2>3
<1>6. place \in Bijection(1..n, 1..n)
  <2>1. place \in Injection(1..n, 1..n)
    <3>1. place \in [1..n -> 1..n]
      <4>1. place = [i \in 1..n |-> place[i]]
        OBVIOUS
      <4> HIDE DEF place
      <4> QED BY <1>3, <4>1
    <3> HIDE DEF place
    <3> QED BY <1>5, <3>1 DEF Injection, IsInjective
  <2>2. IsFiniteSet(1..n)
    BY <1>1, CountUpTo
  <2> HIDE DEF place
  <2>3. place \in Surjection(1..n, 1..n)
    BY <2>1, <2>2, FS_Injection
  <2> QED BY <2>1, <2>3 DEF Bijection
<1>7. \A r \in 1..n : at[r] \in 1..n /\ place[at[r]] = r
  <2> TAKE r \in 1..n
  <2> HIDE DEF place
  <2>1. \E i \in 1..n : place[i] = r
    BY <1>6 DEF Bijection, Surjection
  <2> QED BY <2>1
<1>8. Sorted(s) = [r \in 1..n |-> s[at[r]]]
  <2> DEFINE Early(j, i) == \/ Before(s[j], s[i])
                            \/ s[j] = s[i] /\ j <= i
             Rank(i) == Cardinality({j \in 1..n : Early(j, i)})
  <2>1. \A i \in 1..n : Rank(i) = place[i]
    BY DEF Prec
  <2>2. Sorted(s) = [r \in 1..n |-> s[CHOOSE i \in 1..n : Rank(i) = r]]
    <3>1. Sorted(s) = [r \in DOMAIN s |-> s[CHOOSE i \in DOMAIN s :
                                              Cardinality({j \in DOMAIN s : Early(j, i)}) = r]]
      BY Zenon DEF Sorted
    <3>2. DOMAIN s = 1..n
      BY <1>1
    <3> QED BY <3>1, <3>2
  <2> HIDE DEF Rank, place
  <2>3. \A r \in 1..n : (CHOOSE i \in 1..n : Rank(i) = r) = at[r]
    <3> TAKE r \in 1..n
    <3> DEFINE i1 == CHOOSE i \in 1..n : Rank(i) = r
    <3>1. at[r] \in 1..n /\ Rank(at[r]) = r
      <4> HIDE DEF at
      <4> QED BY <1>7, <2>1
    <3>2. i1 \in 1..n /\ Rank(i1) = r
      <4> HIDE DEF at
      <4> QED BY <3>1
    <3> HIDE DEF at, i1
    <3>3. i1 = at[r]
      BY <1>5, <1>7, <2>1, <3>1, <3>2
    <3> QED BY <3>3 DEF i1
  <2> HIDE DEF at
  <2> QED BY <2>2, <2>3
<1>9. at \in Bijection(1..n, 1..n)
  <2>1. at \in [1..n -> 1..n]
    <3>1. \A r \in 1..n : (CHOOSE i \in 1..n : place[i] = r) \in 1..n
      <4> HIDE DEF place
      <4> QED BY <1>7
    <3> HIDE DEF place
    <3> QED BY <3>1
  <2> HIDE DEF at, place
  <2>2. \A r, q \in 1..n : at[r] = at[q] => r = q
    BY <1>7
  <2>3. \A i \in 1..n : \E r \in 1..n : at[r] = i
    <3> TAKE i \in 1..n
    <3>1. place[i] \in 1..n /\ at[place[i]] \in 1..n /\ place[at[place[i]]] = place[i]
      BY <1>3, <1>7
    <3> QED BY <1>5, <3>1
  <2> QED BY <2>1, <2>2, <2>3 DEF Bijection, Injection, Surjection, IsInjective
<1>10. \A r, q \in 1..n : r < q => ~Before(s[at[q]], s[at[r]])
  <2> SUFFICES ASSUME NEW r \in 1..n, NEW q \in 1..n, r < q, Before(s[at[q]], s[at[r]]) PROVE FALSE
    OBVIOUS
  <2> HIDE DEF at, place
  <2>1. at[r] \in 1..n /\ at[q] \in 1..n /\ place[at[r]] = r /\ place[at[q]] = q
    BY <1>7
  <2>2. place[at[q]] < place[at[r]]
    BY <1>4, <1>20, <1>21, <2>1
  <2> QED BY <1>1, <2>1, <2>2
<1> HIDE DEF at
<1> QED BY <1>8, <1>9, <1>10 DEF n

\* Sorted keeps the pairs, and puts them in order.
LEMMA SortedKeeps ==
    ASSUME NEW s \in Seq(Kind)
    PROVE  /\ Sorted(s) \in Seq(Kind) /\ Len(Sorted(s)) = Len(s) /\ Ordered(Sorted(s))
           /\ \A p : Count(Sorted(s), p) = Count(s, p)
<1> DEFINE n == Len(s)
           t == Sorted(s)
<1>1. n \in Nat /\ \A i \in 1..n : s[i] \in Kind
  OBVIOUS
<1>2. PICK at : /\ at \in Bijection(1..n, 1..n)
                /\ t = [r \in 1..n |-> s[at[r]]]
                /\ \A r, q \in 1..n : r < q => ~Before(s[at[q]], s[at[r]])
  BY SortedIs
<1>3. at \in [1..n -> 1..n] /\ (\A r, q \in 1..n : at[r] = at[q] => r = q)
      /\ \A i \in 1..n : \E r \in 1..n : at[r] = i
  <2> HIDE DEF n, t
  <2> QED BY <1>2 DEF Bijection, Injection, Surjection, IsInjective
<1>4. t \in Seq(Kind) /\ Len(t) = n /\ \A r \in 1..n : t[r] = s[at[r]]
  <2> HIDE DEF n, t
  <2>1. \A r \in 1..n : s[at[r]] \in Kind
    BY <1>1, <1>3
  <2> QED BY <1>1, <1>2, <2>1
<1> HIDE DEF t
<1>5. Ordered(t)
  BY <1>2, <1>4 DEF Ordered
<1>6. ASSUME NEW p PROVE Count(t, p) = Count(s, p)
  <2> DEFINE S == {i \in 1..n : s[i] = p}
             R == {r \in 1..n : t[r] = p}
             f == [r \in R |-> at[r]]
  <2>1. f \in Bijection(R, S)
    <3> HIDE DEF n
    <3>1. f \in [R -> S]
      BY <1>3, <1>4
    <3>2. \A r, q \in R : f[r] = f[q] => r = q
      BY <1>3
    <3>3. \A i \in S : \E r \in R : f[r] = i
      <4> TAKE i \in S
      <4>1. PICK r \in 1..n : at[r] = i
        BY <1>3
      <4>2. r \in R
        BY <1>4, <4>1
      <4> QED BY <4>1, <4>2
    <3> HIDE DEF f, R, S
    <3> QED BY <3>1, <3>2, <3>3 DEF Bijection, Injection, Surjection, IsInjective
  <2>2. IsFiniteSet(R)
    <3>1. R \in SUBSET (1..n)
      OBVIOUS
    <3> HIDE DEF R, n
    <3> QED BY <1>1, <3>1, Counting
  <2> HIDE DEF f
  <2>3. Cardinality(S) = Cardinality(R)
    <3>1. ExistsBijection(R, S)
      BY <2>1, Zenon DEF ExistsBijection
    <3> HIDE DEF R, S
    <3> QED BY <2>2, <3>1, FS_Bijection
  <2> QED BY <1>4, <2>3 DEF Count
<1> QED BY <1>4, <1>5, <1>6 DEF t

\* A pair that counts is there.
LEMMA OccursOnce ==
    ASSUME NEW s \in Seq(Kind), NEW p, Count(s, p) # 0
    PROVE  \E i \in 1..Len(s) : s[i] = p
<1> DEFINE n == Len(s)
           S == {i \in 1..n : s[i] = p}
<1>1. n \in Nat /\ S \in SUBSET (1..n)
  OBVIOUS
<1>2. Cardinality(S) = 0 <=> S = {}
  <2> HIDE DEF n, S
  <2> QED BY <1>1, Counting
<1> QED BY <1>2 DEF Count

\* There is one order for a bag of pairs.
LEMMA OneOrder ==
    ASSUME NEW s \in Seq(Kind), NEW t \in Seq(Kind), Ordered(s), Ordered(t),
           \A p : Count(s, p) = Count(t, p)
    PROVE  s = t
<1> DEFINE Only(v) == \A u \in Seq(Kind) : Ordered(u) /\ (\A p : Count(v, p) = Count(u, p)) => v = u
           S == {v \in Seq(Kind) : Ordered(v) => Only(v)}
<1>1. <<>> \in S
  <2> DEFINE nil == <<>>
  <2>1. \A p : Count(nil, p) = 0
    <3>1. \A p : {i \in 1..Len(nil) : nil[i] = p} = {}
      OBVIOUS
    <3> QED BY <3>1, FS_EmptySet DEF Count
  <2>2. nil \in Seq(Kind)
    OBVIOUS
  <2>3. ASSUME NEW u \in Seq(Kind), \A p : Count(nil, p) = Count(u, p) PROVE nil = u
    <3> SUFFICES ASSUME u # <<>> PROVE FALSE
      OBVIOUS
    <3>1. PICK v \in Seq(Kind), a \in Kind : u = Append(v, a)
      BY SequenceEmptyOrAppend
    <3>2. Count(v, a) \in Nat /\ Count(u, a) = Count(v, a) + 1
      BY <3>1, CountAppend
    <3> HIDE DEF nil
    <3> QED BY <2>1, <2>3, <3>2
  <2> HIDE DEF nil
  <2> QED BY <2>2, <2>3 DEF nil
<1>2. ASSUME NEW v \in S, NEW a \in Kind PROVE Append(v, a) \in S
  <2> DEFINE w == Append(v, a)
             n == Len(v)
  <2>1. v \in Seq(Kind) /\ w \in Seq(Kind) /\ n \in Nat /\ Len(w) = n + 1 /\ w[n + 1] = a
        /\ \A i \in 1..n : w[i] = v[i]
    BY AppendProperties
  <2>2. ASSUME Ordered(w), NEW u \in Seq(Kind), Ordered(u), \A p : Count(w, p) = Count(u, p)
        PROVE  w = u
    <3>1. Count(v, a) \in Nat /\ Count(w, a) = Count(v, a) + 1
      BY <2>1, CountAppend
    <3>2. u # <<>>
      <4> SUFFICES ASSUME u = <<>> PROVE FALSE
        OBVIOUS
      <4>1. {i \in 1..Len(u) : u[i] = a} = {}
        OBVIOUS
      <4>2. Count(u, a) = 0
        BY <4>1, FS_EmptySet DEF Count
      <4> HIDE DEF w, S
      <4> QED BY <2>2, <3>1, <4>2
    <3>3. PICK x \in Seq(Kind), b \in Kind : u = Append(x, b)
      BY <3>2, SequenceEmptyOrAppend
    <3> DEFINE m == Len(x)
    <3>4. m \in Nat /\ Len(u) = m + 1 /\ u[m + 1] = b /\ \A i \in 1..m : u[i] = x[i]
      BY <3>3, AppendProperties
    <3>5. Count(x, b) \in Nat /\ Count(u, b) = Count(x, b) + 1
      BY <3>3, CountAppend
    <3> HIDE DEF w, S, n, m
    <3>6. PICK i \in 1..(m + 1) : u[i] = a
      <4>1. Count(u, a) # 0
        BY <2>2, <3>1
      <4> QED BY <3>4, <4>1, OccursOnce
    <3>7. PICK j \in 1..(n + 1) : w[j] = b
      <4>1. Count(w, b) # 0
        BY <2>2, <3>5
      <4> QED BY <2>1, <4>1, OccursOnce
    <3>8. a = b \/ ~Before(b, a)
      <4>1. i = m + 1 \/ (i < m + 1 /\ i \in 1..Len(u) /\ m + 1 \in 1..Len(u))
        BY <3>4
      <4> QED BY <2>2, <3>4, <3>6, <4>1 DEF Ordered
    <3>9. a = b \/ ~Before(a, b)
      <4>1. j = n + 1 \/ (j < n + 1 /\ j \in 1..Len(w) /\ n + 1 \in 1..Len(w))
        BY <2>1
      <4> QED BY <2>1, <2>2, <3>7, <4>1 DEF Ordered
    <3>10. a = b
      BY <3>8, <3>9, BeforeOrder
    <3>11. Ordered(v) /\ Ordered(x)
      <4>1. \A k, l \in 1..n : k \in 1..Len(w) /\ l \in 1..Len(w)
        BY <2>1
      <4>2. \A k, l \in 1..m : k \in 1..Len(u) /\ l \in 1..Len(u)
        BY <3>4
      <4>3. Ordered(v)
        BY <2>1, <2>2, <4>1 DEF Ordered, n
      <4>4. Ordered(x)
        BY <2>2, <3>4, <4>2 DEF Ordered, m
      <4> QED BY <4>3, <4>4
    <3>12. \A p : Count(v, p) = Count(x, p)
      <4> TAKE p
      <4>1. Count(v, p) \in Nat /\ Count(w, p) = Count(v, p) + (IF a = p THEN 1 ELSE 0)
        BY <2>1, CountAppend DEF w
      <4>2. Count(x, p) \in Nat /\ Count(u, p) = Count(x, p) + (IF b = p THEN 1 ELSE 0)
        BY <3>3, CountAppend
      <4> QED BY <2>2, <3>10, <4>1, <4>2
    <3>13. v = x
      BY <3>11, <3>12 DEF S
    <3> QED BY <3>3, <3>10, <3>13 DEF w
  <2> HIDE DEF w
  <2> QED BY <2>1, <2>2 DEF w
<1> HIDE DEF S
<1>3. S = Seq(Kind)
  <2>1. S \in SUBSET Seq(Kind)
    BY DEF S
  <2> QED BY <1>1, <1>2, <2>1, InductSeq
<1> QED BY <1>3 DEF S

-----------------------------------------------------------------------------
(*****************************************************************************)
(* normalize_query: two queries have one form exactly if they name the same  *)
(* parameters.                                                               *)
(*****************************************************************************)
\* The parameters of a query, and how often each is there.
Keys(query) == {Param(query[i]) : i \in Naming(query)}
Times(query, x) == Cardinality({i \in Naming(query) : Param(query[i]) = x})

\* Parameters says how often each pair occurs.
LEMMA ParametersAre ==
    ASSUME NEW query \in Seq(Legible)
    PROVE  /\ \A p \in Kind : Occurs(query, p) = Times(query, Param(p))
           /\ \A x : x \in Keys(query) <=> \E p \in Kind : x = Param(p) /\ Occurs(query, p) # 0
<1> DEFINE n == Len(query)
<1>1. n \in Nat /\ DOMAIN query = 1..n /\ \A i \in 1..n : query[i] \in Legible
  OBVIOUS
<1>2. Naming(query) = {i \in 1..n : Matters(query[i])}
  BY <1>1 DEF Naming, Matters
<1> DEFINE S(p) == {i \in 1..n : Matters(query[i]) /\ Pair(query[i]) = p}
<1>3. \A p \in Kind : S(p) = {i \in Naming(query) : Param(query[i]) = Param(p)}
  <2> TAKE p \in Kind
  <2> HIDE DEF n
  <2>1. \A i \in 1..n : Matters(query[i]) => (Pair(query[i]) = p <=> Param(query[i]) = Param(p))
    BY <1>1, PieceType
  <2> QED BY <1>2, <2>1
<1>4. \A p : Occurs(query, p) = Cardinality(S(p))
  BY DEF Occurs
<1>5. \A p : Occurs(query, p) = 0 <=> S(p) = {}
  <2> TAKE p
  <2>1. S(p) \in SUBSET (1..n)
    OBVIOUS
  <2> HIDE DEF S, n
  <2>2. Cardinality(S(p)) = 0 <=> S(p) = {}
    BY <1>1, <2>1, Counting
  <2> QED BY <1>4, <2>2
<1>6. \A i \in Naming(query) : Pair(query[i]) \in Kind /\ Param(query[i]) = Param(Pair(query[i]))
  <2> HIDE DEF n
  <2>1. \A i \in Naming(query) : query[i] \in Legible /\ Matters(query[i])
    BY <1>1, <1>2
  <2> QED BY <2>1, PieceType
<1>7. \A p \in Kind : Occurs(query, p) = Times(query, Param(p))
  BY <1>3, <1>4 DEF Times
<1>8. ASSUME NEW x PROVE x \in Keys(query) <=> \E p \in Kind : x = Param(p) /\ Occurs(query, p) # 0
  <2>1. ASSUME x \in Keys(query) PROVE \E p \in Kind : x = Param(p) /\ Occurs(query, p) # 0
    <3>1. PICK i \in Naming(query) : x = Param(query[i])
      BY <2>1 DEF Keys
    <3> DEFINE p == Pair(query[i])
    <3>2. p \in Kind /\ x = Param(p)
      BY <1>6, <3>1
    <3>3. i \in S(p)
      BY <1>2
    <3> HIDE DEF p, S
    <3>4. Occurs(query, p) # 0
      BY <1>5, <3>3
    <3> QED BY <3>2, <3>4
  <2>2. ASSUME NEW p \in Kind, x = Param(p), Occurs(query, p) # 0 PROVE x \in Keys(query)
    <3>1. PICK i \in Naming(query) : Param(query[i]) = Param(p)
      <4> HIDE DEF S
      <4> QED BY <1>3, <1>5, <2>2
    <3> QED BY <2>2, <3>1 DEF Keys
  <2> QED BY <2>1, <2>2
<1> QED BY <1>7, <1>8

\* Two queries name the same parameters if they name each pair as often.
LEMMA SameParameters ==
    ASSUME NEW q \in Seq(Legible), NEW r \in Seq(Legible)
    PROVE  Parameters(q) = Parameters(r) <=> \A p \in Kind : Occurs(q, p) = Occurs(r, p)
<1>1. Parameters(q) = [x \in Keys(q) |-> Times(q, x)] /\ Parameters(r) = [x \in Keys(r) |-> Times(r, x)]
  BY DEF Parameters, Keys, Times
<1>2. /\ \A p \in Kind : Occurs(q, p) = Times(q, Param(p))
      /\ \A x : x \in Keys(q) <=> \E p \in Kind : x = Param(p) /\ Occurs(q, p) # 0
  BY ParametersAre
<1>3. /\ \A p \in Kind : Occurs(r, p) = Times(r, Param(p))
      /\ \A x : x \in Keys(r) <=> \E p \in Kind : x = Param(p) /\ Occurs(r, p) # 0
  BY ParametersAre
<1>4. ASSUME \A p \in Kind : Occurs(q, p) = Occurs(r, p)
      PROVE  Parameters(q) = Parameters(r)
  <2>1. Keys(q) = Keys(r)
    BY <1>2, <1>3, <1>4
  <2>2. \A x \in Keys(q) : Times(q, x) = Times(r, x)
    BY <1>2, <1>3, <1>4
  <2> QED BY <1>1, <2>1, <2>2
<1>5. ASSUME Parameters(q) = Parameters(r), NEW p \in Kind
      PROVE  Occurs(q, p) = Occurs(r, p)
  <2>1. Keys(q) = Keys(r)
    BY <1>1, <1>5
  <2>2. \A x \in Keys(q) : Times(q, x) = Times(r, x)
    BY <1>1, <1>5, <2>1
  <2>3. CASE Param(p) \in Keys(q)
    BY <1>2, <1>3, <2>2, <2>3
  <2>4. CASE Param(p) \notin Keys(q)
    BY <1>2, <1>3, <2>1, <2>4
  <2> QED BY <2>3, <2>4
<1> QED BY <1>4, <1>5

\* What is in Kind is a piece that is kept as it is.
LEMMA KindOccurs ==
    ASSUME NEW s \in Seq(Kind)
    PROVE  s \in Seq(Legible) /\ \A p \in Kind : Occurs(s, p) = Count(s, p)
<1>1. \A a \in Kind : a \in Legible /\ Matters(a) /\ Pair(a) = a
  <2> TAKE a \in Kind
  <2>1. a.key \in Nat \ Undecodable /\ a.value \in {Blank, 1, WithColon, Replacement} /\ a = [key |-> a.key, value |-> a.value]
        /\ a.key \notin Tracking
    BY DEF Kind
  <2>2. a.value # NoValue
    BY <2>1 DEF Blank, WithColon, NoValue, Replacement
  <2>3. a \in Legible
    BY <2>1 DEF Legible
  <2>4. a # EmptyPiece
    BY <2>2 DEF EmptyPiece
  <2> QED BY <2>1, <2>2, <2>3, <2>4 DEF Matters, Pair
<1>2. Kind \subseteq Legible
  BY <1>1
<1>3. s \in Seq(Legible)
  BY <1>2, SeqMonotonic
<1>4. \A i \in 1..Len(s) : s[i] \in Kind
  OBVIOUS
<1>5. ASSUME NEW p \in Kind PROVE Occurs(s, p) = Count(s, p)
  <2>1. {i \in 1..Len(s) : Matters(s[i]) /\ Pair(s[i]) = p} = {i \in 1..Len(s) : s[i] = p}
    BY <1>1, <1>4
  <2> QED BY <2>1 DEF Occurs, Count
<1> QED BY <1>3, <1>5

\* normalize_query of a decoded query.
Form(query) == Sorted(Kept(query))

\* normalize_query writes each parameter that names the page, in order.
LEMMA NormalizeQueryIs ==
    ASSUME NEW query \in Seq(Legible)
    PROVE  /\ Form(query) \in Seq(Kind) /\ Ordered(Form(query))
           /\ \A p : Count(Form(query), p) = Occurs(query, p)
<1>1. Kept(query) \in Seq(Kind) /\ \A p : Count(Kept(query), p) = Occurs(query, p)
  BY KeptCounts
<1> DEFINE kept == Kept(query)
<1> HIDE DEF kept
<1>2. Sorted(kept) \in Seq(Kind) /\ Ordered(Sorted(kept)) /\ \A p : Count(Sorted(kept), p) = Count(kept, p)
  BY <1>1, SortedKeeps DEF kept
<1> QED BY <1>1, <1>2 DEF Form, kept

\* Two queries with the same parameters get one form.
LEMMA OneQuery ==
    ASSUME NEW q \in Seq(Legible), NEW r \in Seq(Legible), Parameters(q) = Parameters(r)
    PROVE  Form(q) = Form(r)
<1> DEFINE s == Form(q)
           t == Form(r)
<1>1. /\ s \in Seq(Kind) /\ Ordered(s) /\ \A p : Count(s, p) = Occurs(q, p)
      /\ t \in Seq(Kind) /\ Ordered(t) /\ \A p : Count(t, p) = Occurs(r, p)
  BY NormalizeQueryIs
<1> HIDE DEF s, t
<1>2. \A p \in Kind : Count(s, p) = Count(t, p)
  BY <1>1, SameParameters
<1>3. \A p : p \notin Kind => Count(s, p) = 0 /\ Count(t, p) = 0
  <2> SUFFICES ASSUME NEW p, p \notin Kind PROVE Count(s, p) = 0 /\ Count(t, p) = 0
    OBVIOUS
  <2>1. \A v \in Seq(Kind) : \A i \in 1..Len(v) : v[i] # p
    OBVIOUS
  <2>2. \A v \in Seq(Kind) : Count(v, p) # 0 => \E i \in 1..Len(v) : v[i] = p
    BY OccursOnce
  <2> QED BY <1>1, <2>1, <2>2
<1>4. \A p : Count(s, p) = Count(t, p)
  BY <1>2, <1>3
<1>5. s = t
  BY <1>1, <1>4, OneOrder
<1> QED BY <1>5 DEF s, t

\* The form has the same parameters.
LEMMA QueryNames ==
    ASSUME NEW query \in Seq(Legible)
    PROVE  Form(query) \in Seq(Legible) /\ Parameters(Form(query)) = Parameters(query)
<1> DEFINE s == Form(query)
<1>1. s \in Seq(Kind) /\ \A p : Count(s, p) = Occurs(query, p)
  BY NormalizeQueryIs
<1> HIDE DEF s
<1>2. s \in Seq(Legible) /\ \A p \in Kind : Occurs(s, p) = Count(s, p)
  BY <1>1, KindOccurs
<1>3. Parameters(s) = Parameters(query)
  BY <1>1, <1>2, SameParameters
<1> QED BY <1>2, <1>3 DEF s

-----------------------------------------------------------------------------
(*****************************************************************************)
(* What parse_qsl decodes: a query has the parameters it had, unless a text  *)
(* of theirs is no UTF-8.                                                    *)
(*****************************************************************************)
Read(piece) == [key |-> Decoded(piece.key), value |-> Decoded(piece.value)]
Odd == Undecodable \cup {Replacement}
IsOdd(param) == ToSet(param) \cap Odd # {}

\* A piece that is decoded names what it named, or an odd text.
LEMMA ReadPiece ==
    ASSUME NEW piece \in Pieces
    PROVE  /\ Read(piece) \in Legible
           /\ (piece \in Legible => Read(piece) = piece)
           /\ Matters(Read(piece)) <=> Matters(piece)
           /\ Matters(piece) => /\ IsOdd(Param(Read(piece))) <=> IsOdd(Param(piece))
                                /\ ~IsOdd(Param(piece)) => Param(Read(piece)) = Param(piece)
<1>1. \A x : Decoded(x) = (IF x \in Undecodable THEN Replacement ELSE x) /\ (Decoded(x) \in Odd <=> x \in Odd)
  BY DEF Decoded, Odd, Undecodable, Replacement
<1>2. \A x, y : ToSet(<<x, y>>) = {x, y}
  BY DEF ToSet
<1>3. \A x, y : IsOdd(<<x, y>>) <=> x \in Odd \/ y \in Odd
  BY <1>2 DEF IsOdd
<1>4. CASE piece = EmptyPiece
  <2>1. None \notin Int
    BY GuardAssumption DEF GuardAssumption
  <2>2. piece.key = None /\ piece.value = NoValue
    BY <1>4 DEF EmptyPiece
  <2>3. Read(piece) = EmptyPiece
    BY <1>1, <2>1, <2>2 DEF Read, EmptyPiece, Undecodable, NoValue
  <2> QED BY <1>4, <2>3 DEF Legible, Matters
<1>5. CASE piece # EmptyPiece
  <2>1. /\ piece.key \in Nat /\ piece.value \in {NoValue, Blank, 1, WithColon, Replacement, 3, 4}
        /\ piece = [key |-> piece.key, value |-> piece.value]
    BY <1>5 DEF Pieces, Texts, Undecodable
  <2>2. /\ Decoded(piece.key) \in Nat \ Undecodable
        /\ Decoded(piece.value) \in {NoValue, Blank, 1, WithColon, Replacement}
    BY <1>1, <2>1 DEF NoValue, Blank, WithColon, Replacement, Undecodable
  <2>3. Read(piece) \in Legible
    BY <2>2 DEF Read, Legible
  <2>4. ASSUME piece \in Legible PROVE Read(piece) = piece
    <3>1. piece.key \notin Undecodable /\ piece.value \notin Undecodable
      BY <1>5, <2>4 DEF Legible, NoValue, Blank, WithColon, Replacement, Undecodable
    <3> QED BY <1>1, <2>1, <3>1 DEF Read
  <2>5. Read(piece) # EmptyPiece /\ Read(piece).key = Decoded(piece.key) /\ Read(piece).value = Decoded(piece.value)
    <3>1. Decoded(piece.key) # None
      BY <2>2, GuardAssumption DEF GuardAssumption
    <3> QED BY <3>1 DEF Read, EmptyPiece
  <2>6. Decoded(piece.key) \in Tracking <=> piece.key \in Tracking
    BY <1>1, IntakeAssumption DEF IntakeAssumption
  <2>7. Decoded(piece.value) = NoValue <=> piece.value = NoValue
    BY <1>1, <2>1 DEF NoValue, Blank, WithColon, Replacement, Undecodable
  <2> DEFINE v == IF piece.value = NoValue THEN Blank ELSE piece.value
  <2>8. Param(piece) = <<piece.key, v>> /\ Param(Read(piece)) = <<Decoded(piece.key), Decoded(v)>>
    <3>1. Decoded(Blank) = Blank
      BY <1>1 DEF Blank, Undecodable
    <3> QED BY <2>5, <2>7, <3>1 DEF Param
  <2> HIDE DEF v
  <2>9. IsOdd(Param(Read(piece))) <=> IsOdd(Param(piece))
    BY <1>1, <1>3, <2>8
  <2>10. ~IsOdd(Param(piece)) => Param(Read(piece)) = Param(piece)
    BY <1>1, <1>3, <2>8 DEF Odd
  <2> QED BY <1>5, <2>3, <2>4, <2>5, <2>6, <2>9, <2>10 DEF Matters
<1> QED BY <1>4, <1>5

\* What parse_qsl makes of a query.
LEMMA DecodedParameters ==
    ASSUME NEW query \in Seq(Pieces)
    PROVE  /\ Decode(query) \in Seq(Legible)
           /\ (query \in Seq(Legible) => Decode(query) = query)
           /\ ClearParameters(Parameters(Decode(query))) <=> ClearParameters(Parameters(query))
           /\ ClearParameters(Parameters(query)) => Parameters(Decode(query)) = Parameters(query)
<1> DEFINE n == Len(query)
           told == Decode(query)
<1>1. n \in Nat /\ DOMAIN query = 1..n /\ \A i \in 1..n : query[i] \in Pieces
  OBVIOUS
<1>2. told = [i \in 1..n |-> Read(query[i])]
  BY <1>1 DEF Decode, Read
<1>3. told \in Seq(Legible) /\ DOMAIN told = 1..n /\ \A i \in 1..n : told[i] = Read(query[i])
  <2> HIDE DEF n, told
  <2>1. \A i \in 1..n : Read(query[i]) \in Legible
    BY <1>1, ReadPiece
  <2> QED BY <1>1, <1>2, <2>1
<1>4. query \in Seq(Legible) => told = query
  <2> SUFFICES ASSUME query \in Seq(Legible) PROVE told = query
    OBVIOUS
  <2>1. query = [i \in 1..n |-> query[i]] /\ \A i \in 1..n : query[i] \in Legible
    OBVIOUS
  <2>2. \A i \in 1..n : Read(query[i]) = query[i]
    BY <1>1, <2>1, ReadPiece
  <2> HIDE DEF n, told
  <2> QED BY <1>2, <2>1, <2>2
<1> HIDE DEF n, told
<1>5. Naming(query) = {i \in 1..n : Matters(query[i])} /\ Naming(told) = {i \in 1..n : Matters(told[i])}
  BY <1>1, <1>3 DEF Naming, Matters
<1>6. /\ Naming(told) = Naming(query)
      /\ \A i \in Naming(query) : /\ IsOdd(Param(told[i])) <=> IsOdd(Param(query[i]))
                                  /\ ~IsOdd(Param(query[i])) => Param(told[i]) = Param(query[i])
  BY <1>1, <1>3, <1>5, ReadPiece
<1>7. \A q : ClearParameters(Parameters(q)) <=> \A i \in Naming(q) : ~IsOdd(Param(q[i]))
  BY DEF ClearParameters, Parameters, IsOdd, Odd
<1>8. ClearParameters(Parameters(told)) <=> ClearParameters(Parameters(query))
  BY <1>6, <1>7
<1>9. ASSUME ClearParameters(Parameters(query)) PROVE Parameters(told) = Parameters(query)
  <2>1. \A i \in Naming(query) : Param(told[i]) = Param(query[i])
    BY <1>6, <1>7, <1>9
  <2> QED BY <1>6, <2>1 DEF Parameters
<1> QED BY <1>3, <1>4, <1>8, <1>9 DEF told

-----------------------------------------------------------------------------
(*****************************************************************************)
(* normalize_url, the rows it is the key of, and the theorems about them.    *)
(*****************************************************************************)
\* The lines that are read as they are written: those that normalize, but for
\* an ideographic full stop behind the host and texts that are no UTF-8.
Good(line) ==
    /\ line \in Lines /\ Rooted(line.path) /\ line.query \in Seq(Legible)
    /\ Outcome(line) = "url" /\ line.host.stop # "ideographic"

\* The host of a key.
Spelling(host) == IF host.spelling \in {"digits", "inet"} THEN host.spelling ELSE "plain"
KeyHost(host) == [name |-> host.name, spelling |-> Spelling(host), stop |-> ""]

\* The fields of the host of a line.
LEMMA HostFields ==
    ASSUME NEW host \in Hosts
    PROVE  /\ host.name \in Names /\ host.spelling \in Spellings /\ host.stop \in Stops
           /\ host.spelling \in AddressSpellings => host.name = "ip"
BY DEF Hosts

\* The host a key is made with is a host of its own kind.
LEMMA HostParts ==
    ASSUME NEW name \in Names, NEW stop \in Stops, NEW spelling \in {"plain", "digits", "inet"},
           spelling # "plain" => name = "ip"
    PROVE  [name |-> name, spelling |-> spelling, stop |-> stop] \in Hosts
BY DEF Hosts, Spellings, AddressSpellings

\* The fields of a host that has been normalized.
LEMMA HostIsFields ==
    /\ \A host : /\ NormalizeHost(host).name = host.name
                 /\ NormalizeHost(host).stop = IF host.stop = "ideographic" THEN "." ELSE ""
    /\ \A host : /\ KeyHost(host).name = host.name /\ KeyHost(host).spelling = Spelling(host)
                 /\ KeyHost(host).stop = ""
<1>1. ASSUME NEW host
      PROVE  /\ NormalizeHost(host).name = host.name
             /\ NormalizeHost(host).stop = IF host.stop = "ideographic" THEN "." ELSE ""
  BY DEF NormalizeHost
<1>2. ASSUME NEW host
      PROVE  /\ KeyHost(host).name = host.name /\ KeyHost(host).spelling = Spelling(host)
             /\ KeyHost(host).stop = ""
  BY DEF KeyHost
<1> QED BY <1>1, <1>2

\* Without an ideographic stop, the host of a key has no stop.
LEMMA HostIs ==
    ASSUME NEW host \in Hosts, host.stop # "ideographic", ~NoInteger(host)
    PROVE  NormalizeHost(host) = KeyHost(host)
BY HostFields DEF NormalizeHost, KeyHost, Spelling, HostSpelling, LooksLikeIpv4, NoInteger,
   Spellings, AddressSpellings

\* None is no number and no reason to skip.
LEMMA NoneApart == None \notin Int /\ None \notin Reasons
BY GuardAssumption, IntakeAssumption DEF GuardAssumption, IntakeAssumption

\* What is known of such a line.
LEMMA GoodLine ==
    ASSUME NEW line, Good(line)
    PROVE  /\ line.scheme \in {"", "http", "https", "ftp"} /\ line.host \in Hosts /\ line.host.name \notin {"[", ""}
           /\ line.port \in Nat \cup {None} /\ line.query \in Seq(Legible) /\ line.fragment \in BOOLEAN
           /\ Scheme(line) \in {"http", "https"} /\ Page(line).scheme = Scheme(line)
           /\ NormalizeHost(line.host) = KeyHost(line.host) /\ NormalizeQuery(line.query) = Form(line.query)
<1>1. /\ line.scheme \in {"", "http", "https", "ftp"} /\ line.host \in Hosts
      /\ line.port \in Nat \cup {None, BadPort} /\ line.query \in Seq(Pieces) /\ line.fragment \in BOOLEAN
      /\ line.query \in Seq(Legible)
  BY DEF Good, Lines
<1>2. line.host.name # "[" /\ line.host.name # "" /\ Scheme(line) \in {"http", "https"} /\ line.port # BadPort
      /\ ~NoInteger(line.host)
  BY DEF Good, Outcome
<1>3. Page(line).scheme = Scheme(line)
  BY <1>1, <1>2 DEF Page, Scheme
<1>4. NormalizeQuery(line.query) = Form(line.query)
  BY <1>1, DecodedParameters DEF NormalizeQuery, Form
<1>5. NormalizeHost(line.host) = KeyHost(line.host)
  BY <1>1, <1>2, HostIs DEF Good
<1> QED BY <1>1, <1>2, <1>3, <1>4, <1>5

\* The port a scheme stands for.
Default(scheme) == IF scheme = "http" THEN 80 ELSE 443

\* The key is told by the page, the spelling of its host, and the forms of path and query.
KeyOf(page, spelling, path, query) ==
    [scheme |-> page.scheme, host |-> [name |-> page.name, spelling |-> spelling, stop |-> ""],
     port |-> IF page.port = Default(page.scheme) THEN None ELSE page.port,
     path |-> path, query |-> query, fragment |-> FALSE]

\* Page, field by field.
LEMMA PageIs ==
    ASSUME NEW line
    PROVE  LET page == Page(line)
           IN  /\ page = [scheme |-> page.scheme, name |-> page.name, port |-> page.port,
                          path |-> page.path, parameters |-> page.parameters]
               /\ page.scheme = IF line.scheme = "" THEN "https" ELSE line.scheme
               /\ page.name = line.host.name
               /\ page.port = IF line.port # None THEN line.port ELSE Default(page.scheme)
               /\ page.path = ResolvedPath(line.path) /\ page.parameters = Parameters(line.query)
BY DEF Page, Default

\* normalize_url of such a line is that key.
LEMMA KeyIs ==
    ASSUME NEW line, Good(line)
    PROVE  NormalizeUrl(line) = KeyOf(Page(line), Spelling(line.host), NormalizePath(line.path), Form(line.query))
<1> DEFINE page == Page(line)
<1>1. /\ line.port \in Nat \cup {None} /\ Scheme(line) \in {"http", "https"} /\ page.scheme = Scheme(line)
      /\ NormalizeHost(line.host) = KeyHost(line.host) /\ NormalizeQuery(line.query) = Form(line.query)
  BY GoodLine
<1>2. page.name = line.host.name /\ (page.port = IF line.port # None THEN line.port ELSE Default(page.scheme))
  BY PageIs
<1> HIDE DEF page
<1>4. NormalizePort(Scheme(line), line.port) = IF line.port = Default(page.scheme) THEN None ELSE line.port
  BY <1>1 DEF NormalizePort, Default
<1>5. NormalizePort(Scheme(line), line.port) = IF page.port = Default(page.scheme) THEN None ELSE page.port
  <2>1. CASE line.port = None
    BY <1>2, <1>4, <2>1
  <2>2. CASE line.port # None
    BY <1>2, <1>4, <2>2
  <2> QED BY <2>1, <2>2
<1> QED BY <1>1, <1>2, <1>5 DEF NormalizeUrl, KeyHost, page, KeyOf

\* Two lines of one page get one key, if their hosts are brought to one spelling.
LEMMA OneKey ==
    ASSUME NEW a, NEW b, Good(a), Good(b), Page(a) = Page(b), Spelling(a.host) = Spelling(b.host)
    PROVE  NormalizeUrl(a) = NormalizeUrl(b)
<1>1. ResolvedPath(a.path) = ResolvedPath(b.path) /\ Parameters(a.query) = Parameters(b.query)
  BY PageIs
<1>2. NormalizePath(a.path) = NormalizePath(b.path)
  BY <1>1, OneForm DEF Good
<1>3. a.query \in Seq(Legible) /\ b.query \in Seq(Legible)
  BY GoodLine
<1>4. Form(a.query) = Form(b.query)
  BY <1>1, <1>3, OneQuery
<1> QED BY <1>2, <1>4, KeyIs

\* A decoded query is a query.
LEMMA LegiblePieces == \A query \in Seq(Legible) : query \in Seq(Pieces)
<1>1. Legible \subseteq Pieces
  BY DEF Legible, Pieces, Texts
<1> QED BY <1>1, SeqMonotonic

\* The key is a line of its page.
LEMMA KeyNames ==
    ASSUME NEW line, Good(line)
    PROVE  LET key == NormalizeUrl(line)
           IN  /\ Good(key) /\ key.host.stop = "" /\ Page(key) = Page(line)
               /\ Spelling(key.host) = Spelling(line.host) /\ key.host.spelling = Spelling(line.host)
<1> DEFINE page == Page(line)
           key == NormalizeUrl(line)
           again == Page(key)
           default == Default(page.scheme)
<1>1. /\ line.host \in Hosts /\ line.host.name \notin {"[", ""} /\ line.port \in Nat \cup {None}
      /\ line.query \in Seq(Legible) /\ page.scheme = Scheme(line) /\ Scheme(line) \in {"http", "https"}
  BY GoodLine
<1>2. /\ page.name = line.host.name /\ (page.port = IF line.port # None THEN line.port ELSE default)
      /\ page.path = ResolvedPath(line.path) /\ page.parameters = Parameters(line.query)
      /\ page = [scheme |-> page.scheme, name |-> page.name, port |-> page.port, path |-> page.path,
                 parameters |-> page.parameters]
  BY PageIs
<1>3. /\ (again.scheme = IF key.scheme = "" THEN "https" ELSE key.scheme) /\ again.name = key.host.name
      /\ (again.port = IF key.port # None THEN key.port ELSE Default(again.scheme))
      /\ again.path = ResolvedPath(key.path) /\ again.parameters = Parameters(key.query)
      /\ again = [scheme |-> again.scheme, name |-> again.name, port |-> again.port, path |-> again.path,
                  parameters |-> again.parameters]
  BY PageIs
<1>4. key = KeyOf(page, Spelling(line.host), NormalizePath(line.path), Form(line.query))
  BY KeyIs
<1> HIDE DEF key, page, again
<1> DEFINE spelling == Spelling(line.host)
<1> HIDE DEF spelling
<1>18. key.host = [name |-> page.name, spelling |-> spelling, stop |-> ""]
  BY <1>4 DEF KeyOf, spelling
<1>5. /\ key.scheme = page.scheme
      /\ (key.port = IF page.port = default THEN None ELSE page.port)
      /\ key.path = NormalizePath(line.path) /\ key.query = Form(line.query) /\ key.fragment = FALSE
  BY <1>4 DEF KeyOf
<1>17. key = [scheme |-> key.scheme, host |-> key.host, port |-> key.port, path |-> key.path,
              query |-> key.query, fragment |-> key.fragment]
  BY <1>4 DEF KeyOf
<1>6. Rooted(key.path) /\ ResolvedPath(key.path) = page.path
  <2>1. Rooted(line.path)
    BY DEF Good
  <2>2. Rooted(NormalizePath(line.path)) /\ ResolvedPath(NormalizePath(line.path)) = ResolvedPath(line.path)
    BY <2>1, FormNames
  <2> QED BY <1>2, <1>5, <2>2
<1>7. key.query \in Seq(Legible) /\ Parameters(key.query) = page.parameters
  BY <1>1, <1>2, <1>5, QueryNames
<1>8. default \in Nat
  BY DEF Default
<1> HIDE DEF default
<1>9. page.port \in Nat
  BY <1>1, <1>2, <1>8
<1>10. key.port \in Nat \cup {None} /\ key.port # BadPort
  <2>1. BadPort \notin Nat /\ BadPort \in Int
    BY DEF BadPort
  <2>2. key.port = None \/ key.port = page.port
    BY <1>5
  <2> QED BY <1>9, <2>1, <2>2, NoneApart
<1>11. key.host.stop = "" /\ key.host.name = page.name /\ key.host.spelling = spelling
       /\ page.name \notin {"[", ""} /\ page.name \in Names
  <2>1. line.host.name \in Names
    BY <1>1, HostFields
  <2>2. key.host.name = page.name /\ key.host.spelling = spelling /\ key.host.stop = ""
    <3> DEFINE made == [name |-> page.name, spelling |-> spelling, stop |-> ""]
    <3>1. made.name = page.name
      OBVIOUS
    <3>2. made.spelling = spelling
      OBVIOUS
    <3>3. made.stop = ""
      OBVIOUS
    <3>4. key.host = made
      BY <1>18
    <3> HIDE DEF made
    <3> QED BY <3>1, <3>2, <3>3, <3>4
  <2> QED BY <1>1, <1>2, <2>1, <2>2
<1>19. spelling \in {"plain", "digits", "inet"} /\ (spelling # "plain" => page.name = "ip")
  BY <1>1, <1>2, HostFields DEF spelling, Spelling, AddressSpellings
<1>12. key.host \in Hosts
  <2>1. "" \in Stops
    BY DEF Stops
  <2> QED BY <1>11, <1>18, <1>19, <2>1, HostParts
<1>20. Spelling(key.host) = spelling /\ ~NoInteger(key.host)
  BY <1>11, <1>19 DEF Spelling, NoInteger
<1>13. key \in Lines
  <2>1. key.path \in Seq(Tokens)
    BY <1>6 DEF Rooted
  <2>2. key.port \in Nat \cup {None, BadPort}
    BY <1>10
  <2>3. key.scheme \in {"", "http", "https", "ftp"} /\ key.fragment \in BOOLEAN
    BY <1>1, <1>5
  <2>4. key.query \in Seq(Pieces)
    BY <1>7, LegiblePieces
  <2> QED BY <1>12, <1>17, <2>1, <2>2, <2>3, <2>4 DEF Lines
<1>14. Scheme(key) = page.scheme
  BY <1>1, <1>5 DEF Scheme
<1>15. Outcome(key) = "url"
  BY <1>1, <1>10, <1>11, <1>14, <1>20 DEF Outcome
<1>16. again = page
  <2>1. again.scheme = page.scheme
    BY <1>1, <1>3, <1>5
  <2>2. again.port = page.port
    <3>1. CASE page.port = default
      BY <1>3, <1>5, <2>1, <3>1 DEF default
    <3>2. CASE page.port # default
      <4>1. key.port = page.port /\ key.port # None
        BY <1>5, <1>9, <3>2, NoneApart
      <4> QED BY <1>3, <4>1
    <3> QED BY <3>1, <3>2
  <2> QED BY <1>2, <1>3, <1>6, <1>7, <1>11, <2>1, <2>2
<1> QED BY <1>6, <1>7, <1>11, <1>13, <1>15, <1>16, <1>20 DEF Good, key, page, again, spelling

\* The normal form of a normal form is that form.
LEMMA KeyStays == ASSUME NEW line, Good(line) PROVE NormalizeUrl(NormalizeUrl(line)) = NormalizeUrl(line)
BY KeyNames, OneKey

-----------------------------------------------------------------------------
\* The lines that normalize, and what the code reads of them.
Listable(line) == line \in Lines /\ Rooted(line.path) /\ Outcome(line) = "url"
Seen(line) ==
    [scheme |-> line.scheme, host |-> NormalizeHost(line.host), port |-> line.port, path |-> line.path,
     query |-> Decode(line.query), fragment |-> line.fragment]

\* Of every line that normalizes, a line is read as it is written; its key is
\* that of the line, but for a root dot an ideographic stop leaves.
LEMMA SeenIs ==
    ASSUME NEW line, Listable(line)
    PROVE  LET seen == Seen(line)
               key == NormalizeUrl(line)
               k == NormalizeUrl(seen)
           IN  /\ Good(seen) /\ key.host = NormalizeHost(line.host) /\ key.host \in Hosts
               /\ key = [scheme |-> k.scheme, host |-> key.host, port |-> k.port, path |-> k.path,
                         query |-> k.query, fragment |-> k.fragment]
               /\ line.host.stop # "ideographic" => key = NormalizeUrl(seen)
               /\ Spelling(seen.host) = NormalizeHost(line.host).spelling
<1> DEFINE seen == Seen(line)
           key == NormalizeUrl(line)
           host == NormalizeHost(line.host)
<1>1. /\ line.scheme \in {"", "http", "https", "ftp"} /\ line.host \in Hosts
      /\ line.port \in Nat \cup {None, BadPort} /\ line.query \in Seq(Pieces) /\ line.fragment \in BOOLEAN
      /\ line.path \in Seq(Tokens)
  BY DEF Listable, Lines
<1>2. line.host.name # "[" /\ line.host.name # "" /\ Scheme(line) \in {"http", "https"} /\ line.port # BadPort
      /\ ~NoInteger(line.host)
  BY DEF Listable, Outcome
<1>3. Decode(line.query) \in Seq(Legible) /\ Decode(line.query) \in Seq(Pieces)
      /\ Decode(Decode(line.query)) = Decode(line.query)
  <2>1. Decode(line.query) \in Seq(Legible)
    BY <1>1, DecodedParameters
  <2>2. Decode(line.query) \in Seq(Pieces)
    BY <2>1, LegiblePieces
  <2> QED BY <2>1, <2>2, DecodedParameters
<1>4. /\ host.name = line.host.name /\ host.stop \in {"", "."}
      /\ host.spelling \in {"plain", "digits", "inet"} /\ (host.spelling # "plain" => host.name = "ip")
      /\ host = [name |-> host.name, spelling |-> host.spelling, stop |-> host.stop]
  BY <1>1, <1>2, HostFields DEF NormalizeHost, HostSpelling, LooksLikeIpv4, NoInteger, AddressSpellings
<1>5. host \in Hosts
  BY <1>1, <1>4, HostFields, HostParts DEF Stops
<1>6. /\ seen.scheme = line.scheme /\ seen.host = host /\ seen.port = line.port /\ seen.path = line.path
      /\ seen.query = Decode(line.query) /\ seen.fragment = line.fragment
      /\ seen = [scheme |-> seen.scheme, host |-> seen.host, port |-> seen.port, path |-> seen.path,
                 query |-> seen.query, fragment |-> seen.fragment]
  BY DEF Seen
<1> HIDE DEF seen, host
<1>7. seen \in Lines
  BY <1>1, <1>3, <1>5, <1>6 DEF Lines
<1>8. Scheme(seen) = Scheme(line)
  <2>1. \A x : Decoded(x) = WithColon <=> x = WithColon
    BY DEF Decoded, WithColon, Undecodable, Replacement
  <2>2. DOMAIN Decode(line.query) = DOMAIN line.query
        /\ \A i \in DOMAIN line.query : /\ Decode(line.query)[i].key = Decoded(line.query[i].key)
                                        /\ Decode(line.query)[i].value = Decoded(line.query[i].value)
    BY DEF Decode
  <2>3. ColonInHead(seen) <=> ColonInHead(line)
    BY <1>6, <2>1, <2>2 DEF ColonInHead
  <2> QED BY <1>6, <2>3 DEF Scheme
<1>9. Outcome(seen) = "url"
  <2>1. ~NoInteger(host)
    BY <1>4 DEF NoInteger
  <2> QED BY <1>2, <1>4, <1>6, <1>8, <2>1 DEF Outcome
<1>10. Good(seen)
  <2>1. Rooted(seen.path)
    BY <1>6 DEF Listable
  <2> QED BY <1>3, <1>4, <1>6, <1>7, <1>9, <2>1 DEF Good
<1>11. Spelling(host) = host.spelling
  BY <1>4 DEF Spelling
<1>12. NormalizeHost(host) = [name |-> host.name, spelling |-> host.spelling, stop |-> ""]
  <2>1. NormalizeHost(host) = KeyHost(host)
    BY <1>6, <1>10, GoodLine
  <2> QED BY <1>11, <2>1 DEF KeyHost
<1> DEFINE port == NormalizePort(Scheme(line), line.port)
           path == NormalizePath(line.path)
           query == NormalizeQuery(line.query)
<1>13. NormalizeQuery(seen.query) = query
  BY <1>3, <1>6 DEF NormalizeQuery
<1>14. key = [scheme |-> Scheme(line), host |-> host, port |-> port, path |-> path,
              query |-> query, fragment |-> FALSE]
  BY DEF NormalizeUrl, host
<1>15. NormalizeUrl(seen) = [scheme |-> Scheme(line), host |-> NormalizeHost(host), port |-> port, path |-> path,
                             query |-> query, fragment |-> FALSE]
  BY <1>6, <1>8, <1>13 DEF NormalizeUrl
<1> DEFINE k == NormalizeUrl(seen)
<1> HIDE DEF key, port, path, query, k
<1>16. /\ key = [scheme |-> k.scheme, host |-> key.host, port |-> k.port, path |-> k.path,
                 query |-> k.query, fragment |-> k.fragment]
       /\ key.host = host
  <2>1. key.host = host
    BY <1>14
  <2>2. /\ k.scheme = Scheme(line) /\ k.port = port /\ k.path = path /\ k.query = query
        /\ k.fragment = FALSE
    BY <1>15 DEF k
  <2> QED BY <1>14, <2>1, <2>2
<1>17. ASSUME line.host.stop # "ideographic" PROVE key = NormalizeUrl(seen)
  <2>1. host = KeyHost(line.host)
    BY <1>1, <1>2, <1>17, HostIs DEF host
  <2>2. host.stop = ""
    BY <2>1 DEF KeyHost
  <2> QED BY <1>4, <1>12, <1>14, <1>15, <2>2
<1> QED BY <1>5, <1>6, <1>10, <1>11, <1>16, <1>17 DEF seen, key, host, k

\* The key of a line that normalizes is a line, too.
LEMMA KeyIsLine ==
    ASSUME NEW line, Listable(line)
    PROVE  NormalizeUrl(line) \in Lines /\ Rooted(NormalizeUrl(line).path)
<1> DEFINE key == NormalizeUrl(line)
           k == NormalizeUrl(Seen(line))
<1>1. /\ Good(Seen(line)) /\ key.host \in Hosts
      /\ key = [scheme |-> k.scheme, host |-> key.host, port |-> k.port, path |-> k.path,
                query |-> k.query, fragment |-> k.fragment]
  BY SeenIs
<1>2. k \in Lines /\ Rooted(k.path)
  BY <1>1, KeyNames DEF Good
<1>3. k = [scheme |-> k.scheme, host |-> k.host, port |-> k.port, path |-> k.path,
           query |-> k.query, fragment |-> k.fragment]
      /\ k.scheme \in {"", "http", "https", "ftp"} /\ k.port \in Nat \cup {None, BadPort}
      /\ k.path \in Seq(Tokens) /\ k.query \in Seq(Pieces) /\ k.fragment \in BOOLEAN
  BY <1>2 DEF Lines
<1> HIDE DEF key, k
<1>4. key = [scheme |-> k.scheme, host |-> key.host, port |-> k.port, path |-> k.path,
             query |-> k.query, fragment |-> k.fragment]
  BY <1>1
<1>5. key \in Lines
  <2> DEFINE host == key.host
  <2>1. host \in Hosts
    BY <1>1
  <2>2. key = [scheme |-> k.scheme, host |-> host, port |-> k.port, path |-> k.path,
               query |-> k.query, fragment |-> k.fragment]
    BY <1>4
  <2> HIDE DEF host
  <2> QED BY <1>3, <2>1, <2>2 DEF Lines
<1>6. Rooted(key.path)
  BY <1>2, <1>4
<1> QED BY <1>5, <1>6 DEF key

\* The rows are the keys of the lines that got one, each with the state that
\* prefilter gave it.
RowsInv ==
    /\ IsFiniteSet(listed) /\ \A line \in listed : Listable(line)
    /\ DOMAIN rows = {NormalizeUrl(line) : line \in listed}
    /\ rows = [key \in DOMAIN rows |-> rows[key]]
    /\ \A key \in DOMAIN rows : rows[key] = "pending" => Prefilter(key) = None

\* add_url of a line that normalizes keeps the rows as they should be.
LEMMA AddUrlKeeps ==
    ASSUME RowsInv, NEW line, Listable(line), AddUrl(line)
    PROVE  RowsInv'
<1> DEFINE key == NormalizeUrl(line)
           reason == Prefilter(key)
           Row(k) == IF k \in DOMAIN rows THEN rows[k] ELSE IF reason = None THEN "pending" ELSE reason
<1>1. rows' = [k \in DOMAIN rows \cup {key} |-> Row(k)] /\ listed' = listed \cup {line}
  BY DEF AddUrl
<1>2. IsFiniteSet(listed') /\ \A l \in listed' : Listable(l)
  <2>1. IsFiniteSet(listed \cup {line})
    BY FS_AddElement DEF RowsInv
  <2> QED BY <1>1, <2>1 DEF RowsInv
<1>3. DOMAIN rows' = DOMAIN rows \cup {key} /\ \A k \in DOMAIN rows' : rows'[k] = Row(k)
  <2> HIDE DEF Row
  <2> QED BY <1>1
<1>4. DOMAIN rows' = {NormalizeUrl(l) : l \in listed'}
  BY <1>1, <1>3 DEF RowsInv
<1>5. rows' = [k \in DOMAIN rows' |-> rows'[k]]
  <2> HIDE DEF Row
  <2> QED BY <1>1, <1>3
<1>6. reason = "pending" => reason = None
  BY DEF Prefilter
<1>7. \A k \in DOMAIN rows' : rows'[k] = "pending" => Prefilter(k) = None
  <2> SUFFICES ASSUME NEW k \in DOMAIN rows', rows'[k] = "pending" PROVE Prefilter(k) = None
    OBVIOUS
  <2> HIDE DEF key
  <2>1. CASE k \in DOMAIN rows
    BY <1>3, <2>1 DEF RowsInv
  <2>2. CASE k \notin DOMAIN rows
    BY <1>3, <1>6, <2>2
  <2> QED BY <2>1, <2>2
<1> QED BY <1>2, <1>4, <1>5, <1>7 DEF RowsInv

\* So does every step: only List and Relist write rows.
LEMMA RowsInvStep == ASSUME RowsInv, [Next]_vars PROVE RowsInv'
<1>1. CASE UNCHANGED <<rows, listed>>
  BY <1>1 DEF RowsInv
<1>2. ASSUME NEW raw \in Raws, List(raw) PROVE RowsInv'
  <2>1. Listable(raw)
    <3>1. raw \in Lines /\ (raw.path # <<>> => Head(raw.path) = "/")
      BY IntakeAssumption DEF IntakeAssumption
    <3>2. raw.path \in Seq(Tokens)
      BY <3>1 DEF Lines
    <3>3. Rooted(raw.path)
      BY <3>1, <3>2 DEF Rooted
    <3> QED BY <1>2, <3>1, <3>3 DEF Listable, List
  <2> QED BY <1>2, <2>1, AddUrlKeeps DEF List
<1>3. ASSUME NEW key \in DOMAIN rows, Relist(key) PROVE RowsInv'
  <2>1. PICK line \in listed : Listable(line) /\ key = NormalizeUrl(line)
    BY DEF RowsInv
  <2>2. Listable(key)
    BY <1>3, <2>1, KeyIsLine DEF Listable, Relist
  <2> QED BY <1>3, <2>2, AddUrlKeeps DEF Relist
<1>4. ASSUME NEW raw, Skip(raw) \/ EndRun(raw) PROVE UNCHANGED <<rows, listed>>
  BY <1>4 DEF Skip, EndRun
<1>5. ASSUME NEW key, Resolve(key) PROVE UNCHANGED <<rows, listed>>
  BY <1>5 DEF Resolve
<1> QED BY <1>1, <1>2, <1>3, <1>4, <1>5 DEF Next, vars

\* There are no rows at first.
LEMMA RowsInvInit == Init => RowsInv
<1> SUFFICES ASSUME Init PROVE RowsInv
  OBVIOUS
<1>1. rows = <<>> /\ listed = {} /\ DOMAIN rows = {}
  BY DEF Init
<1>2. rows = [key \in DOMAIN rows |-> rows[key]]
  BY <1>1
<1> QED BY <1>1, <1>2, FS_EmptySet DEF RowsInv

\* RowsInv is an invariant.
LEMMA RowsInvHolds == Spec => []RowsInv
BY RowsInvInit, RowsInvStep, PTL DEF Spec

\* The key of a line is clear, and of its page, exactly if the line is clear.
LEMMA ClearLines ==
    ASSUME NEW line, Listable(line)
    PROVE  LET key == NormalizeUrl(line)
           IN  /\ Clear(line) <=> Clear(key) /\ key.host.stop = ""
               /\ Clear(line) => /\ Page(key) = Page(line) /\ Page(Seen(line)) = Page(line)
                                 /\ Good(Seen(line)) /\ key = NormalizeUrl(Seen(line))
                                 /\ Spelling(Seen(line).host) = "plain"
<1> DEFINE key == NormalizeUrl(line)
           seen == Seen(line)
           host == NormalizeHost(line.host)
<1>1. /\ Good(seen) /\ key.host = host /\ (line.host.stop # "ideographic" => key = NormalizeUrl(seen))
      /\ Spelling(seen.host) = host.spelling
  BY SeenIs
<1>2. line.host \in Hosts /\ line.query \in Seq(Pieces) /\ ~NoInteger(line.host)
  BY DEF Listable, Lines, Outcome
<1>3. /\ ClearHost(line.host) <=> ClearHost(host) /\ host.stop = ""
      /\ ClearHost(line.host) => host.spelling = "plain"
  <2>1. CASE line.host.stop = "ideographic"
    <3>1. host.stop = "."
      BY <2>1 DEF NormalizeHost
    <3> QED BY <2>1, <3>1 DEF ClearHost
  <2>2. CASE line.host.stop # "ideographic"
    <3>1. host.stop = "" /\ host.spelling = Spelling(line.host)
      BY <1>2, <2>2, HostIs, HostIsFields
    <3> QED BY <2>2, <3>1 DEF ClearHost, Spelling
  <2> QED BY <2>1, <2>2
<1>4. Page(seen).parameters = Parameters(Decode(line.query)) /\ Page(line).parameters = Parameters(line.query)
  BY PageIs DEF Seen
<1>5. /\ ClearParameters(Page(seen).parameters) <=> ClearParameters(Page(line).parameters)
      /\ ClearParameters(Page(line).parameters) => Page(seen).parameters = Page(line).parameters
  BY <1>2, <1>4, DecodedParameters
<1>6. ClearParameters(Page(line).parameters) => Page(seen) = Page(line)
  <2>1. /\ seen.scheme = line.scheme /\ seen.host.name = line.host.name /\ seen.port = line.port
        /\ seen.path = line.path
    BY DEF Seen, NormalizeHost
  <2>2. /\ Page(seen).scheme = Page(line).scheme /\ Page(seen).name = Page(line).name
        /\ Page(seen).port = Page(line).port /\ Page(seen).path = Page(line).path
    <3>1. \A l : /\ Page(l).scheme = IF l.scheme = "" THEN "https" ELSE l.scheme
                 /\ Page(l).name = l.host.name
                 /\ Page(l).port = IF l.port # None THEN l.port ELSE Default(Page(l).scheme)
                 /\ Page(l).path = ResolvedPath(l.path)
      BY PageIs
    <3> HIDE DEF seen
    <3> QED BY <2>1, <3>1
  <2> DEFINE a == Page(seen)
             b == Page(line)
  <2>3. /\ a = [scheme |-> a.scheme, name |-> a.name, port |-> a.port, path |-> a.path, parameters |-> a.parameters]
        /\ b = [scheme |-> b.scheme, name |-> b.name, port |-> b.port, path |-> b.path, parameters |-> b.parameters]
    BY PageIs
  <2> HIDE DEF a, b
  <2> QED BY <1>5, <2>2, <2>3 DEF a, b
<1> HIDE DEF key, seen, host
<1>7. CASE ~ClearHost(line.host)
  BY <1>1, <1>3, <1>7 DEF Clear, key
<1>8. CASE ClearHost(line.host)
  <2>1. key = NormalizeUrl(seen)
    BY <1>1, <1>8 DEF ClearHost
  <2>2. Page(key) = Page(seen)
    BY <1>1, <2>1, KeyNames
  <2> QED BY <1>1, <1>3, <1>5, <1>6, <1>8, <2>1, <2>2 DEF Clear, key, seen
<1> QED BY <1>7, <1>8

\* As many rows as pages, and they are rows of those pages: a page never gets a
\* second row under another spelling, and no row stands for two pages.
THEOREM PagesHaveOneRow == Spec => []OneRowPerPage
<1>1. ASSUME RowsInv PROVE OneRowPerPage
  <2> DEFINE lines == {line \in listed : Clear(line)}
             keys == {key \in DOMAIN rows : Clear(key) /\ key.host.stop = ""}
             pages == {Page(raw) : raw \in lines}
             f == [key \in keys |-> Page(key)]
             g == [raw \in lines |-> NormalizeUrl(raw)]
  <2>1. /\ IsFiniteSet(lines) /\ \A line \in lines : Listable(line) /\ Clear(line)
        /\ keys = {NormalizeUrl(line) : line \in lines}
    <3>1. IsFiniteSet(listed) /\ (\A line \in listed : Listable(line)) /\ DOMAIN rows = {NormalizeUrl(line) : line \in listed}
      BY <1>1 DEF RowsInv
    <3>2. lines \in SUBSET listed
      OBVIOUS
    <3>3. \A line \in listed : Clear(line) <=> Clear(NormalizeUrl(line)) /\ NormalizeUrl(line).host.stop = ""
      BY <3>1, ClearLines
    <3>4. keys = {NormalizeUrl(line) : line \in lines}
      BY <3>1, <3>3
    <3>5. IsFiniteSet(lines)
      <4> HIDE DEF lines
      <4> QED BY <3>1, <3>2, FS_Subset
    <3> QED BY <3>1, <3>4, <3>5
  <2>2. \A line \in lines : NormalizeUrl(line) \in keys /\ Page(NormalizeUrl(line)) = Page(line)
    <3> HIDE DEF keys, lines
    <3> QED BY <2>1, ClearLines
  <2>3. {Page(key) : key \in keys} = pages
    <3> HIDE DEF keys, lines
    <3> QED BY <2>1, <2>2
  <2>4. IsFiniteSet(keys)
    <3>1. g \in Surjection(lines, keys)
      <4> HIDE DEF keys, lines
      <4>1. g \in [lines -> keys] /\ \A key \in keys : \E line \in lines : g[line] = key
        BY <2>1, <2>2
      <4> HIDE DEF g
      <4> QED BY <4>1 DEF Surjection
    <3> HIDE DEF g, keys, lines
    <3> QED BY <2>1, <3>1, FS_Surjection
  <2>5. f \in Bijection(keys, pages)
    <3>1. \A a, b \in keys : Page(a) = Page(b) => a = b
      <4> SUFFICES ASSUME NEW a \in keys, NEW b \in keys, Page(a) = Page(b) PROVE a = b
        OBVIOUS
      <4> HIDE DEF keys, lines
      <4>1. PICK l \in lines : a = NormalizeUrl(l)
        BY <2>1
      <4>2. PICK m \in lines : b = NormalizeUrl(m)
        BY <2>1
      <4>3. /\ Good(Seen(l)) /\ a = NormalizeUrl(Seen(l)) /\ Page(a) = Page(l) /\ Page(Seen(l)) = Page(l)
            /\ Spelling(Seen(l).host) = "plain"
        BY <2>1, <4>1, ClearLines
      <4>4. /\ Good(Seen(m)) /\ b = NormalizeUrl(Seen(m)) /\ Page(b) = Page(m) /\ Page(Seen(m)) = Page(m)
            /\ Spelling(Seen(m).host) = "plain"
        BY <2>1, <4>2, ClearLines
      <4> QED BY <4>3, <4>4, OneKey
    <3> HIDE DEF keys, pages
    <3>2. f \in [keys -> pages] /\ (\A p \in pages : \E key \in keys : f[key] = p) /\ \A a, b \in keys : f[a] = f[b] => a = b
      BY <2>3, <3>1
    <3> HIDE DEF f
    <3> QED BY <3>2 DEF Bijection, Injection, Surjection, IsInjective
  <2>6. Cardinality(pages) = Cardinality(keys)
    <3> HIDE DEF f, keys, pages
    <3>1. ExistsBijection(keys, pages)
      BY <2>5, Zenon DEF ExistsBijection
    <3> QED BY <2>4, <3>1, FS_Bijection
  <2> QED BY <2>3, <2>6 DEF OneRowPerPage
<1> QED BY <1>1, RowsInvHolds, PTL

\* No normal form that is read as a line, in any state a run reaches, adds a row
\* or changes one, but for those an ideographic stop has left a root dot.
THEOREM RelistingAddsNothing == Spec => RelistAddsNothing
<1>1. ASSUME RowsInv, NEW key \in DOMAIN rows, key.host.stop = "", Relist(key) PROVE rows' = rows
  <2>1. PICK line : Listable(line) /\ key = NormalizeUrl(line)
    BY <1>1 DEF RowsInv
  <2>2. Good(Seen(line)) /\ key.host = NormalizeHost(line.host)
        /\ (line.host.stop # "ideographic" => key = NormalizeUrl(Seen(line)))
    BY <2>1, SeenIs
  <2>3. line.host.stop # "ideographic"
    BY <1>1, <2>2, HostIsFields
  <2>4. NormalizeUrl(key) = key
    BY <2>2, <2>3, KeyStays
  <2>5. rows' = [k \in DOMAIN rows |-> rows[k]]
    BY <1>1, <2>4 DEF Relist, AddUrl
  <2> QED BY <1>1, <2>5 DEF RowsInv
<1>2. ASSUME RowsInv PROVE [\A key \in DOMAIN rows : key.host.stop = "" /\ Relist(key) => rows' = rows]_vars
  BY <1>1, <1>2
<1> QED BY <1>2, RowsInvHolds, PTL DEF RelistAddsNothing

-----------------------------------------------------------------------------
(*****************************************************************************)
(* What prefilter sees in a normal form.                                     *)
(*****************************************************************************)
\* A path that ends with a dot and these letters has them for its extension.
LEMMA ExtensionIs ==
    ASSUME NEW path \in Seq(Tokens), NEW n, n = Len(path), n >= 2, path[n - 1] = ".", path[n] = "pdf"
    PROVE  Extension(path) \in NonHtml
<1> DEFINE I == {i \in 1..n : path[i] = "."}
           dot == IF I # {} THEN Max(I) ELSE 0
           ext == SubSeq(path, n - 1, n)
<1>1. n \in Nat
  OBVIOUS
<1>2. n - 1 \in I /\ \A i \in I : i <= n - 1
  BY <1>1
<1>3. dot = n - 1
  <2> DEFINE m == Max(I)
  <2>1. \E x \in I : \A y \in I : x >= y
    BY <1>1, <1>2
  <2>2. m \in I /\ \A y \in I : m >= y
    <3> HIDE DEF I
    <3> QED BY <2>1 DEF Max
  <2>3. m \in Int /\ m = n - 1
    <3> HIDE DEF m
    <3> QED BY <1>1, <1>2, <2>2
  <2> HIDE DEF I, m
  <2> QED BY <1>2, <2>3 DEF m
<1>4. Extension(path) = IF dot = 0 THEN <<>> ELSE SubSeq(path, dot, n)
  BY DEF Extension, SelectLastInSeq
<1>5. Extension(path) = ext
  <2> HIDE DEF dot, I
  <2> QED BY <1>1, <1>3, <1>4
<1>6. ext \in Seq(Tokens) /\ Len(ext) = 2 /\ ext[1] = path[n - 1] /\ ext[2] = path[n]
  BY <1>1
<1> HIDE DEF ext
<1>7. ext = <<".", "pdf">>
  BY <1>6
<1> QED BY <1>5, <1>7 DEF NonHtml

\* The last two octets of a segment, spelled.
LEMMA SuffixOf ==
    ASSUME NEW s \in CleanSegs, IsSuffix(<<"dot", "pdf">>, Oct(s))
    PROVE  LET n == Len(s) IN n >= 2 /\ s[n - 1] = "." /\ s[n] = "pdf"
<1> DEFINE n == Len(s)
           p == Reverse(<<"dot", "pdf">>)
           r == Reverse(Oct(s))
<1>1. s \in Seq(Plainly) /\ Oct(s) \in Segs /\ Len(Oct(s)) = n /\ n \in Nat
  BY PlainlyNamed, OctType DEF CleanSegs
<1>2. p \in Seq(Octets) /\ Len(p) = 2 /\ p[1] = "pdf" /\ p[2] = "dot"
  <2>1. p = [i \in 1..2 |-> <<"dot", "pdf">>[(2 - i) + 1]]
    BY DEF Reverse
  <2>2. \A i \in 1..2 : i = 1 \/ i = 2
    OBVIOUS
  <2>3. "dot" \in Octets /\ "pdf" \in Octets
    BY DEF Octets
  <2>4. p = [i \in 1..2 |-> IF i = 1 THEN "pdf" ELSE "dot"]
    BY <2>1, <2>2
  <2> HIDE DEF p
  <2> QED BY <2>3, <2>4
<1>3. r \in Seq(Octets) /\ Len(r) = n /\ \A i \in 1..n : r[i] = Oct(s)[(n - i) + 1]
  <2>1. r = [i \in 1..n |-> Oct(s)[(n - i) + 1]]
    BY <1>1 DEF Reverse
  <2>2. \A i \in 1..n : Oct(s)[(n - i) + 1] \in Octets
    BY <1>1 DEF Segs
  <2> HIDE DEF r, n
  <2> QED BY <1>1, <2>1, <2>2
<1>4. IsPrefix(p, r)
  BY DEF IsSuffix
<1> HIDE DEF p, r
<1>5. Len(p) <= Len(r) /\ \A i \in 1..Len(p) : r[i] = p[i]
  BY <1>2, <1>3, <1>4, PrefixSays
<1>6. n >= 2 /\ r[1] = "pdf" /\ r[2] = "dot"
  BY <1>2, <1>3, <1>5
<1> HIDE DEF n
<1>7. n \in 1..n /\ n - 1 \in 1..n /\ Oct(s)[n] = "pdf" /\ Oct(s)[n - 1] = "dot"
  <2>1. 1 \in 1..n /\ 2 \in 1..n /\ (n - 1) + 1 = n /\ (n - 2) + 1 = n - 1
    BY <1>1, <1>6
  <2> QED BY <1>1, <1>3, <1>6, <2>1
<1>8. \A i \in 1..n : s[i] \in Plainly /\ Oct(s)[i] = Octet(s[i])
  BY <1>1 DEF Oct, n
<1>9. "pdf" \in Plainly /\ Octet("pdf") = "pdf"
  BY DEF Plainly, Canonical, Tokens, Octet
<1>10. s[n] = "pdf" /\ s[n - 1] = "."
  BY <1>7, <1>8, <1>9, OctetsApart
<1> QED BY <1>6, <1>10 DEF n

\* A path whose last segment names such a file has the extension.
LEMMA FileIsSeen ==
    ASSUME NEW path, Rooted(path), IsSuffix(<<"dot", "pdf">>, Last(ResolvedPath(path)))
    PROVE  Extension(NormalizePath(path)) \in NonHtml
<1>1. PICK fin \in Seq(CleanSegs) :
              /\ fin # <<>> /\ NormalizePath(path) = Short(fin)
              /\ ResolvedPath(path) = Mapped(OctOf, fin)
  BY PathIs
<1>2. PICK f \in Seq(CleanSegs), s \in CleanSegs : fin = Append(f, s)
  BY <1>1, SequenceEmptyOrAppend
<1> DEFINE a == Flat(f)
           b == <<"/">> \o s
           flat == a \o b
           k == Len(a)
           l == Len(s)
<1>3. Last(ResolvedPath(path)) = Oct(s)
  <2>1. \A t \in Seq(CleanSegs), c \in CleanSegs : Mapped(OctOf, Append(t, c)) = Append(Mapped(OctOf, t), OctOf[c])
    BY MapsAppend
  <2>2. ResolvedPath(path) = Append(Mapped(OctOf, f), Oct(s))
    BY <1>1, <1>2, <2>1 DEF OctOf
  <2>3. Mapped(OctOf, f) \in Seq(Segs) /\ Oct(s) \in Segs
    BY AtType, MapsType DEF OctOf
  <2> DEFINE m == Append(Mapped(OctOf, f), Oct(s))
  <2>4. m[Len(m)] = Oct(s)
    BY <2>3, AppendProperties
  <2> QED BY <2>2, <2>4 DEF Last
<1>4. l \in Nat /\ l >= 2 /\ s[l - 1] = "." /\ s[l] = "pdf" /\ s \in Seq(Tokens)
  <2>1. s \in Seq(Plainly)
    BY DEF CleanSegs
  <2> QED BY <1>3, <2>1, SuffixOf, PlainlyNamed
<1>5. a \in Seq(Tokens) /\ k \in Nat /\ Flat(fin) = flat
  BY <1>2, FlatAppend, CanonicalTokens
<1>6. b \in Seq(Tokens) /\ Len(b) = l + 1 /\ b[l] = "." /\ b[l + 1] = "pdf"
  <2>1. <<"/">> \in Seq(Tokens) /\ Len(<<"/">>) = 1
    BY DEF Tokens
  <2> DEFINE slash == <<"/">>
  <2> HIDE DEF slash
  <2>2. \A i \in 1..l : (slash \o s)[i + 1] = s[i]
    BY <1>4, <2>1 DEF slash
  <2>3. slash \o s \in Seq(Tokens) /\ Len(slash \o s) = l + 1
    BY <1>4, <2>1, ConcatProperties DEF slash
  <2>4. l - 1 \in 1..l /\ l \in 1..l /\ (l - 1) + 1 = l
    BY <1>4
  <2> QED BY <1>4, <2>2, <2>3, <2>4 DEF slash
<1> HIDE DEF b, a
<1>7. flat \in Seq(Tokens) /\ Len(flat) = k + l + 1 /\ flat[k + l] = "." /\ flat[k + l + 1] = "pdf"
  <2>1. flat \in Seq(Tokens) /\ Len(flat) = k + Len(b) /\ \A i \in 1..Len(b) : flat[k + i] = b[i]
    <3>1. \A u, v \in Seq(Tokens) : /\ u \o v \in Seq(Tokens) /\ Len(u \o v) = Len(u) + Len(v)
                                    /\ \A i \in 1..Len(v) : (u \o v)[Len(u) + i] = v[i]
      OBVIOUS
    <3> QED BY <1>5, <1>6, <3>1
  <2>2. l \in 1..Len(b) /\ l + 1 \in 1..Len(b) /\ k + (l + 1) = k + l + 1
    BY <1>4, <1>5, <1>6
  <2> HIDE DEF flat, k, l
  <2> QED BY <1>4, <1>5, <1>6, <2>1, <2>2
<1> HIDE DEF flat
<1>8. flat # <<"/">>
  <2>1. Len(flat) # 1
    BY <1>4, <1>5, <1>7
  <2> QED BY <2>1
<1>9. NormalizePath(path) = flat
  BY <1>1, <1>5, <1>8 DEF Short
<1>10. Extension(flat) \in NonHtml
  <2> DEFINE n == k + l + 1
  <2>1. n = Len(flat) /\ n >= 2 /\ flat[n - 1] = "." /\ flat[n] = "pdf"
    <3>1. n - 1 = k + l
      BY <1>4, <1>5
    <3> QED BY <1>4, <1>5, <1>7, <3>1
  <2> HIDE DEF n
  <2> QED BY <1>7, <2>1, ExtensionIs
<1> QED BY <1>9, <1>10

\* Only what prefilter should let through is pending: no spelling of an address
\* that is brought to the canonical one, and none of a file that is no page, gets
\* past it.
THEOREM PendingAreWanted == Spec => []PendingIsWanted
<1>1. ASSUME RowsInv PROVE PendingIsWanted
  <2> SUFFICES ASSUME NEW raw \in listed, rows[NormalizeUrl(raw)] = "pending"
               PROVE  /\ AllowPrivate \/ Page(raw).name # "ip" \/ ~ClearHost(raw.host)
                      /\ ~IsSuffix(<<"dot", "pdf">>, Last(Page(raw).path))
    BY DEF PendingIsWanted
  <2> DEFINE key == NormalizeUrl(raw)
  <2>1. Listable(raw) /\ Prefilter(key) = None
    BY <1>1 DEF RowsInv
  <2>2. key.host = NormalizeHost(raw.host) /\ key.path = NormalizePath(raw.path)
    BY DEF NormalizeUrl
  <2>3. Page(raw).name = raw.host.name /\ Page(raw).path = ResolvedPath(raw.path)
    BY PageIs
  <2> HIDE DEF key
  <2>4. AllowPrivate \/ ~IsIpLiteral(key.host)
    BY <2>1, NoneApart DEF Prefilter, Reasons
  <2>5. ASSUME ClearHost(raw.host), raw.host.name = "ip" PROVE IsIpLiteral(key.host)
    <3>1. raw.host \in Hosts /\ ~NoInteger(raw.host)
      BY <2>1 DEF Listable, Lines, Outcome
    <3>2. NormalizeHost(raw.host) = KeyHost(raw.host) /\ Spelling(raw.host) = "plain"
      BY <2>5, <3>1, HostIs DEF ClearHost, Spelling
    <3> DEFINE host == KeyHost(raw.host)
    <3>3. host.name = raw.host.name /\ host.spelling = Spelling(raw.host) /\ host.stop = ""
      BY HostIsFields
    <3>4. key.host = host
      BY <2>2, <3>2
    <3> HIDE DEF host
    <3> QED BY <2>5, <3>2, <3>3, <3>4 DEF IsIpLiteral
  <2>6. Extension(key.path) \notin NonHtml
    BY <2>1, NoneApart DEF Prefilter, Reasons
  <2>7. ~IsSuffix(<<"dot", "pdf">>, Last(ResolvedPath(raw.path)))
    BY <2>1, <2>2, <2>6, FileIsSeen DEF Listable
  <2> QED BY <2>3, <2>4, <2>5, <2>7
<1> QED BY <1>1, RowsInvHolds, PTL
=============================================================================
