---------------------------- MODULE TopicsProofs ----------------------------
(***************************************************************************)
(* What loading a taxonomy guarantees and what resolving an answer keeps,   *)
(* for every file, every answer and any set of ids.                         *)
(***************************************************************************)
EXTENDS Topics, FiniteSetTheorems, TLAPS

TypeOK ==
    /\ phase \in {"read", "link", "resolve", "walk", "done", "rejected"}
    /\ file \in Seq(Entries)
    /\ known \in SUBSET Ids
    /\ tier \in [Ids -> Int]
    /\ parent \in [Ids -> Ids \cup {None}]
    /\ children \in [Ids -> Seq(Ids)]
    /\ answer \in Seq(Paths) /\ Len(answer) <= 3
    /\ next \in Nat \ {0}
    /\ topics \in Seq(Paths)

\* The entries the loop has passed.
Passed == IF phase \in {"read", "link"} THEN 1..(next - 1) ELSE DOMAIN file

\* The first loop keeps the ids apart.
ReadInv ==
    phase # "rejected" =>
        /\ phase \in {"read", "link"} => next <= Len(file) + 1
        /\ phase = "read" =>
              /\ known = {file[i].id : i \in Passed}
              /\ \A i, j \in Passed : file[i].id = file[j].id => i = j
        /\ phase # "read" =>
              /\ known = {file[i].id : i \in DOMAIN file}
              /\ \A i, j \in DOMAIN file : file[i].id = file[j].id => i = j

\* The ids the second loop has passed.
Linked == IF phase = "read" THEN {} ELSE {file[i].id : i \in Passed}

\* It checks each parent and puts each node once under its own.
LinkInv ==
    phase # "rejected" =>
        /\ \A n \in Ids \ known : parent[n] = None
        /\ \A n \in Linked : Linkable(n)
        /\ \A p \in Ids :
              /\ \A n \in Ids : (n \in Linked /\ parent[n] = p) <=>
                                    \E i \in DOMAIN children[p] : children[p][i] = n
              /\ \A i, j \in DOMAIN children[p] : children[p][i] = children[p][j] => i = j

TreeInv == TypeOK /\ ReadInv /\ LinkInv

-----------------------------------------------------------------------------
\* The ancestors of a root, and of any other node.
LEMMA AboveRoot ==
    ASSUME NEW n \in Ids, parent[n] = None
    PROVE  Above(n) = {}
<1>1. Upward({})
  BY DEF Upward
<1> QED BY <1>1 DEF Above

LEMMA AboveChild ==
    ASSUME TypeOK, NEW n \in Ids, NEW p \in known, parent[n] = p
    PROVE  Above(n) = {p} \cup Above(p)
<1> USE DEF TypeOK, Upward, Above
<1>1. p \in Ids /\ p # None
  BY TopicsAssumption
<1>2. p \in Above(n)
  BY <1>1
<1>3. ASSUME NEW m \in Above(p)
      PROVE  m \in Above(n)
  BY <1>1, <1>3
<1>4. ASSUME NEW m \in Above(n), m # p
      PROVE  m \in Above(p)
  <2> SUFFICES ASSUME NEW nodes \in SUBSET Ids, Upward(nodes), parent[p] \in nodes \cup {None}
               PROVE  m \in nodes
    BY <1>4
  <2> DEFINE more == nodes \cup {p}
  <2>1. more \in SUBSET Ids /\ Upward(more) /\ parent[n] \in more \cup {None}
    BY <1>1
  <2>2. m \in more
    BY <1>4, <2>1
  <2> QED BY <1>4, <2>2
<1> HIDE DEF Above
<1> QED BY <1>2, <1>3, <1>4

\* Where every parent is one tier up, no node is above itself.
LEMMA NobodyAboveItself ==
    ASSUME TypeOK, \A n \in known : Linkable(n), NEW n \in known
    PROVE  n \notin Above(n)
<1> DEFINE higher == {m \in known : tier[m] < tier[n]}
<1>1. higher \in SUBSET Ids /\ n \notin higher
  BY DEF TypeOK
<1>2. Upward(higher) /\ parent[n] \in higher \cup {None}
  <2>1. ASSUME NEW c \in known, parent[c] # None
        PROVE  parent[c] \in known /\ tier[parent[c]] < tier[c] /\ tier[c] \in Int
               /\ tier[parent[c]] \in Int
    BY <2>1 DEF TypeOK, Linkable
  <2>2. tier[n] \in Int
    BY DEF TypeOK
  <2>3. parent[n] \in higher \cup {None}
    BY <2>1
  <2>4. ASSUME NEW c \in higher
        PROVE  parent[c] \in higher \cup {None}
    BY <2>1, <2>2, <2>4
  <2> QED BY <2>3, <2>4 DEF Upward
<1> QED BY <1>1, <1>2 DEF Above

-----------------------------------------------------------------------------
LEMMA InitTree == Init => TreeInv
<1> SUFFICES ASSUME Init PROVE TreeInv
  OBVIOUS
<1> USE DEF Init
<1>1. TypeOK
  BY TopicsAssumption DEF TypeOK
<1>2. ReadInv
  BY <1>1 DEF ReadInv, Passed, TypeOK
<1>3. LinkInv
  BY DEF LinkInv, Linked
<1> QED BY <1>1, <1>2, <1>3 DEF TreeInv

LEMMA EntryTypes ==
    ASSUME TypeOK, NEW i \in 1..Len(file)
    PROVE  file[i].id \in Ids /\ file[i].tier \in Int /\ file[i].parent \in Ids \cup {None}
<1>1. file[i] \in Entries
  BY DEF TypeOK
<1> QED BY <1>1 DEF Entries

\* A turn of the first loop.
LEMMA ReadKeepsTree == ASSUME TreeInv, ReadNode PROVE TreeInv'
<1> USE DEF TreeInv, ReadNode
<1>1. CASE file[next].id \in known
  BY <1>1 DEF Reject, tree, TypeOK, ReadInv, LinkInv
<1>2. CASE file[next].id \notin known
  <2> DEFINE e == file[next]
  <2>1. /\ phase = "read" /\ phase' = "read" /\ next \in 1..Len(file) /\ next' = next + 1
        /\ UNCHANGED <<file, children, answer, topics>>
        /\ known' = known \cup {e.id}
        /\ tier' = [tier EXCEPT ![e.id] = e.tier]
        /\ parent' = [parent EXCEPT ![e.id] = e.parent]
    BY <1>2 DEF TypeOK
  <2>2. e.id \in Ids /\ e.tier \in Int /\ e.parent \in Ids \cup {None}
    BY <2>1, EntryTypes
  <2>3. TypeOK'
    BY <2>1, <2>2 DEF TypeOK
  <2>4. Passed' = Passed \cup {next}
    BY <2>1 DEF Passed
  <2>5. ReadInv'
    BY <1>2, <2>1, <2>4 DEF ReadInv
  <2>6. LinkInv'
    BY <2>1, <2>2 DEF LinkInv, Linked, TypeOK
  <2> QED BY <2>3, <2>5, <2>6
<1> QED BY <1>1, <1>2

LEMMA LinkKeepsTree == ASSUME TreeInv, Link PROVE TreeInv'
<1> USE DEF TreeInv, Link, tree
<1>1. /\ next - 1 = Len(file) /\ Passed = DOMAIN file /\ Passed' = {}
      /\ UNCHANGED <<file, known, tier, parent, children, answer, topics>>
  BY DEF ReadInv, TypeOK, Passed
<1>2. TypeOK'
  BY <1>1 DEF TypeOK
<1>3. ReadInv'
  BY <1>1 DEF ReadInv, TypeOK
<1>4. LinkInv'
  BY <1>1 DEF LinkInv, Linked
<1> QED BY <1>2, <1>3, <1>4

\* A turn of the second loop: the node is new to every list.
LEMMA LinkNodeKeepsTree == ASSUME TreeInv, LinkNode PROVE TreeInv'
<1> USE DEF TreeInv
<1> DEFINE n == file[next].id
<1>1. phase = "link" /\ next \in 1..Len(file) /\ UNCHANGED <<file, known, tier, parent, answer, topics>>
  BY DEF LinkNode, Reject, tree, TypeOK
<1>2. CASE ~Linkable(n)
  BY <1>2 DEF LinkNode, Reject, tree, TypeOK, ReadInv, LinkInv
<1>3. CASE Linkable(n)
  <2>1. /\ phase' = phase /\ next' = next + 1
        /\ children' = IF parent[n] = None THEN children
                       ELSE [children EXCEPT ![parent[n]] = Append(@, n)]
    BY <1>3 DEF LinkNode, Reject
  <2>2. n \in Ids /\ parent[n] \in Ids \cup {None}
    BY <1>1, EntryTypes DEF TypeOK
  <2>3. TypeOK'
    BY <1>1, <2>1, <2>2 DEF TypeOK
  <2>4. Passed' = Passed \cup {next} /\ Linked' = Linked \cup {n} /\ n \notin Linked
    <3>1. Passed' = Passed \cup {next} /\ next \notin Passed /\ Passed \subseteq DOMAIN file
      BY <1>1, <2>1 DEF Passed
    <3> QED BY <1>1, <2>1, <3>1 DEF Linked, ReadInv
  <2>5. ReadInv'
    BY <1>1, <2>1 DEF ReadInv
  <2>6. \A m \in Linked' : Linkable(m)'
    BY <1>1, <1>3, <2>4 DEF LinkInv, Linkable
  <2>7. ASSUME NEW p \in Ids
        PROVE  /\ \A m \in Ids : (m \in Linked' /\ parent[m] = p) <=>
                                    \E i \in DOMAIN children'[p] : children'[p][i] = m
               /\ \A i, j \in DOMAIN children'[p] : children'[p][i] = children'[p][j] => i = j
    <3>1. /\ \A m \in Ids : (m \in Linked /\ parent[m] = p) <=>
                                    \E i \in DOMAIN children[p] : children[p][i] = m
          /\ \A i, j \in DOMAIN children[p] : children[p][i] = children[p][j] => i = j
      BY <1>1 DEF LinkInv
    <3>2. CASE parent[n] # p
      <4>1. children'[p] = children[p]
        BY <2>1, <2>2, <3>2 DEF TypeOK
      <4> QED BY <2>4, <3>1, <3>2, <4>1
    <3>3. CASE parent[n] = p
      <4>1. children[p] \in Seq(Ids) /\ children'[p] = Append(children[p], n)
        BY <2>1, <2>2, <3>3, TopicsAssumption DEF TypeOK
      <4>2. \A i \in DOMAIN children[p] : children[p][i] # n
        BY <2>2, <2>4, <3>1
      <4>3. /\ DOMAIN children'[p] = DOMAIN children[p] \cup {Len(children[p]) + 1}
            /\ children'[p][Len(children[p]) + 1] = n
            /\ \A i \in DOMAIN children[p] : children'[p][i] = children[p][i]
        BY <2>2, <4>1
      <4> QED BY <2>2, <2>4, <3>1, <3>3, <4>2, <4>3
    <3> QED BY <3>2, <3>3
  <2>8. LinkInv'
    BY <1>1, <2>1, <2>6, <2>7, SMTT(30) DEF LinkInv
  <2> QED BY <2>3, <2>5, <2>8
<1> QED BY <1>2, <1>3

\* The call, and all that comes after it, leaves the taxonomy alone.
LEMMA RestKeepsTree ==
    ASSUME TreeInv, TypeOK', UNCHANGED <<file, tree>>, Passed = DOMAIN file,
           phase \notin {"read", "rejected"}, Loaded'
    PROVE  TreeInv'
<1>1. Passed' = DOMAIN file' /\ Linked' = Linked
  BY DEF Passed, Linked, Loaded
<1>2. ReadInv'
  BY <1>1 DEF TreeInv, ReadInv, tree, Loaded
<1>3. LinkInv'
  BY <1>1 DEF TreeInv, LinkInv, tree, Linkable
<1> QED BY <1>2, <1>3 DEF TreeInv

-----------------------------------------------------------------------------
\* Where the resolving stands: the walk is on its way up from the second id, and
\* whether it will meet the first one is what it was at the start.
Walking ==
    phase = "walk" =>
        /\ next <= Len(answer) /\ TopTier(Topic.tier1) /\ Topic.tier2 \in known
        /\ cur \in known
        /\ Topic.tier1 \in Above(Topic.tier2) <=> Topic.tier1 \in Above(cur)

\* What the first k pairs mean, where their topics go, and the topics kept.
Means(k) == [j \in 1..k |-> Meaning(answer[j])]
Places(k) == [j \in 1..k |-> Cardinality({i \in Named(k) : i <= j})]
Kept(k) == {j \in 1..k : TopTier(answer[j].tier1)}
Collected(k) ==
    /\ IsFiniteSet(Named(k)) /\ Len(topics) = Cardinality(Named(k))
    /\ \A j \in Named(k) : topics[Places(k)[j]] = Means(k)[j]
    /\ \A i \in DOMAIN topics : \E j \in Kept(k) : topics[i] = Means(k)[j]
    /\ \A j \in Kept(k) : \E i \in DOMAIN topics : topics[i] = Means(k)[j]

TopicsInv ==
    /\ phase \in {"read", "link"} => answer = <<>> /\ topics = <<>>
    /\ phase \in {"resolve", "walk"} => next <= Len(answer) + 1 /\ Collected(next - 1)
    /\ phase = "done" => Collected(Len(answer))
    /\ Walking

\* With the tree and the answer as they are, every pair means what it meant.
LEMMA SameMeaning ==
    ASSUME UNCHANGED <<tree, answer>>, NEW k \in Nat
    PROVE  /\ Means(k)' = Means(k) /\ Named(k)' = Named(k) /\ Kept(k)' = Kept(k)
           /\ Places(k)' = Places(k)
<1>1. Means(k)' = Means(k) /\ Named(k)' = Named(k) /\ Kept(k)' = Kept(k)
  BY DEF tree, Means, Meaning, Above, Upward, Named, Kept, TopTier
<1>2. Places(k)' = Places(k)
  BY <1>1 DEF Places
<1> QED BY <1>1, <1>2

\* So what has been collected is a matter of the new topics alone.
LEMMA CollectedThen ==
    ASSUME NEW k \in Nat, UNCHANGED <<tree, answer>>,
           IsFiniteSet(Named(k)), Len(topics') = Cardinality(Named(k)),
           \A j \in Named(k) : topics'[Places(k)[j]] = Means(k)[j],
           \A i \in DOMAIN topics' : \E j \in Kept(k) : topics'[i] = Means(k)[j],
           \A j \in Kept(k) : \E i \in DOMAIN topics' : topics'[i] = Means(k)[j]
    PROVE  Collected(k)'
<1>1. /\ Named(k)' = Named(k) /\ Kept(k)' = Kept(k) /\ Means(k)' = Means(k)
      /\ Places(k)' = Places(k)
  BY SameMeaning
<1> QED BY <1>1 DEF Collected

LEMMA StaysCollected ==
    ASSUME NEW k \in Nat, Collected(k), UNCHANGED <<tree, answer, topics>>
    PROVE  Collected(k)'
BY CollectedThen DEF Collected

LEMMA NothingNamed == Named(0) = {} /\ Kept(0) = {}
BY DEF Named, Kept

\* A pair whose first id is unknown adds nothing.
LEMMA SkipCollects ==
    ASSUME NEW k \in Nat \ {0}, Collected(k - 1), ~TopTier(answer[k].tier1),
           UNCHANGED <<tree, answer, topics>>
    PROVE  Collected(k)'
<1>1. Named(k) = Named(k - 1) /\ Kept(k) = Kept(k - 1)
  BY DEF Named, Kept
<1>2. \A j \in Kept(k - 1) : Means(k)[j] = Means(k - 1)[j]
  BY DEF Kept, Means
<1>3. \A j \in Named(k - 1) : Places(k)[j] = Places(k - 1)[j]
  <2>1. Named(k - 1) \subseteq 1..(k - 1)
    BY DEF Named
  <2> QED BY <1>1, <2>1 DEF Places
<1>4. Named(k - 1) \subseteq Kept(k - 1)
  BY DEF Named, Kept
<1>5. Collected(k)
  BY <1>1, <1>2, <1>3, <1>4, SMTT(30) DEF Collected
<1> QED BY <1>5, CollectedThen DEF Collected

\* A pair whose first id is known adds what it means, unless that is there.
LEMMA KeepCollects ==
    ASSUME NEW k \in Nat \ {0}, Collected(k - 1), TopTier(answer[k].tier1),
           UNCHANGED <<tree, answer>>, topics \in Seq(Paths),
           NEW path \in Paths, path = Meaning(answer[k]),
           topics' = IF \E i \in DOMAIN topics : topics[i] = path THEN topics ELSE Append(topics, path)
    PROVE  Collected(k)'
<1> DEFINE old == Named(k - 1)
           mean == Means(k)
           place == Places(k)
<1>1. Kept(k) = Kept(k - 1) \cup {k} /\ k \notin Kept(k - 1) /\ old \subseteq Kept(k - 1)
  BY DEF Kept, Named
<1>2. mean[k] = path /\ \A j \in Kept(k - 1) : mean[j] = Means(k - 1)[j]
  BY DEF Kept, Means
<1>3. /\ IsFiniteSet(old) /\ Len(topics) = Cardinality(old)
      /\ \A j \in old : topics[Places(k - 1)[j]] = mean[j]
      /\ \A i \in DOMAIN topics : \E j \in Kept(k - 1) : topics[i] = mean[j]
      /\ \A j \in Kept(k - 1) : \E i \in DOMAIN topics : topics[i] = mean[j]
  BY <1>1, <1>2 DEF Collected
<1>4. Named(k) = IF \E j \in Kept(k - 1) : mean[j] = mean[k] THEN old ELSE old \cup {k}
  <2>1. Named(k) \subseteq 1..k /\ old \subseteq 1..(k - 1)
    BY DEF Named
  <2>2. \A j \in 1..(k - 1) : j \in Named(k) <=> j \in old
    BY DEF Named
  <2>3. k \in Named(k) <=> ~\E j \in Kept(k - 1) : Meaning(answer[j]) = Meaning(answer[k])
    BY DEF Named, Kept
  <2>4. \A j \in 1..k : mean[j] = Meaning(answer[j])
    BY DEF Means
  <2>5. Kept(k - 1) \subseteq 1..k
    BY DEF Kept
  <2>6. 1..k = 1..(k - 1) \cup {k}
    OBVIOUS
  <2>7. k \in Named(k) <=> ~\E j \in Kept(k - 1) : mean[j] = mean[k]
    BY <2>3, <2>4, <2>5
  <2>8. CASE k \in Named(k)
    <3>1. Named(k) = old \cup {k}
      BY <2>1, <2>2, <2>6, <2>8
    <3> QED BY <2>7, <2>8, <3>1
  <2>9. CASE k \notin Named(k)
    <3>1. Named(k) = old
      BY <2>1, <2>2, <2>6, <2>9
    <3> QED BY <2>7, <2>9, <3>1
  <2> QED BY <2>8, <2>9
<1> HIDE DEF mean, place
<1>5. CASE \E i \in DOMAIN topics : topics[i] = path
  <2>1. Named(k) = old
    BY <1>2, <1>3, <1>4, <1>5
  <2>2. topics' = topics
    BY <1>5
  <2>3. \A i \in DOMAIN topics' : \E j \in Kept(k) : topics'[i] = mean[j]
    BY <1>1, <1>3, <2>2
  <2>4. \A j \in Kept(k) : \E i \in DOMAIN topics' : topics'[i] = mean[j]
    BY <1>1, <1>2, <1>3, <1>5, <2>2
  <2>5. \A j \in old : place[j] = Places(k - 1)[j]
    BY <1>1, <2>1 DEF Kept, Places, place
  <2>6. \A j \in Named(k) : topics'[place[j]] = mean[j]
    BY <1>3, <2>1, <2>2, <2>5
  <2>7. IsFiniteSet(Named(k)) /\ Len(topics') = Cardinality(Named(k))
    BY <1>3, <2>1, <2>2
  <2> QED BY <2>3, <2>4, <2>6, <2>7, CollectedThen DEF mean, place
<1>6. CASE ~\E i \in DOMAIN topics : topics[i] = path
  <2>1. topics' = Append(topics, path)
    BY <1>6
  <2>2. /\ DOMAIN topics' = DOMAIN topics \cup {Len(topics) + 1} /\ Len(topics') = Len(topics) + 1
        /\ \A i \in DOMAIN topics : topics'[i] = topics[i]
        /\ topics'[Len(topics) + 1] = path
    BY <2>1
  <2>3. Named(k) = old \cup {k} /\ k \notin old
    BY <1>1, <1>2, <1>3, <1>4, <1>6
  <2>4. IsFiniteSet(Named(k)) /\ Cardinality(Named(k)) = Len(topics')
    <3>1. IsFiniteSet(old \cup {k}) /\ Cardinality(old \cup {k}) = Cardinality(old) + 1
      BY <1>3, <2>3, FS_AddElement
    <3> QED BY <1>3, <2>2, <2>3, <3>1
  <2>5. ASSUME NEW j \in old
        PROVE  topics'[place[j]] = mean[j]
    <3>1. j \in 1..(k - 1)
      BY DEF Named
    <3>2. place[j] = Places(k - 1)[j]
      <4>1. {i \in Named(k) : i <= j} = {i \in old : i <= j}
        BY <2>3, <3>1
      <4> QED BY <3>1, <4>1 DEF Places, place
    <3>3. Places(k - 1)[j] \in DOMAIN topics
      <4> DEFINE upto == {i \in old : i <= j}
      <4>1. upto \subseteq old /\ j \in upto
        BY DEF Named
      <4>2. IsFiniteSet(upto) /\ Cardinality(upto) <= Cardinality(old) /\ Cardinality(upto) \in Nat
        BY <1>3, <4>1, FS_Subset, FS_CardinalityType
      <4>3. Cardinality(upto) # 0
        BY <4>1, <4>2, FS_EmptySet
      <4> HIDE DEF upto
      <4>4. Cardinality(upto) \in DOMAIN topics
        BY <1>3, <4>2, <4>3
      <4> QED BY <3>1, <4>4 DEF upto, Places
    <3> QED BY <1>3, <2>2, <3>2, <3>3
  <2>6. topics'[place[k]] = mean[k]
    <3>1. {i \in Named(k) : i <= k} = Named(k)
      BY DEF Named
    <3>2. place[k] = Len(topics')
      BY <2>4, <3>1 DEF Places, place
    <3> QED BY <1>2, <2>2, <3>2
  <2>7. \A j \in Named(k) : topics'[place[j]] = mean[j]
    BY <2>3, <2>5, <2>6
  <2>8. \A i \in DOMAIN topics' : \E j \in Kept(k) : topics'[i] = mean[j]
    BY <1>1, <1>2, <1>3, <2>2, SMTT(30)
  <2>9. \A j \in Kept(k) : \E i \in DOMAIN topics' : topics'[i] = mean[j]
    BY <1>1, <1>2, <1>3, <2>2
  <2> QED BY <2>4, <2>7, <2>8, <2>9, CollectedThen DEF mean, place
<1> QED BY <1>5, <1>6

LEMMA CountUpTo == ASSUME NEW n \in Nat PROVE IsFiniteSet(1..n) /\ Cardinality(1..n) = n
<1>1. IsFiniteSet(1..n)
  BY FS_Interval, 1 \in Int
<1>2. Cardinality(1..n) = IF 1 > n THEN 0 ELSE n - 1 + 1
  BY FS_Interval, 1 \in Int
<1> QED BY <1>1, <1>2

-----------------------------------------------------------------------------
\* Every turn of the two loops of to_verdict.
LEMMA ResolveKeeps == ASSUME TreeInv, TopicsInv, Resolve PROVE TypeOK' /\ TopicsInv' /\ Loaded'
<1> USE DEF TreeInv, TypeOK, Resolving
<1>1. PICK k \in Nat \ {0} : k = next
  OBVIOUS
<1>2. UNCHANGED <<file, tree, answer>> /\ phase \in {"resolve", "walk"}
  BY DEF Resolve, DropTopic, KeepTop, StartWalk, Walk, Return, Keep
<1>3. UNCHANGED <<known, tier, parent, children>>
  BY <1>2 DEF tree
<1>4. Collected(k - 1)
  BY <1>1, <1>2 DEF TopicsInv
<1>5. k - 1 \in Nat
  OBVIOUS
<1>6. ASSUME next <= Len(answer)
      PROVE  answer[k] \in Paths /\ Topic = answer[k] /\ Topic \in Paths /\ Top \in Paths
  <2>1. answer[k] \in Paths
    BY <1>1, <1>6
  <2> QED BY <1>1, <2>1 DEF Topic, Top, Paths
<1>7. ASSUME NEW path \in Paths, Keep(path), next <= Len(answer), TopTier(Topic.tier1),
             path = Meaning(Topic)
      PROVE  TypeOK' /\ TopicsInv' /\ Loaded'
  <2>1. Collected(k)'
    BY <1>1, <1>2, <1>4, <1>7, KeepCollects DEF Keep, Topic
  <2>2. phase' = "resolve" /\ next' = k + 1 /\ topics' \in Seq(Paths)
    BY <1>1, <1>7 DEF Keep
  <2>3. Collected(next - 1)'
    <3>1. next' - 1 = k
      BY <1>1, <2>2
    <3> QED BY <2>1, <3>1
  <2>4. TypeOK'
    BY <1>2, <1>3, <1>7, <2>2
  <2> QED BY <1>1, <1>2, <1>7, <2>2, <2>3, <2>4 DEF TopicsInv, Walking, Loaded
<1>8. CASE DropTopic
  <2>1. Collected(k)'
    BY <1>1, <1>2, <1>4, <1>8, SkipCollects DEF DropTopic, Topic
  <2>2. phase' = "resolve" /\ next' = k + 1 /\ topics' = topics /\ next <= Len(answer)
    BY <1>1, <1>8 DEF DropTopic
  <2>3. Collected(next - 1)'
    <3>1. next' - 1 = k
      BY <1>1, <2>2
    <3> QED BY <2>1, <3>1
  <2>4. TypeOK'
    BY <1>1, <1>2, <1>3, <2>2
  <2> QED BY <1>1, <1>2, <2>2, <2>3, <2>4 DEF TopicsInv, Walking, Loaded
<1>9. CASE KeepTop
  <2>1. Meaning(Topic) = Top
    <3>1. Topic \in Paths /\ Topic.tier2 \notin known
      BY <1>6, <1>9 DEF KeepTop
    <3> QED BY <3>1 DEF Meaning, Top, Paths
  <2> QED BY <1>6, <1>7, <1>9, <2>1 DEF KeepTop
<1>10. CASE StartWalk
  <2>1. /\ phase' = "walk" /\ next' = next /\ topics' = topics /\ cur' = Topic.tier2
        /\ next <= Len(answer) /\ TopTier(Topic.tier1) /\ Topic.tier2 \in known
    BY <1>10 DEF StartWalk
  <2>2. TypeOK'
    BY <1>2, <1>3, <2>1
  <2>3. Collected(next - 1)'
    <3>1. Collected(k - 1)'
      BY <1>2, <1>4, <1>5, <2>1, StaysCollected
    <3>2. next' - 1 = k - 1
      BY <1>1, <2>1
    <3> QED BY <3>1, <3>2
  <2>4. Topic' = Topic /\ UNCHANGED <<answer, known, tier, parent>>
    BY <1>2, <1>3, <2>1 DEF Topic
  <2>5. Walking'
    BY <2>1, <2>4 DEF Walking, TopTier, Above, Upward
  <2> QED BY <1>2, <2>1, <2>2, <2>3, <2>5 DEF TopicsInv, Loaded
<1>11. CASE Walk
  <2>1. /\ phase = "walk" /\ next <= Len(answer) /\ TopTier(Topic.tier1) /\ Topic.tier2 \in known
        /\ cur \in known /\ cur \in Ids
        /\ Topic.tier1 \in Above(Topic.tier2) <=> Topic.tier1 \in Above(cur)
    BY <1>11 DEF Walk, TopicsInv, Walking
  <2>2. Topic \in Paths /\ Top \in Paths /\ Topic.tier1 \in Ids
    BY <1>6, <2>1 DEF Paths
  <2>3. parent[cur] = None \/ parent[cur] \in known
    <3>1. cur \in Linked
      <4>1. phase = "walk"
        BY <2>1
      <4>2. known = {file[i].id : i \in DOMAIN file}
        BY <4>1 DEF ReadInv
      <4>3. Linked = {file[i].id : i \in DOMAIN file}
        BY <4>1 DEF Linked, Passed
      <4> QED BY <2>1, <4>2, <4>3
    <3> QED BY <2>1, <3>1 DEF LinkInv, Linkable
  <2>4. CASE parent[cur] = None /\ Keep(Top)
    <3>1. Topic.tier1 \notin Above(Topic.tier2)
      BY <2>1, <2>4, AboveRoot
    <3>2. Meaning(Topic) = Top
      BY <2>2, <3>1 DEF Meaning, Top, Paths
    <3> QED BY <1>7, <2>1, <2>2, <2>4, <3>2
  <2>5. CASE parent[cur] = Topic.tier1 /\ Keep(Topic)
    <3>1. parent[cur] # None
      BY <2>2, <2>5, TopicsAssumption
    <3>2. Topic.tier1 \in Above(Topic.tier2)
      <4>1. PICK p \in known : p = parent[cur]
        BY <2>3, <3>1
      <4>2. Above(cur) = {p} \cup Above(p)
        BY <2>1, <4>1, AboveChild
      <4> QED BY <2>1, <2>5, <4>1, <4>2
    <3>3. Meaning(Topic) = Topic
      BY <2>1, <3>2 DEF Meaning
    <3> QED BY <1>7, <2>1, <2>2, <2>5, <3>3
  <2>6. CASE /\ parent[cur] \notin {None, Topic.tier1} /\ cur' = parent[cur]
             /\ UNCHANGED <<phase, file, tree, answer, next, topics>>
    <3>1. Topic' = Topic /\ UNCHANGED <<answer, known, tier, parent>>
      BY <1>3, <2>6 DEF Topic
    <3>2. Topic.tier1 \in Above(cur) <=> Topic.tier1 \in Above(parent[cur])
      <4>1. PICK p \in known : p = parent[cur]
        BY <2>3, <2>6
      <4>2. Above(cur) = {p} \cup Above(p)
        BY <2>1, <4>1, AboveChild
      <4> QED BY <2>6, <4>1, <4>2
    <3>3. Walking'
      <4>1. Above(Topic.tier2)' = Above(Topic.tier2) /\ Above(cur)' = Above(parent[cur])
        BY <2>6, <3>1 DEF Above, Upward
      <4> QED BY <2>1, <2>3, <2>6, <3>1, <3>2, <4>1 DEF Walking, TopTier
    <3>4. Collected(next - 1)'
      <4>1. Collected(k - 1)'
        BY <1>2, <1>4, <1>5, <2>6, StaysCollected
      <4>2. next' - 1 = k - 1
        BY <1>1, <2>6
      <4> QED BY <4>1, <4>2
    <3>5. TypeOK'
      BY <1>2, <1>3, <2>6
    <3> QED BY <2>1, <2>6, <3>3, <3>4, <3>5 DEF TopicsInv, Loaded
  <2> QED BY <1>11, <2>4, <2>5, <2>6 DEF Walk
<1>12. CASE Return
  <2>1. k - 1 = Len(answer) /\ phase' = "done" /\ next' = next /\ Len(answer) \in Nat
    BY <1>1, <1>12 DEF Return, TopicsInv
  <2>2. Len(topics) <= 3
    <3>1. Named(k - 1) \subseteq 1..(k - 1)
      BY DEF Named
    <3>2. IsFiniteSet(1..(k - 1)) /\ Cardinality(1..(k - 1)) = k - 1
      BY <1>5, CountUpTo
    <3>3. Cardinality(Named(k - 1)) <= k - 1
      BY <3>1, <3>2, FS_Subset
    <3> QED BY <1>4, <2>1, <3>3 DEF Collected
  <2>3. topics' = topics
    BY <1>12, <2>2 DEF Return
  <2>4. Collected(k - 1)'
    BY <1>2, <1>4, <1>5, <2>3, StaysCollected
  <2>5. Collected(Len(answer))'
    <3>1. Len(answer') = k - 1
      BY <1>2, <2>1
    <3> QED BY <2>4, <3>1
  <2>6. TypeOK'
    BY <1>2, <1>3, <2>1, <2>3
  <2> QED BY <2>1, <2>5, <2>6 DEF TopicsInv, Walking, Loaded
<1> QED BY <1>8, <1>9, <1>10, <1>11, <1>12 DEF Resolve

-----------------------------------------------------------------------------
FullInv == TreeInv /\ TopicsInv

LEMMA NextKeeps == ASSUME FullInv, [Next]_vars PROVE FullInv'
<1> USE DEF FullInv
<1>1. CASE Load
  <2>1. TreeInv'
    BY <1>1, ReadKeepsTree, LinkKeepsTree, LinkNodeKeepsTree DEF Load
  <2>2. phase \in {"read", "link"} /\ phase' \in {"read", "link", "rejected"}
        /\ UNCHANGED <<answer, topics>>
    BY <1>1 DEF Load, ReadNode, Link, LinkNode, Reject
  <2>3. TopicsInv'
    BY <2>2 DEF TopicsInv, Walking
  <2> QED BY <2>1, <2>3
<1>2. CASE Call
  <2>1. /\ phase = "link" /\ phase' = "resolve" /\ next' = 1 /\ answer' \in Answers
        /\ UNCHANGED <<file, tree, topics>> /\ topics = <<>>
    BY <1>2 DEF Call, TopicsInv
  <2>2. TypeOK' /\ Loaded'
    BY <2>1, TopicsAssumption DEF TreeInv, TypeOK, tree, Loaded
  <2>3. Passed = DOMAIN file
    BY <1>2, <2>1 DEF Call, Passed, TreeInv, TypeOK, ReadInv
  <2>4. TreeInv'
    BY <2>1, <2>2, <2>3, RestKeepsTree
  <2>5. Collected(0)'
    <3>1. Named(0)' = {} /\ Kept(0)' = {} /\ topics' = <<>>
      BY <2>1 DEF Named, Kept
    <3>2. IsFiniteSet({}) /\ Cardinality({}) = 0
      BY FS_EmptySet
    <3>3. Len(<<>>) = 0 /\ DOMAIN <<>> = {}
      OBVIOUS
    <3> QED BY <3>1, <3>2, <3>3 DEF Collected
  <2>6. Collected(next - 1)'
    <3>1. next' - 1 = 0
      BY <2>1
    <3> QED BY <2>5, <3>1
  <2>7. TopicsInv'
    BY <2>1, <2>2, <2>6 DEF TopicsInv, Walking, TypeOK
  <2> QED BY <2>4, <2>7
<1>3. CASE Resolve
  <2>1. TypeOK' /\ TopicsInv' /\ Loaded'
    BY <1>3, ResolveKeeps
  <2>2. UNCHANGED <<file, tree>> /\ phase \in {"resolve", "walk"}
    BY <1>3 DEF Resolve, DropTopic, KeepTop, StartWalk, Walk, Return, Keep, Resolving
  <2>3. Passed = DOMAIN file
    BY <2>2 DEF Passed
  <2> QED BY <2>1, <2>2, <2>3, RestKeepsTree
<1>4. CASE UNCHANGED vars
  <2>1. UNCHANGED <<phase, file, known, tier, parent, children, answer, next, cur, topics>>
    BY <1>4 DEF vars, tree
  <2>2. TreeInv'
    BY <2>1 DEF TreeInv, TypeOK, ReadInv, LinkInv, Passed, Linked, Linkable
  <2>3. TopicsInv'
    <3>1. ASSUME NEW k \in Nat, Collected(k) PROVE Collected(k)'
      BY <2>1, <3>1, StaysCollected DEF tree
    <3>2. phase \in {"resolve", "walk"} => Collected(next - 1)'
      <4> SUFFICES ASSUME phase \in {"resolve", "walk"} PROVE Collected(next - 1)'
        OBVIOUS
      <4>1. PICK k \in Nat : k = next - 1
        BY DEF TreeInv, TypeOK
      <4>2. Collected(k)' /\ next' - 1 = k
        BY <2>1, <3>1, <4>1 DEF TopicsInv
      <4> QED BY <4>2
    <3>3. phase = "done" => Collected(Len(answer))'
      <4> SUFFICES ASSUME phase = "done" PROVE Collected(Len(answer))'
        OBVIOUS
      <4>1. PICK k \in Nat : k = Len(answer)
        BY DEF TreeInv, TypeOK
      <4>2. Collected(k)' /\ Len(answer') = k
        BY <2>1, <3>1, <4>1 DEF TopicsInv
      <4> QED BY <4>2
    <3>4. Walking'
      BY <2>1 DEF TopicsInv, Walking, Above, Upward, TopTier, Topic
    <3> QED BY <2>1, <3>2, <3>3, <3>4 DEF TopicsInv
  <2> QED BY <2>2, <2>3
<1> QED BY <1>1, <1>2, <1>3, <1>4 DEF Next, Stopped

LEMMA InitFull == Init => FullInv
BY InitTree DEF Init, FullInv, TopicsInv, Walking

\* Every state has the types and the invariants of the loops.
LEMMA LoopsAreKept == Spec => []FullInv
BY InitFull, NextKeeps, PTL DEF Spec

\* load_taxonomy never returns anything but a forest: whatever the entries of the
\* file, and in whatever order, a repeated id, an unknown parent, a parent of the
\* wrong tier and so every cycle is refused, and children inverts the parents.
THEOREM FilesLoadAsForests == Spec => []LoadedIsForest
<1>1. ASSUME FullInv PROVE LoadedIsForest
  <2> SUFFICES ASSUME Loaded PROVE LoadedIsForest
    BY DEF LoadedIsForest
  <2>1. TypeOK /\ ReadInv /\ LinkInv /\ phase \notin {"read", "link", "rejected"}
    BY <1>1 DEF FullInv, TreeInv, Loaded
  <2>2. Linked = known
    BY <2>1 DEF ReadInv, Linked, Passed
  <2>3. \A n \in known : n \notin Above(n)
    BY <2>1, <2>2, NobodyAboveItself DEF LinkInv
  <2>4. \A i, j \in DOMAIN file : file[i].id = file[j].id => i = j
    BY <2>1 DEF ReadInv
  <2>5. ASSUME NEW p \in known
        PROVE  /\ \A n \in Ids : parent[n] = p <=> \E i \in DOMAIN children[p] : children[p][i] = n
               /\ \A i, j \in DOMAIN children[p] : children[p][i] = children[p][j] => i = j
    <3>1. p \in Ids /\ p # None
      BY <2>1, TopicsAssumption DEF TypeOK
    <3>2. \A n \in Ids : parent[n] = p => n \in known
      BY <2>1, <3>1 DEF LinkInv
    <3> QED BY <2>1, <2>2, <3>1, <3>2 DEF LinkInv
  <2> QED BY <2>3, <2>4, <2>5 DEF LoadedIsForest
<1> QED BY <1>1, LoopsAreKept, PTL

\* to_verdict keeps exactly the topics the answer names and the taxonomy bears out:
\* for every taxonomy that loads and every answer that validates, the walk of
\* is_descendant decides each second id as the parents do, and the cut to three
\* topics never drops one.
THEOREM AnswersAreResolved == Spec => []TopicsResolved
<1>1. ASSUME FullInv PROVE TopicsResolved
  <2> SUFFICES ASSUME phase = "done" PROVE TopicsResolved
    BY DEF TopicsResolved
  <2>1. Collected(Len(answer)) /\ answer \in Seq(Paths)
    BY <1>1 DEF FullInv, TopicsInv, TreeInv, TypeOK
  <2>2. Named(Len(answer)) \subseteq 1..Len(answer)
    BY DEF Named
  <2>3. \A j \in Named(Len(answer)) :
           topics[Cardinality({i \in Named(Len(answer)) : i <= j})] = Meaning(answer[j])
    BY <2>1, <2>2 DEF Collected, Places, Means
  <2> QED BY <2>1, <2>3 DEF TopicsResolved, Collected
<1> QED BY <1>1, LoopsAreKept, PTL
=============================================================================
