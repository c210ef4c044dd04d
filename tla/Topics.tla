------------------------------- MODULE Topics -------------------------------
(***************************************************************************)
(* How the topics of a model's answer become the topics of a verdict:       *)
(* load_taxonomy's _parse (src/sitesift/taxonomy/loader.py) builds the      *)
(* nodes from a file anyone may plug in, and to_verdict                     *)
(* (src/sitesift/classify/validate.py) resolves each pair of ids the model  *)
(* answered, walking up the parents to see whether they belong together.    *)
(*                                                                          *)
(* One step is one turn of a loop of the code.  Names, aliases, hints and   *)
(* confidences are left out: no branch depends on them.                     *)
(***************************************************************************)
EXTENDS Integers, Sequences, FiniteSets

CONSTANTS
    Ids,        \* node ids, those the model may invent included
    Files,      \* taxonomy files: sequences of [id, tier, parent] entries
    Answers,    \* the topics of a model's answer: sequences of [tier1, tier2]
    None

Entries == [id : Ids, tier : Int, parent : Ids \cup {None}]
Paths == [tier1 : Ids, tier2 : Ids \cup {None}]

ASSUME TopicsAssumption ==
    /\ \A f \in Files : f \in Seq(Entries)
    /\ \A a \in Answers : a \in Seq(Paths) /\ Len(a) <= 3
    /\ None \notin Ids

VARIABLES
    phase,      \* "read", "link", "idle", "resolve", "walk", "done", "rejected"
    file,       \* the entries of the file
    known,      \* the ids in the dictionary `nodes`
    tier,       \* Node.tier of the known ids
    parent,     \* Node.parent of the known ids
    children,   \* Taxonomy.children
    answer,     \* LLMVerdict.topics
    next,       \* the next entry, node or topic of the loop
    cur,        \* the node is_descendant has reached
    topics      \* the paths kept so far; `seen` is the set of them

tree == <<known, tier, parent, children>>
vars == <<phase, file, tree, answer, next, cur, topics>>

-----------------------------------------------------------------------------
Init ==
    /\ phase = "read" /\ file \in Files
    /\ known = {}
    /\ tier = [n \in Ids |-> 0]
    /\ parent = [n \in Ids |-> None]
    /\ children = [n \in Ids |-> <<>>]
    /\ answer = <<>> /\ next = 1 /\ cur = None /\ topics = <<>>

Reject == phase' = "rejected" /\ UNCHANGED <<file, tree, answer, next, cur, topics>>

\* Slip: a repeated id replaces the node read before.
ReadNodeTwice ==
    /\ phase = "read" /\ next <= Len(file)
    /\ LET e == file[next]
       IN  /\ known' = known \cup {e.id}
           /\ tier' = [tier EXCEPT ![e.id] = e.tier]
           /\ parent' = [parent EXCEPT ![e.id] = e.parent]
    /\ next' = next + 1
    /\ UNCHANGED <<phase, file, children, answer, cur, topics>>

\* The first loop of _parse: an id may appear once.
ReadNode ==
    /\ phase = "read" /\ next <= Len(file)
    /\ LET e == file[next]
       IN  \/ /\ e.id \in known
              /\ Reject
           \/ /\ e.id \notin known
              /\ known' = known \cup {e.id}
              /\ tier' = [tier EXCEPT ![e.id] = e.tier]
              /\ parent' = [parent EXCEPT ![e.id] = e.parent]
              /\ next' = next + 1
              /\ UNCHANGED <<phase, file, children, answer, cur, topics>>

Link ==
    /\ phase = "read" /\ next > Len(file)
    /\ phase' = "link" /\ next' = 1
    /\ UNCHANGED <<file, tree, answer, cur, topics>>

\* Slip: any tier above its own will do for a parent.
LinkableAnywhere(n) == parent[n] = None \/ parent[n] \in known

\* A parent is a node of the file, exactly one tier up.
Linkable(n) ==
    \/ parent[n] = None
    \/ parent[n] \in known /\ tier[parent[n]] = tier[n] - 1

\* The second loop of _parse, in the order of the file.
LinkNode ==
    /\ phase = "link" /\ next <= Len(file)
    /\ LET n == file[next].id
       IN  \/ ~Linkable(n) /\ Reject
           \/ /\ Linkable(n)
              /\ children' = IF parent[n] = None THEN children
                             ELSE [children EXCEPT ![parent[n]] = Append(@, n)]
              /\ next' = next + 1
              /\ UNCHANGED <<phase, file, known, tier, parent, answer, cur, topics>>

\* The taxonomy is there; to_verdict is called with an answer that validated.
Call ==
    /\ phase = "link" /\ next > Len(file)
    /\ phase' = "resolve" /\ next' = 1
    /\ answer' \in Answers
    /\ UNCHANGED <<file, tree, cur, topics>>

-----------------------------------------------------------------------------
\* A path that is already there is dropped; either way the loop goes on.
Keep(path) ==
    /\ topics' = IF \E i \in DOMAIN topics : topics[i] = path THEN topics
                 ELSE Append(topics, path)
    /\ phase' = "resolve" /\ next' = next + 1 /\ cur' = None
    /\ UNCHANGED <<file, tree, answer>>

Resolving == phase = "resolve" /\ next <= Len(answer)
TopTier(n) == n \in known /\ tier[n] = 1
Topic == answer[next]
Top == [tier1 |-> Topic.tier1, tier2 |-> None]

\* An unknown id, or one of another tier, where a Tier-1 belongs.
DropTopic ==
    /\ Resolving /\ ~TopTier(Topic.tier1)
    /\ next' = next + 1
    /\ UNCHANGED <<phase, file, tree, answer, cur, topics>>

\* No second id, or one the taxonomy does not know.
KeepTop ==
    /\ Resolving /\ TopTier(Topic.tier1)
    /\ Topic.tier2 \notin known
    /\ Keep(Top)

\* is_descendant(tier2, tier1)
StartWalk ==
    /\ Resolving /\ TopTier(Topic.tier1)
    /\ Topic.tier2 \in known
    /\ phase' = "walk" /\ cur' = Topic.tier2
    /\ UNCHANGED <<file, tree, answer, next, topics>>

\* Slip: a node counts as its own descendant.
WalkFromSelf ==
    /\ phase = "walk"
    /\ \/ cur = Topic.tier1 /\ Keep(Topic)
       \/ cur # Topic.tier1 /\ parent[cur] = None /\ Keep(Top)
       \/ /\ cur # Topic.tier1 /\ parent[cur] # None
          /\ cur' = parent[cur]
          /\ UNCHANGED <<phase, file, tree, answer, next, topics>>

Walk ==
    /\ phase = "walk"
    /\ \/ parent[cur] = None /\ Keep(Top)
       \/ parent[cur] = Topic.tier1 /\ Keep(Topic)
       \/ /\ parent[cur] \notin {None, Topic.tier1}
          /\ cur' = parent[cur]
          /\ UNCHANGED <<phase, file, tree, answer, next, topics>>

Return ==
    /\ phase = "resolve" /\ next > Len(answer)
    /\ phase' = "done"
    /\ topics' = SubSeq(topics, 1, IF Len(topics) < 3 THEN Len(topics) ELSE 3)
    /\ UNCHANGED <<file, tree, answer, next, cur>>

Load == ReadNode \/ Link \/ LinkNode
Resolve == DropTopic \/ KeepTop \/ StartWalk \/ Walk \/ Return
Stopped == phase \in {"done", "rejected"} /\ UNCHANGED vars

Next == Load \/ Call \/ Resolve \/ Stopped

Spec == Init /\ [][Next]_vars

\* A loop that can take its next turn takes it.
FairSpec == Spec /\ WF_vars(Load \/ Call \/ Resolve)

(***************************************************************************)
(* Properties                                                               *)
(***************************************************************************)
\* The ancestors of a node, from the parents alone: what the walk is to find.
\* They are the least set that has its parent and, with a node, that one's parent.
Upward(nodes) == \A c \in nodes \cap known : parent[c] \in nodes \cup {None}
Above(n) ==
    {m \in Ids : \A nodes \in SUBSET Ids :
                    Upward(nodes) /\ parent[n] \in nodes \cup {None} => m \in nodes}

Loaded == phase \in {"resolve", "walk", "done"}

\* A file that loads is a forest: every id has one entry, no node is above itself,
\* and the children lists are the inverse of the parents, each child once.
LoadedIsForest ==
    Loaded =>
        /\ \A i, j \in DOMAIN file : file[i].id = file[j].id => i = j
        /\ \A n \in known : n \notin Above(n)
        /\ \A p \in known :
              /\ \A n \in Ids : parent[n] = p <=> \E i \in DOMAIN children[p] : children[p][i] = n
              /\ \A i, j \in DOMAIN children[p] : children[p][i] = children[p][j] => i = j

\* What a pair of ids of the answer should become.
Meaning(topic) ==
    IF topic.tier2 \in known /\ topic.tier1 \in Above(topic.tier2) THEN topic
    ELSE [topic EXCEPT !.tier2 = None]

\* The topics of the first k pairs: those with a known Tier-1 that mean no topic
\* the answer has named before.
Named(k) ==
    LET kept == {j \in 1..k : TopTier(answer[j].tier1)}
    IN  {j \in kept : \A i \in kept : i < j => Meaning(answer[i]) # Meaning(answer[j])}

\* The verdict's topics are the answer's, no more and no fewer: each with a known
\* Tier-1, with its second id exactly if that is below the first one in the
\* taxonomy, none twice, in the order of the answer.
TopicsResolved ==
    phase = "done" =>
        LET named == Named(Len(answer))
        IN  /\ Len(topics) = Cardinality(named)
            /\ \A j \in named :
                  topics[Cardinality({i \in named : i <= j})] = Meaning(answer[j])

\* Loading and resolving end, whatever the file says: the tier check of _parse
\* is what keeps the walk of is_descendant out of a cycle.
ResolvingEnds == <>(phase \in {"done", "rejected"})
=============================================================================
