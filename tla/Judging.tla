------------------------------- MODULE Judging -------------------------------
(***************************************************************************)
(* A fetched page on its way to a verdict: Extraction composed with Ladder, *)
(* as _process runs them (src/sitesift/pipeline.py): evidence and flags are *)
(* stored, then the ladder judges them.  The flag that Ladder leaves open,  *)
(* `blocking`, is here what the flags of the page say.                      *)
(***************************************************************************)
EXTENDS Extraction

CONSTANTS Confidences, Top, AcceptSmall, AcceptLarge    \* of Ladder

ASSUME JudgingAssumption ==
    /\ Confidences \subseteq Int /\ Top \in Nat
    /\ AcceptSmall \in Int /\ AcceptLarge \in Int
    /\ None \notin [typed : BOOLEAN, confidence : 0..Top]

VARIABLES provider, pc, rung, answer, calls, outcome

judgement == <<provider, pc, rung, answer, calls, outcome>>
vars == <<extraction, judgement>>

L == INSTANCE Ladder WITH blocking <- Blocking(flags)

Init == ExtractionInit /\ L!Init

\* The ladder sees the page once its evidence is stored.
Classify == stage = "stored" /\ UNCHANGED extraction /\ L!Next

\* What build_evidence raises ends the page; Pipeline's Raise goes on there.
Raised == stage = "raised" /\ UNCHANGED vars

Next == (Extract /\ UNCHANGED judgement) \/ Classify \/ Raised

Spec == Init /\ [][Next]_vars

\* The reference for Internal: the host of the link ends in the domain of the page.
SameSite(link) ==
    \/ link.host = <<>>
    \/ /\ Len(page.domain) <= Len(link.host)
       /\ SubSeq(link.host, Len(link.host) - Len(page.domain) + 1, Len(link.host)) = page.domain

InternalLinks == {i \in DOMAIN page.links : page.links[i].kind = "page" /\ SameSite(page.links[i])}

\* The reference for what the walk finds: every object that can be reached from
\* the data through lists and @graph, in the order of the document, what a @graph
\* holds before its container.
ObjectsIn[data \in Json \cup Unread] ==
    CASE data.kind = "list" -> FlattenSeq([i \in DOMAIN data.items |-> ObjectsIn[data.items[i]]])
      [] data.kind = "object" ->
            (IF data.graph = None THEN <<>> ELSE ObjectsIn[data.graph]) \o <<OwnFields(data)>>
      [] OTHER -> <<>>

PageObjects == FlattenSeq([i \in DOMAIN page.jsonld |-> ObjectsIn[page.jsonld[i]]])

\* What was found is what these objects say: the types of all, each once, the
\* publisher of the first that names one, and whether they are free of the first
\* that says so readably.
Heard(objs) ==
    LET speakers == {i \in DOMAIN objs : AsBool(objs[i].free) # None}
        owners == {i \in DOMAIN objs : objs[i].publisher # None}
    IN  /\ ToSet(found.types) = UNION {ToSet(obj.types) : obj \in ToSet(objs)}
        /\ Cardinality(ToSet(found.types)) = Len(found.types)
        /\ found.free = IF speakers = {} THEN None ELSE objs[Min(speakers)].free
        /\ found.publisher = IF owners = {} THEN None ELSE objs[Min(owners)].publisher

(***************************************************************************)
(* Properties                                                               *)
(***************************************************************************)
\* A page that says it is not there, or that its domain is for sale while it has
\* little text and few links to its own site, is settled without a request to a
\* model; every other page is judged by the model if there is one, whatever else
\* its flags say.
OnlyEmptyPagesAreFree ==
    pc = "done" /\ provider # "off" =>
        LET gone == page.status = 200 /\ page.saysNotFound
            forSale == page.saysForSale /\ page.mainLen \in 1..499 /\ Cardinality(InternalLinks) < 5
        IN  (calls["small"] = 0) = (gone \/ forSale)

\* An unreadable script takes nothing from the others and does not end the page,
\* unless it is too deep for Python, and what is stored is what all the objects
\* that can be reached in the scripts say.
StructuredFound ==
    /\ stage = "raised" =>
        \/ page.charset = "unknown"
        \/ \E i \in DOMAIN page.links : page.links[i].kind = "broken"
        \/ \E i \in DOMAIN page.jsonld : page.jsonld[i].kind = "deep"
    /\ stage = "stored" => Heard(PageObjects)

\* The language in the output is rebuilt from the stored evidence.  Value,
\* confidence, region and multilingual are those of the detection, and so is
\* the rest with one exception: the language that a page too short for detection
\* declares comes back as one that was detected and that the declaration of the
\* page agrees with.
LanguageKept ==
    evidence # None =>
        LET was == DetectLanguage(page)
            is == LanguageFromEvidence(evidence)
        IN  /\ \A f \in {"value", "confidence", "multilingual", "region"} : is[f] = was[f]
            /\ IF was.method = "html_lang"
               THEN is.method = "detected" /\ is.agreement = "yes"
               ELSE is = was

\* No page costs more requests to a model than its provider allows, whatever its
\* evidence says and whatever the answers are (Ladder).
SpendBounded == L!SpendBounded

\* A page settled without a human has flags that settle it, or a typed answer
\* that cleared the threshold of the model it is attributed to (Ladder).
SettledIsSure == L!SettledIsSure

\* What a model answered about a page decides its outcome, also when the next rung
\* fails; only an answer the model was not sure of is lost when that rung raises
\* what the ladder does not catch (Ladder).
AnswerKept == L!AnswerKept

\* The pages of build_evidence get no outcome but those Pipeline's Judge allows
\* for them (Ladder).
Judged == L!Judged
=============================================================================
