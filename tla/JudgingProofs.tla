--------------------------- MODULE JudgingProofs ---------------------------
(***************************************************************************)
(* What the ladder spends and settles, and what the evidence it decides on  *)
(* says of the page, its JSON-LD included, for every page, provider,        *)
(* threshold and sequence of answers.                                       *)
(***************************************************************************)
EXTENDS Judging, LoopLemmas

\* The ladder waits for the page; until it starts, nothing was asked.
Waits ==
    /\ stage # "stored" => pc = "start"
    /\ pc = "start" => calls = [r \in L!Rungs |-> 0]
    /\ pc # "start" /\ pc # "done" => ~Blocking(flags) /\ provider # "off"
    /\ Blocking(flags) \/ provider = "off" => calls = [r \in L!Rungs |-> 0]

\* Where the ladder stands says what each rung was asked so far.
Asked ==
    /\ rung = "small" => calls["large"] = 0
    /\ pc \in {"start", "ask"} => calls[rung] = 0
    /\ pc = "repair" => provider = "ollama" /\ calls[rung] = 1

\* And what each rung has answered.
Answered ==
    /\ pc \in {"start", "ask", "repair", "failed"} => answer[rung] = None
    /\ pc = "answered" => answer[rung] # None
    /\ rung = "small" => answer["large"] = None
    /\ rung = "large" => answer["small"] # None /\ ~L!Accepts(answer["small"], AcceptSmall)

Inv ==
    /\ L!TypeOK /\ Waits /\ Asked /\ Answered
    /\ SpendBounded /\ SettledIsSure /\ AnswerKept /\ Judged

USE DEF L!Rungs
-----------------------------------------------------------------------------
LEMMA FlagsDecide == Blocking(flags) \in BOOLEAN /\ Blocking(flags)' \in BOOLEAN
BY DEF Blocking

LEMMA InitInv == Init => Inv
<1> SUFFICES ASSUME Init PROVE Inv
  OBVIOUS
<1> USE DEF Init, L!Init, ExtractionInit
<1>1. L!TypeOK
  BY DEF L!TypeOK
<1>2. Waits /\ Asked /\ Answered
  BY DEF Waits, Asked, Answered
<1>3. SpendBounded /\ SettledIsSure /\ AnswerKept /\ Judged
  BY DEF SpendBounded, SettledIsSure, AnswerKept, Judged, L!SpendBounded, L!SettledIsSure,
     L!AnswerKept, L!Judged
<1> QED BY <1>1, <1>2, <1>3 DEF Inv

\* Extraction asks nobody anything.
LEMMA ExtractKeeps == ASSUME Inv, Extract, UNCHANGED judgement PROVE Inv'
<1>1. pc = "start" /\ pc' = "start"
  BY DEF Inv, Waits, Extract, Decode, CountLink, LinksDone, ReadScript, Visit, Assemble, judgement
<1> USE <1>1 DEF Inv, judgement
<1>2. L!TypeOK'
  BY FlagsDecide DEF L!TypeOK
<1>3. Waits' /\ Asked' /\ Answered'
  BY DEF Waits, Asked, Answered
<1>4. (SpendBounded /\ SettledIsSure /\ AnswerKept /\ Judged)'
  BY DEF Waits, L!TypeOK, SpendBounded, SettledIsSure, AnswerKept, Judged, L!SpendBounded,
     L!SettledIsSure, L!AnswerKept, L!Judged
<1> QED BY <1>2, <1>3, <1>4

\* Every request is one of at most two to its rung.
LEMMA RequestKeeps ==
    ASSUME Inv, stage' = stage, flags' = flags,
           L!Answer \/ L!Misanswer \/ L!Refuse \/ L!Garble
    PROVE  Inv'
<1>1. pc \in {"ask", "repair"} /\ pc' \in {"repair", "answered", "failed", "raised"}
      /\ provider' = provider /\ rung' = rung /\ outcome' = outcome
      /\ calls' = [calls EXCEPT ![rung] = @ + 1]
      /\ Blocking(flags)' = Blocking(flags)
  BY DEF L!Answer, L!Misanswer, L!Refuse, L!Garble, L!Called, L!config, Blocking
<1>2. pc' = "repair" => pc = "ask" /\ provider = "ollama"
  BY DEF L!Answer, L!Misanswer, L!Refuse, L!Garble
<1>3. pc' # "answered" => answer' = answer
  BY DEF L!Answer, L!Misanswer, L!Refuse, L!Garble
<1>4. pc' = "answered" => \E v \in L!Verdicts : answer' = [answer EXCEPT ![rung] = v]
  BY DEF L!Answer, L!Misanswer, L!Refuse, L!Garble, L!Verdicts, L!Validates
<1>5. L!TypeOK'
  <2>1. answer' \in [L!Rungs -> L!Verdicts \cup {None}]
    BY <1>3, <1>4 DEF Inv, L!TypeOK
  <2>2. calls' \in [L!Rungs -> Nat]
    BY <1>1 DEF Inv, L!TypeOK
  <2> QED BY <1>1, <2>1, <2>2, FlagsDecide DEF Inv, L!TypeOK
<1>6. Waits'
  BY <1>1 DEF Inv, Waits
<1>7. Asked'
  BY <1>1, <1>2 DEF Inv, L!TypeOK, Asked
<1>8. Answered'
  BY <1>1, <1>3, <1>4, JudgingAssumption DEF Inv, L!TypeOK, Answered, L!Verdicts
<1>9. SpendBounded'
  BY <1>1 DEF Inv, L!TypeOK, Waits, Asked, SpendBounded, L!SpendBounded
<1>10. (SettledIsSure /\ Judged)'
  BY <1>1 DEF SettledIsSure, Judged, L!SettledIsSure, L!Judged
<1>11. AnswerKept'
  <2>1. pc' = "raised" => answer' = answer /\ answer[rung] = None /\ rung \in L!Rungs
    BY <1>1, <1>3 DEF Inv, Answered, L!TypeOK
  <2>2. \A r \in L!Rungs : r # rung /\ answer[r] # None =>
            r = "small" /\ ~L!Accepts(answer[r], AcceptSmall)
    BY DEF Inv, Answered, L!TypeOK
  <2>3. pc' = "raised" => \A r \in L!Rungs :
            answer'[r] # None => r = "small" /\ ~L!Accepts(answer'[r], AcceptSmall)
    BY <2>1, <2>2
  <2> QED BY <1>1, <2>3 DEF AnswerKept, L!AnswerKept, L!Accepts
<1> QED BY <1>5, <1>6, <1>7, <1>8, <1>9, <1>10, <1>11 DEF Inv

\* The moves of the ladder between its requests.
LEMMA MoveKeeps ==
    ASSUME Inv, stage = "stored", stage' = stage, flags' = flags, L!Start \/ L!Climb
    PROVE  Inv'
<1>1. /\ pc' = "ask" /\ provider' = provider /\ answer' = answer /\ calls' = calls
      /\ Blocking(flags)' = Blocking(flags)
      /\ rung' = IF pc = "start" THEN rung ELSE "large"
      /\ \/ pc = "start"
         \/ pc = "answered" /\ rung = "small" /\ ~L!Accepts(answer[rung], AcceptSmall)
      /\ outcome' = outcome
      /\ pc = "start" => ~Blocking(flags) /\ provider # "off"
  BY DEF L!Start, L!Climb, L!config, Blocking
<1>2. L!TypeOK'
  BY <1>1 DEF Inv, L!TypeOK
<1>3. Waits'
  BY <1>1 DEF Inv, Waits
<1>4. Asked' /\ Answered'
  BY <1>1 DEF Inv, L!TypeOK, Asked, Answered, L!Accepts
<1>5. SpendBounded'
  BY <1>1 DEF Inv, SpendBounded, L!SpendBounded
<1>6. (SettledIsSure /\ AnswerKept /\ Judged)'
  BY <1>1 DEF SettledIsSure, AnswerKept, Judged, L!SettledIsSure, L!AnswerKept, L!Judged
<1> QED BY <1>2, <1>3, <1>4, <1>5, <1>6 DEF Inv

\* Each way to an outcome.
LEMMA FinishKeeps ==
    ASSUME Inv, stage = "stored", stage' = stage, flags' = flags,
           L!Block \/ L!Defer \/ L!Accept \/ L!Doubt \/ L!FallBack \/ L!Fail
    PROVE  Inv'
<1> USE DEF L!Finish, L!Outcome, L!config
<1>1. /\ pc \in {"start", "answered", "failed"} /\ pc' = "done"
      /\ provider' = provider /\ rung' = rung /\ answer' = answer /\ calls' = calls
      /\ Blocking(flags)' = Blocking(flags)
  BY DEF L!Block, L!Defer, L!Accept, L!Doubt, L!FallBack, L!Fail, Blocking
<1>2. L!TypeOK' /\ Waits' /\ Asked' /\ Answered' /\ SpendBounded'
  <2>1. outcome' \in [method : {"blocked", "llm_small", "llm_large", "failed_classify"},
                      confidence : 0..Top, human : BOOLEAN]
    <3>1. answer[rung] # None => answer[rung].confidence \in 0..Top
      BY DEF Inv, L!TypeOK, L!Verdicts
    <3>2. rung = "large" => answer["small"].confidence \in 0..Top
      BY DEF Inv, Answered, L!TypeOK, L!Verdicts
    <3>3. 0 \in 0..Top /\ Top \in 0..Top
      BY JudgingAssumption
    <3>4. L!Block \/ L!Defer \/ L!Fail => \E m \in {"blocked", "failed_classify"}, c \in 0..Top,
                human \in BOOLEAN : outcome' = [method |-> m, confidence |-> c, human |-> human]
      BY <3>3 DEF L!Block, L!Defer, L!Fail
    <3>5. L!Accept \/ L!Doubt \/ L!FallBack => \E m \in {"llm_small", "llm_large"}, c \in 0..Top,
                human \in BOOLEAN : outcome' = [method |-> m, confidence |-> c, human |-> human]
      BY <3>1, <3>2 DEF L!Accept, L!Doubt, L!FallBack, L!Method, Inv, Answered
    <3> QED BY <3>4, <3>5
  <2>2. L!TypeOK'
    BY <1>1, <2>1, FlagsDecide DEF Inv, L!TypeOK
  <2>3. Waits' /\ Asked' /\ Answered'
    BY <1>1 DEF Inv, L!TypeOK, Waits, Asked, Answered, L!Accepts
  <2>4. SpendBounded'
    BY <1>1 DEF Inv, SpendBounded, L!SpendBounded
  <2> QED BY <2>2, <2>3, <2>4
<1>3. SettledIsSure'
  BY <1>1 DEF L!Block, L!Defer, L!Accept, L!Doubt, L!FallBack, L!Fail, Inv, Answered, L!TypeOK,
     SettledIsSure, L!SettledIsSure, L!Method, L!Threshold, L!Accepts
<1>4. AnswerKept'
  <2> DEFINE Says(r) ==
        /\ answer[r] # None /\ (r = "small" => answer["large"] = None)
        /\ outcome' = L!Outcome(L!Method(r), answer[r].confidence,
                                ~L!Accepts(answer[r], L!Threshold(r)))
  <2>1. rung \in L!Rungs /\ answer \in [L!Rungs -> L!Verdicts \cup {None}]
    BY DEF Inv, L!TypeOK
  <2>2. CASE L!Block \/ L!Defer
    BY <1>1, <2>2 DEF L!Block, L!Defer, AnswerKept, L!AnswerKept
  <2>3. CASE L!Fail
    <3>1. answer["small"] = None /\ answer["large"] = None
      BY <2>3 DEF L!Fail, Inv, Answered
    <3>2. answer = [r \in L!Rungs |-> None]
      BY <2>1, <3>1
    <3> QED BY <1>1, <2>3, <3>2 DEF L!Fail, AnswerKept, L!AnswerKept
  <2>4. CASE L!Accept
    <3>1. Says(rung)
      BY <2>1, <2>4 DEF L!Accept, Inv, Answered
    <3> QED BY <1>1, <2>1, <3>1 DEF AnswerKept, L!AnswerKept, L!Accepts
  <2>5. CASE L!Doubt
    <3>1. Says("large")
      BY <2>5 DEF L!Doubt, L!Method, L!Threshold, Inv, Answered
    <3> QED BY <1>1, <3>1 DEF AnswerKept, L!AnswerKept, L!Accepts
  <2>6. CASE L!FallBack
    <3>1. Says("small")
      BY <2>6 DEF L!FallBack, L!Method, L!Threshold, Inv, Answered
    <3> QED BY <1>1, <3>1 DEF AnswerKept, L!AnswerKept, L!Accepts
  <2> QED BY <2>2, <2>3, <2>4, <2>5, <2>6
<1>5. Judged'
  <2>1. /\ L!Block => Blocking(flags) /\ outcome' = [method |-> "blocked", confidence |-> Top, human |-> FALSE]
        /\ L!Defer => /\ ~Blocking(flags) /\ provider = "off"
                      /\ outcome' = [method |-> "blocked", confidence |-> 0, human |-> TRUE]
    BY DEF L!Block, L!Defer
  <2>2. L!Accept \/ L!Doubt \/ L!FallBack \/ L!Fail =>
        /\ ~Blocking(flags) /\ provider # "off"
        /\ \E m \in {"llm_small", "llm_large", "failed_classify"}, human \in BOOLEAN :
              /\ \E c : outcome' = [method |-> m, confidence |-> c, human |-> human]
              /\ m = "failed_classify" => human
    BY DEF L!Accept, L!Doubt, L!FallBack, L!Fail, L!Method, Inv, Waits
  <2>3. CASE L!Block \/ L!Defer
    BY <1>1, <2>1, <2>3 DEF Judged, L!Judged, L!PipelineOutcome
  <2>4. CASE L!Accept \/ L!Doubt \/ L!FallBack \/ L!Fail
    BY <1>1, <2>2, <2>4 DEF Judged, L!Judged, L!PipelineOutcome
  <2> QED BY <2>3, <2>4
<1> QED BY <1>2, <1>3, <1>4, <1>5 DEF Inv

LEMMA StutterKeeps == ASSUME Inv, UNCHANGED vars PROVE Inv'
BY DEF vars, extraction, judgement, Inv, L!TypeOK, Waits, Asked, Answered, Blocking,
   SpendBounded, SettledIsSure, AnswerKept, Judged, L!SpendBounded, L!SettledIsSure,
   L!AnswerKept, L!Judged, L!PipelineOutcome, L!Accepts, L!Method, L!Threshold, L!Outcome

LEMMA NextKeeps == Inv /\ [Next]_vars => Inv'
<1> SUFFICES ASSUME Inv, [Next]_vars PROVE Inv'
  OBVIOUS
<1>1. CASE Extract /\ UNCHANGED judgement
  BY <1>1, ExtractKeeps
<1>2. CASE Classify
  <2>1. stage = "stored" /\ stage' = stage /\ flags' = flags /\ UNCHANGED extraction
    BY <1>2 DEF Classify, extraction
  <2>2. CASE L!Done
    BY <2>1, <2>2, StutterKeeps DEF L!Done, L!vars, L!config, vars, judgement
  <2> QED BY <1>2, <2>1, <2>2, RequestKeeps, MoveKeeps, FinishKeeps DEF Classify, L!Next
<1>3. CASE Raised \/ UNCHANGED vars
  BY <1>3, StutterKeeps DEF Raised
<1> QED BY <1>1, <1>2, <1>3 DEF Next

LEMMA Invariance == Spec => []Inv
BY InitInv, NextKeeps, PTL DEF Spec

-----------------------------------------------------------------------------
\* The variables of the ladder keep their types within the composition.
THEOREM LadderTypeCorrect == Spec => []L!TypeOK
BY Invariance, PTL DEF Inv

\* A page costs at most two requests per rung, with Anthropic one, and none if
\* its flags settle it or the model is off; Ladder.classify has no other loop.
THEOREM SpendIsBounded == Spec => []SpendBounded
BY Invariance, PTL DEF Inv

\* What goes out without a human cleared the threshold of the model it names.
THEOREM SettledAreSure == Spec => []SettledIsSure
BY Invariance, PTL DEF Inv

\* The last model that answered decides the outcome, and what is lost to an error
\* nobody catches is no answer that would have settled the page.
THEOREM AnswersAreKept == Spec => []AnswerKept
BY Invariance, PTL DEF Inv

\* Pipeline's Judgments allow every outcome of the ladder.
THEOREM OutcomesAreExpected == Spec => []Judged
BY Invariance, PTL DEF Inv

-----------------------------------------------------------------------------
\* What Python reads of a page has the types of the parser's results.
LEMMA PageFacts ==
    ASSUME page \in BodyPages
    PROVE  /\ page.links \in Seq(Links)
           /\ page.domain \in Seq(STRING) /\ page.host \in Seq(STRING)
           /\ IsSuffix(page.domain, page.host)
           /\ page.guess \in Guesses /\ page.mainLen \in Nat
           /\ page.saysNotFound \in BOOLEAN /\ page.saysForSale \in BOOLEAN
BY ExtractionAssumption

\* Suffixes, read from the end of the longer word.
LEMMA SuffixIsTail ==
    ASSUME NEW s \in Seq(STRING), NEW t \in Seq(STRING)
    PROVE  /\ IsSuffix(s, t) <=>
                /\ Len(s) <= Len(t)
                /\ \A i \in 1..Len(s) : s[i] = t[Len(t) - Len(s) + i]
           /\ Len(s) <= Len(t) =>
                (SubSeq(t, Len(t) - Len(s) + 1, Len(t)) = s <=>
                    \A i \in 1..Len(s) : s[i] = t[Len(t) - Len(s) + i])
<1> DEFINE rs == Reverse(s)
           rt == Reverse(t)
<1>1. /\ Len(rs) = Len(s) /\ \A i \in 1..Len(s) : rs[i] = s[Len(s) - i + 1]
      /\ Len(rt) = Len(t) /\ \A i \in 1..Len(t) : rt[i] = t[Len(t) - i + 1]
      /\ rs \in Seq(STRING) /\ rt \in Seq(STRING)
  BY DEF Reverse
<1>2. IsSuffix(s, t) <=> Len(s) <= Len(t) /\ \A i \in 1..Len(s) : rs[i] = rt[i]
  <2> HIDE DEF rs, rt
  <2>1. ASSUME Len(s) <= Len(t)
        PROVE  SubSeq(rs, 1, Len(rs)) = SubSeq(rt, 1, Len(rs)) <=> \A i \in 1..Len(s) : rs[i] = rt[i]
    BY <1>1, <2>1
  <2> QED BY <1>1, <2>1 DEF IsSuffix, IsPrefix, rs, rt
<1>3. ASSUME Len(s) <= Len(t)
      PROVE  (\A i \in 1..Len(s) : rs[i] = rt[i]) <=>
                \A i \in 1..Len(s) : s[i] = t[Len(t) - Len(s) + i]
  <2> HIDE DEF rs, rt
  <2>1. ASSUME \A i \in 1..Len(s) : rs[i] = rt[i], NEW i \in 1..Len(s)
        PROVE  s[i] = t[Len(t) - Len(s) + i]
    <3>0. Len(s) - i + 1 \in 1..Len(s)
      OBVIOUS
    <3>1. PICK k \in 1..Len(s) : k = Len(s) - i + 1
      BY <3>0
    <3>2. k \in 1..Len(t) /\ Len(s) - k + 1 = i /\ Len(t) - k + 1 = Len(t) - Len(s) + i
      BY <1>3, <3>1
    <3>3. rs[k] = s[i] /\ rt[k] = t[Len(t) - Len(s) + i]
      BY <1>1, <3>2
    <3> QED BY <2>1, <3>3
  <2>2. ASSUME \A i \in 1..Len(s) : s[i] = t[Len(t) - Len(s) + i], NEW i \in 1..Len(s)
        PROVE  rs[i] = rt[i]
    <3>1. Len(s) - i + 1 \in 1..Len(s)
      OBVIOUS
    <3>2. s[Len(s) - i + 1] = t[Len(t) - i + 1]
      BY <2>2, <3>1, <1>3
    <3> QED BY <1>1, <1>3, <3>2
  <2> QED BY <2>1, <2>2
<1>4. ASSUME Len(s) <= Len(t)
      PROVE  SubSeq(t, Len(t) - Len(s) + 1, Len(t)) = s <=>
                \A i \in 1..Len(s) : s[i] = t[Len(t) - Len(s) + i]
  <2> DEFINE end == SubSeq(t, Len(t) - Len(s) + 1, Len(t))
  <2>1. end \in Seq(STRING) /\ Len(end) = Len(s)
    BY <1>4
  <2>2. \A i \in 1..Len(s) : end[i] = t[Len(t) - Len(s) + i]
    BY <1>4
  <2> HIDE DEF end
  <2>3. end = s <=> \A i \in 1..Len(s) : s[i] = end[i]
    BY <2>1
  <2> QED BY <2>2, <2>3 DEF end
<1> QED BY <1>2, <1>3, <1>4

\* _count_links takes a link for internal exactly if its host ends in the domain.
LEMMA InternalIsSameSite ==
    ASSUME page \in BodyPages, NEW link \in Links
    PROVE  Internal(link.host) <=> SameSite(link)
<1>1. link.host \in Seq(STRING)
  BY DEF Links
<1>2. page.host \in Seq(STRING) /\ page.domain \in Seq(STRING) /\ IsSuffix(page.domain, page.host)
  BY PageFacts
<1>3. SameSite(link) <=> link.host = <<>> \/ IsSuffix(page.domain, link.host)
  BY <1>1, <1>2, SuffixIsTail DEF SameSite
<1>4. IsSuffix(page.domain, page.domain)
  BY <1>2, SuffixIsTail
<1> QED BY <1>2, <1>3, <1>4 DEF Internal, IsStrictSuffix

-----------------------------------------------------------------------------
\* The links read so far and their count.
Seen == 1..(Len(page.links) - Len(linksLeft))
SeenInternal == InternalLinks \cap Seen

Counting ==
    /\ page \in BodyPages
    /\ linksLeft \in Seq(Links) /\ Len(linksLeft) <= Len(page.links)
    /\ \A i \in 1..Len(linksLeft) : linksLeft[i] = page.links[Len(page.links) - Len(linksLeft) + i]
    /\ counts \in [internal : Nat, external : Nat]
    /\ IsFiniteSet(SeenInternal) /\ counts.internal = Cardinality(SeenInternal)
    /\ stage \in {"decode", "links", "jsonld", "stored", "raised"}
    /\ stage \in {"jsonld", "stored"} => linksLeft = <<>>

\* What the text of OnlyEmptyPagesAreFree says of the page.
Gone == page.status = 200 /\ page.saysNotFound
ForSale == page.saysForSale /\ page.mainLen \in 1..499 /\ Cardinality(InternalLinks) < 5

Flagged == stage = "stored" => (Blocking(flags) <=> Gone \/ ForSale)

LEMMA InitCounting == Init => Counting /\ Flagged /\ LanguageKept
<1> SUFFICES ASSUME Init PROVE Counting /\ Flagged /\ LanguageKept
  OBVIOUS
<1> USE DEF Init, ExtractionInit
<1>1. page.links \in Seq(Links)
  BY PageFacts
<1>2. SeenInternal = {}
  BY <1>1 DEF SeenInternal, Seen
<1>3. Counting
  BY <1>1, <1>2, FS_EmptySet DEF Counting
<1> QED BY <1>3 DEF Flagged, LanguageKept

\* One turn of _count_links.
LEMMA CountLinkKeeps == Counting /\ CountLink => Counting'
<1> SUFFICES ASSUME Counting, CountLink PROVE Counting'
  OBVIOUS
<1> USE DEF CountLink, Goto
<1> DEFINE n == Len(page.links) - Len(linksLeft) + 1
<1>1. page' = page /\ page.links \in Seq(Links) /\ linksLeft # <<>> /\ linksLeft' = Tail(linksLeft)
      /\ linksLeft \in Seq(Links)
  BY PageFacts DEF Counting
<1>2. /\ n \in 1..Len(page.links) /\ page.links[n] = Head(linksLeft) /\ Head(linksLeft) \in Links
      /\ linksLeft' \in Seq(Links) /\ Len(linksLeft') = Len(linksLeft) - 1
      /\ \A i \in 1..Len(linksLeft') : linksLeft'[i] = linksLeft[i + 1]
  <2>1. Len(linksLeft) \in Nat /\ Len(linksLeft) >= 1 /\ Len(linksLeft) <= Len(page.links)
    BY <1>1 DEF Counting
  <2>2. /\ linksLeft' \in Seq(Links) /\ Len(linksLeft') = Len(linksLeft) - 1
        /\ \A i \in 1..Len(linksLeft') : linksLeft'[i] = linksLeft[i + 1]
    BY <1>1
  <2>3. linksLeft[1] = page.links[Len(page.links) - Len(linksLeft) + 1]
    BY <2>1 DEF Counting
  <2>4. Head(linksLeft) = linksLeft[1] /\ linksLeft[1] \in Links
    BY <1>1, <2>1
  <2> QED BY <1>1, <2>1, <2>2, <2>3, <2>4
<1>3. \A i \in 1..Len(linksLeft') :
        linksLeft'[i] = page'.links[Len(page'.links) - Len(linksLeft') + i]
  <2> TAKE i \in 1..Len(linksLeft')
  <2>1. linksLeft'[i] = linksLeft[i + 1] /\ i + 1 \in 1..Len(linksLeft)
    BY <1>2
  <2>2. Len(page.links) - Len(linksLeft) + (i + 1) = Len(page.links) - Len(linksLeft') + i
    <3>1. Len(page.links) \in Nat /\ Len(linksLeft) \in Nat /\ Len(linksLeft') = Len(linksLeft) - 1
      BY <1>1, <1>2
    <3> QED BY <3>1, SMTT(30)
  <2>3. linksLeft[i + 1] = page.links[Len(page.links) - Len(linksLeft) + (i + 1)]
    BY <2>1 DEF Counting
  <2> QED BY <1>1, <2>1, <2>2, <2>3
<1>4. SeenInternal' = IF n \in InternalLinks THEN SeenInternal \cup {n} ELSE SeenInternal
  <2>1. Seen' = Seen \cup {n} /\ InternalLinks' = InternalLinks
    BY <1>1, <1>2 DEF Seen, InternalLinks, SameSite
  <2> QED BY <2>1 DEF SeenInternal
<1>5. n \notin SeenInternal
  BY DEF SeenInternal, Seen, Counting
<1>6. n \in InternalLinks <=> Head(linksLeft).kind = "page" /\ Internal(Head(linksLeft).host)
  BY <1>1, <1>2, InternalIsSameSite DEF InternalLinks, Counting
<1>7. /\ counts' \in [internal : Nat, external : Nat]
      /\ counts'.internal = IF n \in InternalLinks THEN counts.internal + 1 ELSE counts.internal
      /\ stage' \in {"links", "raised"}
  BY <1>2, <1>6 DEF Counting, Links
<1>8. IsFiniteSet(SeenInternal') /\ counts'.internal = Cardinality(SeenInternal')
  <2>1. IsFiniteSet(SeenInternal) /\ counts.internal = Cardinality(SeenInternal)
    BY DEF Counting
  <2>2. /\ IsFiniteSet(SeenInternal \cup {n})
        /\ Cardinality(SeenInternal \cup {n}) = Cardinality(SeenInternal) + 1
    BY <1>5, <2>1, FS_AddElement
  <2> QED BY <1>4, <1>7, <2>1, <2>2
<1> QED BY <1>1, <1>2, <1>3, <1>7, <1>8 DEF Counting

\* The other steps leave the links alone.
LEMMA OthersKeepCounting ==
    ASSUME Counting, UNCHANGED <<page, linksLeft, counts>>,
           stage' \in {"decode", "links", "jsonld", "stored", "raised"},
           stage' \in {"jsonld", "stored"} => linksLeft = <<>>
    PROVE  Counting'
BY DEF Counting, SeenInternal, Seen, InternalLinks, SameSite

\* What Assemble stores.
LEMMA AssembleFlags ==
    ASSUME Counting, Assemble
    PROVE  Flagged' /\ LanguageKept'
<1>1. page \in BodyPages /\ page' = page /\ page.links \in Seq(Links) /\ linksLeft = <<>>
  BY PageFacts DEF Counting, Assemble
<1>2. counts.internal = Cardinality(InternalLinks)
  <2>1. SeenInternal = InternalLinks
    BY <1>1 DEF SeenInternal, Seen, InternalLinks
  <2> QED BY <2>1 DEF Counting
<1>3. Flagged'
  <2>1. InternalLinks' = InternalLinks
    BY <1>1 DEF InternalLinks, SameSite
  <2>2. /\ flags'.soft404 = (page.status = 200 /\ page.saysNotFound)
        /\ flags'.parked = (/\ page.mainLen < 500 /\ counts.internal < 5
                            /\ page.mainLen > 0 /\ page.saysForSale)
    BY ZenonT(30) DEF Assemble, DeterministicFlags
  <2>3. page.mainLen \in 1..499 <=> page.mainLen < 500 /\ page.mainLen > 0
    <3>1. page.mainLen \in Nat
      BY <1>1, PageFacts
    <3> QED BY <3>1
  <2>4. flags'.soft404 <=> Gone
    BY <2>2 DEF Gone
  <2>5. flags'.parked <=> ForSale
    BY <1>2, <2>2, <2>3 DEF ForSale
  <2>6. Gone' <=> Gone
    BY <1>1 DEF Gone
  <2>7. ForSale' <=> ForSale
    BY <1>1, <2>1 DEF ForSale
  <2> QED BY <2>4, <2>5, <2>6, <2>7 DEF Flagged, Blocking
<1>4. LanguageKept'
  <2>1. /\ evidence'.lang = DetectLanguage(page).value /\ evidence'.langConf = DetectLanguage(page).confidence
        /\ evidence'.htmlLang = page.htmlLang /\ evidence'.ogLocale = page.ogLocale
        /\ evidence'.hreflang = page.hreflang
    BY DEF Assemble
  <2>2. page.guess.lang # None /\ page.guess.prob \in 1..100
    BY <1>1, PageFacts, ExtractionAssumption DEF Guesses
  <2> DEFINE was == DetectLanguage(page)
             is == LanguageFromEvidence(evidence')
             short == (IF page.mainLen > 0 THEN page.mainLen ELSE page.bodyLen) < MinText
             html == Base(page.htmlLang)
             agreement == IF html = None THEN None
                          ELSE IF page.guess.lang = html THEN "yes" ELSE "no"
             Block(v, c, m, a) == [value |-> v, confidence |-> c, method |-> m, agreement |-> a,
                                   multilingual |-> Multilingual(page.hreflang),
                                   region |-> Region(page.ogLocale, page.hreflang)]
  <2>3. /\ is.value = was.value /\ is.confidence = was.confidence
        /\ is.multilingual = was.multilingual /\ is.region = was.region
    BY <2>1 DEF DetectLanguage, LanguageFromEvidence
  <2>4. IF was.method = "html_lang" THEN is.method = "detected" /\ is.agreement = "yes"
        ELSE is = was
    <3>1. CASE short /\ html # None
      <4>1. was = Block(html, 40, "html_lang", None)
        BY <3>1 DEF DetectLanguage
      <4>2. is = Block(html, 40, "detected", "yes")
        BY <2>1, <3>1, <4>1 DEF LanguageFromEvidence
      <4>3. was.method = "html_lang"
        BY <4>1
      <4>4. is.method = "detected" /\ is.agreement = "yes"
        BY <4>2
      <4> QED BY <4>3, <4>4
    <3>2. CASE short /\ html = None
      <4>1. was = Block(None, 0, "unknown", None)
        BY <3>2 DEF DetectLanguage
      <4>2. is = Block(None, 0, "unknown", None)
        BY <2>1, <3>2, <4>1 DEF LanguageFromEvidence
      <4> QED BY <4>1, <4>2
    <3>3. CASE ~short
      <4>1. was = Block(page.guess.lang, was.confidence, "detected", agreement)
        BY <3>3 DEF DetectLanguage
      <4>2. was.confidence \in Int /\ was.confidence > 0
        BY <2>2, <3>3 DEF DetectLanguage, Smaller
      <4>3. is = Block(page.guess.lang, was.confidence, "detected", agreement)
        BY <2>1, <2>2, <4>1, <4>2 DEF LanguageFromEvidence
      <4> QED BY <4>1, <4>3
    <3> QED BY <3>1, <3>2, <3>3
  <2> QED BY <1>1, <2>3, <2>4 DEF LanguageKept
<1> QED BY <1>3, <1>4

LEMMA ExtractKeepsCounting ==
    ASSUME Counting, Flagged, LanguageKept, Extract
    PROVE  Counting' /\ Flagged' /\ LanguageKept'
<1>1. CASE Assemble
  <2>1. Counting'
    BY <1>1, OthersKeepCounting DEF Assemble, Goto, Counting
  <2> QED BY <1>1, <2>1, AssembleFlags
<1>2. ASSUME UNCHANGED <<page, evidence>>, stage' # "stored"
      PROVE  Flagged' /\ LanguageKept'
  BY <1>2 DEF Flagged, LanguageKept
<1>3. CASE CountLink
  BY <1>2, <1>3, CountLinkKeeps DEF CountLink, Goto
<1>4. CASE Decode \/ LinksDone \/ ReadScript \/ Visit
  <2>1. /\ UNCHANGED <<page, linksLeft, counts, evidence>>
        /\ stage' \in {"links", "jsonld", "raised"}
        /\ stage' = "jsonld" => linksLeft = <<>>
    BY <1>4 DEF Decode, LinksDone, ReadScript, Visit, Goto, Counting
  <2>2. Counting'
    BY <2>1, OthersKeepCounting
  <2> QED BY <1>2, <2>1, <2>2
<1> QED BY <1>1, <1>3, <1>4 DEF Extract

\* A page that does not settle itself is asked about.
Spent ==
    /\ pc = "start" => rung = "small"
    /\ ~Blocking(flags) /\ provider # "off" /\ (pc \notin {"start", "ask"} \/ rung = "large")
       => calls["small"] > 0

LEMMA ClassifySpends ==
    ASSUME Inv, Spent, Classify
    PROVE  Spent'
<1> USE DEF Inv, Spent, Waits, L!TypeOK
<1>1. Blocking(flags)' = Blocking(flags)
  BY DEF Classify, extraction, Blocking
<1>2. CASE L!Answer \/ L!Misanswer \/ L!Refuse \/ L!Garble
  BY <1>1, <1>2 DEF L!Answer, L!Misanswer, L!Refuse, L!Garble, L!Called, L!config
<1>3. CASE L!Start \/ L!Climb
  BY <1>1, <1>3 DEF L!Start, L!Climb, L!config
<1>4. CASE L!Block \/ L!Defer
  BY <1>1, <1>4 DEF L!Block, L!Defer, L!Finish, L!config
<1>5. CASE L!Accept \/ L!Doubt \/ L!FallBack \/ L!Fail
  BY <1>1, <1>5 DEF L!Accept, L!Doubt, L!FallBack, L!Fail, L!Finish, L!config
<1>6. CASE L!Done
  BY <1>1, <1>6 DEF L!Done, L!vars, L!config
<1> QED BY <1>2, <1>3, <1>4, <1>5, <1>6 DEF Classify, L!Next

PageInv == Inv /\ Counting /\ Flagged /\ LanguageKept /\ Spent

LEMMA PageInvariance == Spec => []PageInv
<1>1. Init => PageInv
  BY InitInv, InitCounting DEF PageInv, Spent, Init, L!Init
<1>2. PageInv /\ [Next]_vars => PageInv'
  <2> SUFFICES ASSUME PageInv, [Next]_vars PROVE PageInv'
    OBVIOUS
  <2> USE DEF PageInv
  <2>1. Inv'
    BY NextKeeps
  <2>2. CASE Extract /\ UNCHANGED judgement
    <3>1. pc = "start" /\ rung = "small" /\ pc' = pc /\ rung' = rung
      BY <2>2 DEF Inv, Waits, Spent, Extract, Decode, CountLink, LinksDone, ReadScript, Visit,
         Assemble, judgement
    <3> QED BY <2>1, <2>2, <3>1, ExtractKeepsCounting DEF Spent
  <2>3. ASSUME UNCHANGED extraction
        PROVE  Counting' /\ Flagged' /\ LanguageKept'
    <3>1. Counting'
      BY <2>3, OthersKeepCounting DEF extraction, Counting
    <3> QED BY <2>3, <3>1
            DEF extraction, Flagged, LanguageKept, Gone, ForSale, InternalLinks, SameSite, Blocking
  <2>4. CASE Classify
    BY <2>1, <2>3, <2>4, ClassifySpends DEF Classify
  <2>5. CASE UNCHANGED vars
    BY <2>1, <2>3, <2>5 DEF vars, judgement, extraction, Spent, Blocking
  <2> QED BY <2>2, <2>4, <2>5 DEF Next, Raised
<1> QED BY <1>1, <1>2, PTL DEF Spec

\* A page that says it is gone, or that its domain is for sale while it has
\* little text and few links of its own, costs no request; every other page is
\* judged by the model if there is one. The links counted in one pass over the
\* page are those whose host ends in its domain (`_count_links`).
THEOREM EmptyPagesAreFree == Spec => []OnlyEmptyPagesAreFree
<1>1. PageInv => OnlyEmptyPagesAreFree
  <2> SUFFICES ASSUME PageInv, pc = "done", provider # "off"
               PROVE  (calls["small"] = 0) = (Gone \/ ForSale)
    BY DEF OnlyEmptyPagesAreFree, Gone, ForSale
  <2>1. stage = "stored" /\ (Blocking(flags) <=> Gone \/ ForSale)
    BY DEF PageInv, Inv, Waits, Flagged
  <2>2. Blocking(flags) <=> calls["small"] = 0
    BY DEF PageInv, Inv, Waits, Spent
  <2> QED BY <2>1, <2>2
<1> QED BY <1>1, PageInvariance, PTL

\* What is rebuilt from the stored evidence is the language that was detected, but
\* that a short page's declared language passes for a detected one, for every page
\* (`detect_language`, `language_from_evidence`).
THEOREM LanguageIsKept == Spec => []LanguageKept
BY PageInvariance, PTL DEF PageInv

-----------------------------------------------------------------------------
(***************************************************************************)
(* The reference has its values: JSON data nests to some depth, and its     *)
(* objects are those of its parts.                                          *)
(***************************************************************************)
Data == Json \cup Unread

\* One step of the reference, from what f says of the parts.
Listed(f) ==
    [data \in Data |->
        CASE data.kind = "list" -> FlattenSeq([i \in DOMAIN data.items |-> f[data.items[i]]])
          [] data.kind = "object" ->
                (IF data.graph = None THEN <<>> ELSE f[data.graph]) \o <<OwnFields(data)>>
          [] OTHER -> <<>>]

\* f has these equations for what nests less than n deep.
UpTo(f, n) == \A data \in Json : Depth[data] < n => f[data] = Listed(f)[data]

\* What kinds of data there are.
LEMMA DataKinds ==
    /\ \A data \in Json :
          \/ data.kind = "scalar"
          \/ /\ data.kind = "list" /\ data.items \in Seq(Json)
             /\ \A i \in 1..Len(data.items) : Depth[data.items[i]] < Depth[data]
          \/ /\ data.kind = "object" /\ data \in Objects /\ OwnFields(data) \in Json
             /\ data.graph # None => data.graph \in Json /\ Depth[data.graph] < Depth[data]
    /\ \A data \in Unread : data.kind \in Scripts
    /\ \A data \in Json : Depth[data] \in Nat
<1>1. ASSUME NEW data \in Json
      PROVE  \/ data.kind = "scalar"
             \/ /\ data.kind = "list" /\ data.items \in Seq(Json)
                /\ \A i \in 1..Len(data.items) : Depth[data.items[i]] < Depth[data]
             \/ /\ data.kind = "object" /\ data \in Objects /\ OwnFields(data) \in Json
                /\ data.graph # None => data.graph \in Json /\ Depth[data.graph] < Depth[data]
  <2>1. CASE data = [kind |-> "scalar"]
    BY <2>1
  <2>2. CASE data \in Lists /\ \A i \in DOMAIN data.items : Depth[data.items[i]] < Depth[data]
    BY <2>2 DEF Lists
  <2>3. CASE /\ data \in Objects /\ OwnFields(data) \in Json
             /\ data.graph # None => Depth[data.graph] < Depth[data]
    <3>1. data.kind = "object" /\ data.graph \in Json \cup {None}
      BY <2>3 DEF Objects
    <3> QED BY <2>3, <3>1
  <2> QED BY <2>1, <2>2, <2>3, JsonAssumption
<1>2. \A data \in Unread : data.kind \in Scripts
  BY DEF Unread
<1>3. \A data \in Json : Depth[data] \in Nat
  BY JsonAssumption
<1> QED BY <1>1, <1>2, <1>3

\* Only the parts count.
LEMMA PartsDecide ==
    ASSUME NEW f, NEW g, NEW data \in Json,
           \A part \in Json : Depth[part] < Depth[data] => f[part] = g[part]
    PROVE  Listed(f)[data] = Listed(g)[data]
<1> DEFINE Value(h) ==
        CASE data.kind = "list" -> FlattenSeq([i \in DOMAIN data.items |-> h[data.items[i]]])
          [] data.kind = "object" ->
                (IF data.graph = None THEN <<>> ELSE h[data.graph]) \o <<OwnFields(data)>>
          [] OTHER -> <<>>
<1>1. Listed(f)[data] = Value(f) /\ Listed(g)[data] = Value(g)
  BY DEF Listed, Data
<1>2. CASE data.kind = "scalar"
  BY <1>1, <1>2
<1>3. CASE /\ data.kind = "list" /\ data.items \in Seq(Json)
           /\ \A i \in 1..Len(data.items) : Depth[data.items[i]] < Depth[data]
  <2>1. [i \in DOMAIN data.items |-> f[data.items[i]]] = [i \in DOMAIN data.items |-> g[data.items[i]]]
    BY <1>3
  <2>2. Value(f) = FlattenSeq([i \in DOMAIN data.items |-> f[data.items[i]]])
        /\ Value(g) = FlattenSeq([i \in DOMAIN data.items |-> g[data.items[i]]])
    BY <1>3
  <2> HIDE DEF Value
  <2> QED BY <1>1, <2>1, <2>2
<1>4. CASE /\ data.kind = "object"
           /\ data.graph # None => data.graph \in Json /\ Depth[data.graph] < Depth[data]
  BY <1>1, <1>4
<1> HIDE DEF Value
<1> QED BY <1>2, <1>3, <1>4, DataKinds

\* Two that have the equations agree.
LEMMA OneListing ==
    ASSUME NEW f, NEW g, NEW n \in Nat, UpTo(f, n), UpTo(g, n)
    PROVE  \A data \in Json : Depth[data] < n => f[data] = g[data]
<1> DEFINE S == {m \in Nat : \A data \in Json : Depth[data] < m /\ Depth[data] < n => f[data] = g[data]}
<1>0. \A data \in Json : Depth[data] \in Nat
  BY DataKinds
<1>1. 0 \in S
  BY <1>0
<1>2. ASSUME NEW m \in S PROVE m + 1 \in S
  <2> SUFFICES ASSUME NEW data \in Json, Depth[data] < m + 1, Depth[data] < n
               PROVE  f[data] = g[data]
    OBVIOUS
  <2>1. \A part \in Json : Depth[part] < Depth[data] => f[part] = g[part]
    <3> TAKE part \in Json
    <3> HAVE Depth[part] < Depth[data]
    <3>1. Depth[part] < m /\ Depth[part] < n
      BY <1>0
    <3> QED BY <3>1
  <2>2. Listed(f)[data] = Listed(g)[data]
    <3> HIDE DEF S
    <3> QED BY <2>1, PartsDecide
  <2> QED BY <2>2 DEF UpTo
<1> HIDE DEF S
<1>3. S = Nat
  <2>1. S \in SUBSET Nat
    BY DEF S
  <2> QED BY <1>1, <1>2, <2>1, Induct
<1>4. n \in S
  BY <1>3
<1> QED BY <1>4 DEF S

\* A step from lists of objects gives lists of objects.
LEMMA ListedType ==
    ASSUME NEW f \in [Data -> Seq(Objects)]
    PROVE  Listed(f) \in [Data -> Seq(Objects)]
<1> SUFFICES ASSUME NEW data \in Data PROVE Listed(f)[data] \in Seq(Objects)
  BY DEF Listed
<1> DEFINE value ==
        CASE data.kind = "list" -> FlattenSeq([i \in DOMAIN data.items |-> f[data.items[i]]])
          [] data.kind = "object" ->
                (IF data.graph = None THEN <<>> ELSE f[data.graph]) \o <<OwnFields(data)>>
          [] OTHER -> <<>>
<1>1. Listed(f)[data] = value
  BY DEF Listed
<1>2. CASE data.kind = "list" /\ data.items \in Seq(Json)
  <2> DEFINE T == Seq(Objects)
             seqs == [i \in DOMAIN data.items |-> f[data.items[i]]]
  <2>1. \A i \in DOMAIN data.items : f[data.items[i]] \in T
    BY <1>2 DEF Data
  <2>2. seqs \in Seq(T)
    <3>1. data.items \in Seq(Json)
      BY <1>2
    <3> HIDE DEF T
    <3> QED BY <2>1, <3>1
  <2>3. FlattenSeq(seqs) \in Seq(Objects)
    <3>1. <<>> \in Seq(Objects)
      OBVIOUS
    <3> HIDE DEF seqs
    <3> QED BY <2>2, <3>1, FlattenAppend
  <2>4. value = FlattenSeq(seqs)
    BY <1>2
  <2> QED BY <1>1, <2>3, <2>4
<1>3. CASE /\ data.kind = "object" /\ data \in Objects
           /\ data.graph # None => data.graph \in Json
  <2>1. OwnFields(data) \in Objects
    BY <1>3 DEF OwnFields, Objects
  <2>2. (IF data.graph = None THEN <<>> ELSE f[data.graph]) \in Seq(Objects)
    BY <1>3 DEF Data
  <2>3. value = (IF data.graph = None THEN <<>> ELSE f[data.graph]) \o <<OwnFields(data)>>
    BY <1>3
  <2> HIDE DEF value
  <2> QED BY <1>1, <2>1, <2>2, <2>3
<1>4. CASE data.kind \notin {"list", "object"}
  BY <1>1, <1>4
<1> HIDE DEF value
<1> QED BY <1>2, <1>3, <1>4, DataKinds DEF Data, Scripts

\* There is one for each depth,
LEMMA ListingUpTo == \A n \in Nat : \E f \in [Data -> Seq(Objects)] : UpTo(f, n)
<1> DEFINE S == {n \in Nat : \E f \in [Data -> Seq(Objects)] : UpTo(f, n)}
<1>0. \A data \in Json : Depth[data] \in Nat
  BY DataKinds
<1>1. 0 \in S
  <2> DEFINE f == [data \in Data |-> <<>>]
  <2>1. f \in [Data -> Seq(Objects)]
    OBVIOUS
  <2>2. UpTo(f, 0)
    BY <1>0 DEF UpTo
  <2> QED BY <2>1, <2>2
<1>2. ASSUME NEW n \in S PROVE n + 1 \in S
  <2>1. PICK f \in [Data -> Seq(Objects)] : UpTo(f, n)
    OBVIOUS
  <2> DEFINE g == Listed(f)
  <2>2. g \in [Data -> Seq(Objects)]
    BY ListedType
  <2>3. ASSUME NEW data \in Json, Depth[data] < n + 1 PROVE g[data] = Listed(g)[data]
    <3>1. \A part \in Json : Depth[part] < Depth[data] => f[part] = g[part]
      <4> TAKE part \in Json
      <4> HAVE Depth[part] < Depth[data]
      <4>1. Depth[part] < n
        BY <1>0, <2>3
      <4> QED BY <2>1, <4>1 DEF UpTo
    <3> HIDE DEF g, S
    <3>2. Listed(f)[data] = Listed(g)[data]
      BY <3>1, PartsDecide
    <3> QED BY <3>2 DEF g
  <2>4. UpTo(g, n + 1)
    BY <2>3 DEF UpTo
  <2> QED BY <2>2, <2>4
<1> HIDE DEF S
<1>3. S = Nat
  <2>1. S \in SUBSET Nat
    BY DEF S
  <2> QED BY <1>1, <1>2, <2>1, Induct
<1> QED BY <1>3 DEF S

\* and so there is one, whatever the depth.
LEMMA ListingExists == \E f \in [Data -> Seq(Objects)] : f = Listed(f)
<1> DEFINE T == [Data -> Seq(Objects)]
           to == [n \in Nat |-> CHOOSE f \in T : UpTo(f, n)]
           d(data) == IF data \in Json THEN Depth[data] + 1 ELSE 1
           g == [data \in Data |-> Listed(to[d(data)])[data]]
<1>0. \A data \in Json : Depth[data] \in Nat
  BY DataKinds
<1>1. \A n \in Nat : to[n] \in T /\ UpTo(to[n], n)
  <2> SUFFICES ASSUME NEW n \in Nat PROVE to[n] \in T /\ UpTo(to[n], n)
    OBVIOUS
  <2>1. to[n] = CHOOSE f \in T : UpTo(f, n)
    OBVIOUS
  <2>2. \E f \in T : UpTo(f, n)
    BY ListingUpTo
  <2> HIDE DEF T, to
  <2> QED BY <2>1, <2>2, Zenon
<1>2. \A data \in Data : d(data) \in Nat
  BY <1>0
<1>3. g \in T
  <2> SUFFICES ASSUME NEW data \in Data PROVE Listed(to[d(data)])[data] \in Seq(Objects)
    OBVIOUS
  <2>1. to[d(data)] \in T
    <3> HIDE DEF to, T, d
    <3> QED BY <1>1, <1>2
  <2> HIDE DEF to, d
  <2> QED BY <2>1, ListedType
<1>4. ASSUME NEW data \in Json PROVE g[data] = Listed(g)[data]
  <2> DEFINE f == to[Depth[data] + 1]
  <2>1. Depth[data] + 1 \in Nat /\ UpTo(f, Depth[data] + 1)
    <3> HIDE DEF to
    <3> QED BY <1>0, <1>1
  <2>2. g[data] = Listed(f)[data]
    BY DEF Data
  <2>3. ASSUME NEW part \in Json, Depth[part] < Depth[data] PROVE f[part] = g[part]
    <3> DEFINE h == to[Depth[part] + 1]
    <3>1. g[part] = Listed(h)[part]
      BY DEF Data
    <3>2. Depth[part] + 1 \in Nat /\ UpTo(h, Depth[part] + 1)
      <4> HIDE DEF to
      <4> QED BY <1>0, <1>1
    <3>3. Depth[part] \in Nat /\ Depth[data] \in Nat
      BY <1>0
    <3>4. UpTo(f, Depth[part] + 1)
      <4> HIDE DEF f
      <4> QED BY <1>0, <2>1, <2>3, <3>3 DEF UpTo
    <3>5. \A x \in Json : Depth[x] < Depth[part] + 1 => f[x] = h[x]
      <4> HIDE DEF f, h, g, to
      <4> QED BY <3>2, <3>4, OneListing
    <3>6. h[part] = Listed(h)[part]
      <4> HIDE DEF h
      <4> QED BY <3>2, <3>3 DEF UpTo
    <3>7. f[part] = h[part]
      <4> HIDE DEF f, h
      <4> QED BY <3>3, <3>5
    <3> HIDE DEF f, g, h
    <3> QED BY <3>1, <3>6, <3>7
  <2> HIDE DEF f, g
  <2>4. Listed(f)[data] = Listed(g)[data]
    BY <2>3, PartsDecide
  <2> QED BY <2>2, <2>4
<1>5. ASSUME NEW data \in Unread PROVE g[data] = Listed(g)[data]
  <2>1. data.kind \notin {"list", "object"}
    BY DataKinds DEF Scripts
  <2>2. \A h : Listed(h)[data] = <<>>
    BY <2>1 DEF Listed, Data
  <2>3. g[data] = Listed(to[d(data)])[data]
    BY DEF Data
  <2> HIDE DEF g, to, d
  <2> QED BY <2>2, <2>3
<1>6. g = Listed(g)
  <2>1. \A data \in Data : g[data] = Listed(g)[data]
    BY <1>4, <1>5 DEF Data
  <2>2. DOMAIN g = Data /\ DOMAIN Listed(g) = Data
    BY DEF Listed
  <2>3. g = [data \in Data |-> g[data]] /\ Listed(g) = [data \in Data |-> Listed(g)[data]]
    <3>1. g = [data \in Data |-> g[data]]
      OBVIOUS
    <3>2. Listed(g) = [data \in Data |-> Listed(g)[data]]
      <4> HIDE DEF g
      <4> QED BY DEF Listed
    <3> QED BY <3>1, <3>2
  <2> HIDE DEF g
  <2> QED BY <2>1, <2>3
<1> HIDE DEF g
<1> QED BY <1>3, <1>6

\* `ObjectsIn` is what one step down makes of itself.
LEMMA ObjectsAre ==
    ObjectsIn \in [Data -> Seq(Objects)] /\ \A data \in Data : ObjectsIn[data] = Listed(ObjectsIn)[data]
<1> DEFINE Solves(g) ==
        g = [data \in Json \cup Unread |->
                CASE data.kind = "list" -> FlattenSeq([i \in DOMAIN data.items |-> g[data.items[i]]])
                  [] data.kind = "object" ->
                        (IF data.graph = None THEN <<>> ELSE g[data.graph]) \o <<OwnFields(data)>>
                  [] OTHER -> <<>>]
<1>1. PICK f \in [Data -> Seq(Objects)] : f = Listed(f)
  BY ListingExists
<1>2. \A g : Solves(g) <=> g = Listed(g)
  BY Zenon DEF Listed, Data
<1>3. ObjectsIn = CHOOSE g : Solves(g)
  BY Zenon DEF ObjectsIn
<1> HIDE DEF Solves
<1>4. Solves(f)
  BY <1>1, <1>2, Zenon
<1>5. Solves(ObjectsIn)
  BY <1>3, <1>4, Zenon
<1>6. ObjectsIn = Listed(ObjectsIn)
  BY <1>2, <1>5, Zenon
<1> DEFINE o == ObjectsIn
<1> HIDE DEF o
<1>7. o = Listed(o)
  BY <1>6 DEF o
<1>8. \A data \in Json : Depth[data] \in Nat
  BY DataKinds
<1>9. \A data \in Json : o[data] = f[data]
  <2> SUFFICES ASSUME NEW data \in Json PROVE o[data] = f[data]
    OBVIOUS
  <2> DEFINE n == Depth[data] + 1
  <2>1. n \in Nat /\ Depth[data] < n
    BY <1>8
  <2>2. UpTo(o, n) /\ UpTo(f, n)
    <3> HIDE DEF n
    <3> QED BY <1>1, <1>7, Zenon DEF UpTo
  <2> HIDE DEF n
  <2> QED BY <2>1, <2>2, OneListing
<1>10. \A data \in Unread : o[data] = f[data]
  <2> SUFFICES ASSUME NEW data \in Unread PROVE o[data] = f[data]
    OBVIOUS
  <2>1. data.kind \notin {"list", "object"}
    BY DataKinds DEF Scripts
  <2>2. \A h : Listed(h)[data] = <<>>
    BY <2>1 DEF Listed, Data
  <2> QED BY <1>1, <1>7, <2>2, Zenon
<1>11. o = [data \in Data |-> o[data]] /\ f = [data \in Data |-> f[data]]
  <2>1. \A h : Listed(h) = [data \in Data |-> Listed(h)[data]]
    BY DEF Listed
  <2> QED BY <1>1, <1>7, <2>1, Zenon
<1>12. o = f
  BY <1>9, <1>10, <1>11 DEF Data
<1> QED BY <1>1, <1>12, Zenon DEF o

-----------------------------------------------------------------------------
(***************************************************************************)
(* The walk: what is still to visit                                         *)
(***************************************************************************)
ObjectsOf(datas) == Joined(ObjectsIn, datas)

\* The objects of one piece of data, by its kind.
LEMMA ObjectsByKind ==
    /\ \A data \in Unread : ObjectsIn[data] = <<>>
    /\ \A data \in Json :
        /\ ObjectsIn[data] \in Seq(Objects)
        /\ data.kind = "list" => ObjectsIn[data] = ObjectsOf(data.items)
        /\ data.kind = "object" /\ data.graph # None =>
              ObjectsIn[data] = ObjectsIn[data.graph] \o <<OwnFields(data)>>
        /\ data.kind = "object" /\ data.graph = None => ObjectsIn[data] = <<data>>
        /\ data.kind \notin {"list", "object"} => ObjectsIn[data] = <<>>
<1> DEFINE o == ObjectsIn
<1>1. o \in [Data -> Seq(Objects)] /\ \A data \in Data : o[data] = Listed(o)[data]
  BY ObjectsAre
<1> HIDE DEF o
<1>2. ASSUME NEW data \in Unread PROVE o[data] = <<>>
  <2>1. data.kind \notin {"list", "object"}
    BY DataKinds DEF Scripts
  <2> QED BY <1>1, <2>1 DEF Listed, Data
<1>3. ASSUME NEW data \in Json, data.kind = "list" PROVE o[data] = Joined(o, data.items)
  <2>1. data.items \in Seq(Json)
    BY <1>3, DataKinds
  <2>2. o[data] = FlattenSeq([i \in DOMAIN data.items |-> o[data.items[i]]])
    BY <1>1, <1>3 DEF Listed, Data
  <2>3. DOMAIN data.items = 1..Len(data.items)
    BY <2>1
  <2> QED BY <2>2, <2>3, Zenon DEF Joined, Mapped
<1>4. ASSUME NEW data \in Json, data.kind = "object"
      PROVE  /\ data.graph # None => o[data] = o[data.graph] \o <<OwnFields(data)>>
             /\ data.graph = None => o[data] = <<data>>
  <2>1. o[data] = (IF data.graph = None THEN <<>> ELSE o[data.graph]) \o <<OwnFields(data)>>
    BY <1>1, <1>4 DEF Listed, Data
  <2>2. data \in Objects
    BY <1>4, DataKinds
  <2>3. data.graph = None => OwnFields(data) = data
    BY <2>2 DEF OwnFields, Objects
  <2>4. \A x : <<>> \o <<x>> = <<x>>
    OBVIOUS
  <2>5. data.graph = None => o[data] = <<>> \o <<data>>
    BY <2>1, <2>3
  <2> QED BY <2>1, <2>4, <2>5, Zenon
<1>5. ASSUME NEW data \in Json, data.kind \notin {"list", "object"} PROVE o[data] = <<>>
  BY <1>1, <1>5 DEF Listed, Data
<1>6. \A data \in Json : o[data] \in Seq(Objects)
  BY <1>1 DEF Data
<1> QED BY <1>2, <1>3, <1>4, <1>5, <1>6, Zenon DEF o, ObjectsOf

\* The objects of a sequence are those of its first, then those of the rest.
LEMMA ObjectsOfParts ==
    /\ ObjectsOf(<<>>) = <<>>
    /\ \A s \in Seq(Data) : ObjectsOf(s) \in Seq(Objects)
    /\ \A s, t \in Seq(Data) : ObjectsOf(s \o t) = ObjectsOf(s) \o ObjectsOf(t)
    /\ \A data \in Data : ObjectsOf(<<data>>) = ObjectsIn[data]
<1> DEFINE m == ObjectsIn
<1>1. m \in [Data -> Seq(Objects)]
  BY ObjectsAre
<1> HIDE DEF m
<1>2. /\ Joined(m, <<>>) = <<>>
      /\ \A s \in Seq(Data) : Joined(m, s) \in Seq(Objects)
      /\ \A s \in Seq(Data), a \in Data : Joined(m, Append(s, a)) = Joined(m, s) \o m[a]
  BY <1>1, JoinedThrough
<1>3. \A s, t \in Seq(Data) : Joined(m, s \o t) = Joined(m, s) \o Joined(m, t)
  BY <1>1, JoinedConcat
<1>4. \A data \in Data : Joined(m, <<data>>) = m[data]
  <2> TAKE data \in Data
  <2>1. <<data>> = Append(<<>>, data) /\ <<>> \in Seq(Data) /\ m[data] \in Seq(Objects)
    BY <1>1
  <2>2. Joined(m, <<data>>) = <<>> \o m[data]
    BY <1>2, <2>1
  <2> QED BY <2>1, <2>2
<1> QED BY <1>2, <1>3, <1>4, Zenon DEF m, ObjectsOf

\* So they are taken from the front.
LEMMA ObjectsOfHead ==
    ASSUME NEW s \in Seq(Data), s # <<>>
    PROVE  ObjectsOf(s) = ObjectsIn[Head(s)] \o ObjectsOf(Tail(s))
<1>1. s = <<Head(s)>> \o Tail(s) /\ Head(s) \in Data /\ Tail(s) \in Seq(Data) /\ <<Head(s)>> \in Seq(Data)
  OBVIOUS
<1>2. ObjectsOf(<<Head(s)>> \o Tail(s)) = ObjectsOf(<<Head(s)>>) \o ObjectsOf(Tail(s))
  BY <1>1, ObjectsOfParts
<1>3. ObjectsOf(<<Head(s)>>) = ObjectsIn[Head(s)]
  BY <1>1, ObjectsOfParts
<1> QED BY <1>1, <1>2, <1>3

-----------------------------------------------------------------------------
(***************************************************************************)
(* What is found: the types, the publisher and whether the page is free     *)
(***************************************************************************)
Found == [types : Seq(STRING), publisher : STRING \cup {None}, free : STRING \cup {None}]

\* An appended element is one more.
LEMMA AppendIsOneMore ==
    ASSUME NEW A, NEW s \in Seq(A), NEW a \in A
    PROVE  /\ Append(s, a) \in Seq(A) /\ Len(Append(s, a)) = Len(s) + 1
           /\ ToSet(Append(s, a)) = ToSet(s) \cup {a}
<1> DEFINE t == Append(s, a)
<1>1. /\ t \in Seq(A) /\ Len(t) = Len(s) + 1 /\ t[Len(s) + 1] = a /\ Len(s) \in Nat
      /\ \A i \in 1..Len(s) : t[i] = s[i]
  BY AppendProperties
<1> HIDE DEF t
<1>2. DOMAIN t = 1..(Len(s) + 1) /\ DOMAIN s = 1..Len(s)
  BY <1>1
<1>3. ASSUME NEW x \in ToSet(t) PROVE x \in ToSet(s) \cup {a}
  BY <1>1, <1>2 DEF ToSet
<1>4. a \in ToSet(t)
  BY <1>1, <1>2 DEF ToSet
<1>5. ASSUME NEW x \in ToSet(s) PROVE x \in ToSet(t)
  BY <1>1, <1>2 DEF ToSet
<1> QED BY <1>1, <1>3, <1>4, <1>5 DEF t

\* The loop over the types of an object.
LEMMA TypesAdded ==
    ASSUME NEW types \in Seq(STRING), NEW more \in Seq(STRING),
           IsFiniteSet(ToSet(types)), Cardinality(ToSet(types)) = Len(types)
    PROVE  LET added == AddTypes(types, more)
           IN  /\ added \in Seq(STRING) /\ ToSet(added) = ToSet(types) \cup ToSet(more)
               /\ IsFiniteSet(ToSet(added)) /\ Cardinality(ToSet(added)) = Len(added)
<1> DEFINE n == Len(more)
           T == Seq(STRING)
           Turn(t, ts) == IF Contains(ts, t) THEN ts ELSE Append(ts, t)
           turn == [k \in 1..n |-> [ts \in T |-> Turn(more[k], ts)]]
           Solves(f) == f = [k \in 0..n |-> IF k = 0 THEN types
                                ELSE IF Contains(f[k - 1], more[k]) THEN f[k - 1]
                                ELSE Append(f[k - 1], more[k])]
           after == CHOOSE f : Solves(f)
           Good(k, ts) == /\ ts \in T /\ ToSet(ts) = ToSet(types) \cup {more[i] : i \in 1..k}
                          /\ IsFiniteSet(ToSet(ts)) /\ Cardinality(ToSet(ts)) = Len(ts)
<1>1. n \in Nat /\ \A k \in 1..n : more[k] \in STRING
  OBVIOUS
<1>2. PICK g : LoopOf(g, n, T, types, turn)
  <2>1. turn \in [1..n -> [T -> T]]
    <3>1. \A k \in 1..n, ts \in T : Turn(more[k], ts) \in T
      <4> TAKE k \in 1..n, ts \in T
      <4>1. Append(ts, more[k]) \in T /\ ts \in T
        BY <1>1
      <4> HIDE DEF T
      <4> QED BY <4>1
    <3> HIDE DEF Turn, T, n
    <3> QED BY <3>1
  <2> HIDE DEF turn, n, T
  <2>2. types \in T
    BY DEF T
  <2> QED BY <1>1, <2>1, <2>2, LoopExists
<1>3. /\ g \in [0..n -> T] /\ g[0] = types
      /\ \A k \in 1..n : g[k] = Turn(more[k], g[k - 1])
  <2>1. g \in [0..n -> T] /\ g[0] = types /\ \A k \in 1..n : g[k] = turn[k][g[k - 1]]
    BY <1>2 DEF LoopOf
  <2>2. \A k \in 1..n : k - 1 \in 0..n
    BY <1>1
  <2>3. \A k \in 1..n, ts \in T : turn[k][ts] = Turn(more[k], ts)
    OBVIOUS
  <2> HIDE DEF turn, T, Turn, n
  <2> QED BY <2>1, <2>2, <2>3
<1>4. Solves(g)
  <2>1. g = [k \in 0..n |-> g[k]]
    BY <1>3
  <2>2. \A k \in 0..n : k # 0 => k \in 1..n
    BY <1>1
  <2> HIDE DEF n, T
  <2> QED BY <1>3, <2>1, <2>2
<1>5. Solves(after)
  <2> HIDE DEF Solves
  <2> QED BY <1>4, Zenon
<1>6. AddTypes(types, more) = after[n]
  BY Zenon DEF AddTypes
<1> HIDE DEF after
<1>7. after[0] = types /\ \A k \in 1..n : after[k] = Turn(more[k], after[k - 1])
  <2>1. 0 \in 0..n /\ \A k \in 1..n : k \in 0..n /\ k # 0
    BY <1>1
  <2> HIDE DEF n
  <2> QED BY <1>5, <2>1
<1>8. Good(0, types)
  BY DEF ToSet
<1>9. ASSUME NEW k \in 1..n, NEW ts, Good(k - 1, ts) PROVE Good(k, Turn(more[k], ts))
  <2>1. more[k] \in STRING /\ ts \in Seq(STRING)
    BY <1>1, <1>9
  <2>2. {more[i] : i \in 1..k} = {more[i] : i \in 1..(k - 1)} \cup {more[k]}
    BY <1>1
  <2>3. Contains(ts, more[k]) <=> more[k] \in ToSet(ts)
    BY <2>1 DEF Contains, ToSet
  <2>4. CASE more[k] \in ToSet(ts)
    BY <1>9, <2>2, <2>3, <2>4
  <2>5. CASE more[k] \notin ToSet(ts)
    <3>1. /\ Append(ts, more[k]) \in Seq(STRING) /\ Len(Append(ts, more[k])) = Len(ts) + 1
          /\ ToSet(Append(ts, more[k])) = ToSet(ts) \cup {more[k]}
      BY <2>1, AppendIsOneMore
    <3>2. /\ IsFiniteSet(ToSet(ts) \cup {more[k]})
          /\ Cardinality(ToSet(ts) \cup {more[k]}) = Cardinality(ToSet(ts)) + 1
      BY <1>9, <2>5, FS_AddElement
    <3> QED BY <1>9, <2>2, <2>3, <2>5, <3>1, <3>2
  <2> QED BY <2>4, <2>5
<1> DEFINE S == {k \in Nat : k <= n => Good(k, after[k])}
<1> HIDE DEF Good, Turn
<1>10. 0 \in S
  BY <1>7, <1>8
<1>11. ASSUME NEW k \in S PROVE k + 1 \in S
  <2> SUFFICES ASSUME k + 1 <= n PROVE Good(k + 1, after[k + 1])
    OBVIOUS
  <2>1. k + 1 \in 1..n /\ (k + 1) - 1 = k /\ Good(k, after[k])
    BY <1>1
  <2> HIDE DEF n, S
  <2> QED BY <1>7, <1>9, <2>1
<1>12. S = Nat
  <2>1. S \in SUBSET Nat
    OBVIOUS
  <2> HIDE DEF S
  <2> QED BY <1>10, <1>11, <2>1, Induct
<1>13. Good(n, after[n])
  BY <1>1, <1>12
<1>14. ToSet(more) = {more[i] : i \in 1..n}
  BY DEF ToSet
<1> HIDE DEF n
<1> QED BY <1>6, <1>13, <1>14 DEF Good

\* Who spoke first goes on to be first; if nobody did, the new one may be.
LEMMA FirstStays ==
    ASSUME NEW n \in Nat, NEW S \in SUBSET (1..n), NEW x \in BOOLEAN
    PROVE  LET T == IF x THEN S \cup {n + 1} ELSE S
           IN  /\ S # {} => T # {} /\ Min(T) = Min(S) /\ Min(S) \in S
               /\ S = {} => (T # {} <=> x) /\ (x => Min(T) = n + 1)
<1> DEFINE T == IF x THEN S \cup {n + 1} ELSE S
<1>1. ASSUME S # {} PROVE Min(T) = Min(S) /\ Min(S) \in S
  <2>1. PICK m \in S : \A y \in S : m <= y
    BY <1>1, Smallest
  <2>2. Min(S) \in S /\ \A y \in S : Min(S) <= y
    BY <2>1, Zenon DEF Min
  <2>3. m \in T /\ \A y \in T : m <= y
    BY <2>1
  <2>4. Min(T) \in T /\ \A y \in T : Min(T) <= y
    <3> HIDE DEF T
    <3> QED BY <2>3, Zenon DEF Min
  <2>5. (\A y \in T : y \in Nat) /\ \A y \in S : y \in Nat
    OBVIOUS
  <2>6. Min(S) \in Nat /\ Min(T) \in Nat /\ m \in Nat /\ Min(S) <= m /\ m <= Min(S) /\ Min(T) <= m /\ m <= Min(T)
    <3> HIDE DEF T
    <3> QED BY <2>1, <2>2, <2>3, <2>4, <2>5
  <2>7. Min(S) = m /\ Min(T) = m
    <3> HIDE DEF T
    <3> QED BY <2>6
  <2> QED BY <2>1, <2>7
<1>2. ASSUME S = {}, x PROVE Min(T) = n + 1
  <2>1. T = {n + 1}
    BY <1>2
  <2>2. n + 1 \in {n + 1} /\ \A y \in {n + 1} : n + 1 <= y
    OBVIOUS
  <2>3. Min({n + 1}) \in {n + 1}
    BY <2>2, Zenon DEF Min
  <2> QED BY <2>1, <2>3
<1> QED BY <1>1, <1>2

\* What was found so far, from these objects.
Hears(objs) == found \in Found /\ IsFiniteSet(ToSet(found.types)) /\ Heard(objs)

Speakers(objs) == {i \in DOMAIN objs : AsBool(objs[i].free) # None}
Owners(objs) == {i \in DOMAIN objs : objs[i].publisher # None}

\* `Heard`, with its sets named.
LEMMA HeardSays ==
    ASSUME NEW objs
    PROVE  Heard(objs) <=>
              /\ ToSet(found.types) = UNION {ToSet(obj.types) : obj \in ToSet(objs)}
              /\ Cardinality(ToSet(found.types)) = Len(found.types)
              /\ found.free = IF Speakers(objs) = {} THEN None ELSE objs[Min(Speakers(objs))].free
              /\ found.publisher = IF Owners(objs) = {} THEN None ELSE objs[Min(Owners(objs))].publisher
BY Zenon DEF Heard, Speakers, Owners

\* Nothing is said before the first object.
LEMMA HearsNothing ==
    ASSUME found = [types |-> <<>>, publisher |-> None, free |-> None]
    PROVE  Hears(<<>>)
<1>1. ToSet(<<>>) = {} /\ ToSet(found.types) = {} /\ Len(found.types) = 0 /\ found \in Found
  BY DEF ToSet, Found
<1>2. Speakers(<<>>) = {} /\ Owners(<<>>) = {}
  BY DEF Speakers, Owners
<1>3. IsFiniteSet({}) /\ Cardinality({}) = 0
  BY FS_EmptySet
<1>4. UNION {ToSet(obj.types) : obj \in {}} = {}
  OBVIOUS
<1>5. Heard(<<>>)
  BY <1>1, <1>2, <1>3, <1>4, HeardSays
<1> QED BY <1>1, <1>3, <1>5 DEF Hears

\* An object is heard behind those before it.
LEMMA NoteHears ==
    ASSUME NEW read \in Seq(Objects), NEW obj \in Objects, Hears(read), found' = Note(obj)
    PROVE  Hears(Append(read, obj))'
<1> DEFINE all == Append(read, obj)
           n == Len(read)
           added == AddTypes(found.types, obj.types)
<1>1. /\ n \in Nat /\ all \in Seq(Objects) /\ DOMAIN read = 1..n /\ DOMAIN all = 1..(n + 1)
      /\ all[n + 1] = obj /\ \A i \in 1..n : all[i] = read[i]
      /\ ToSet(all) = ToSet(read) \cup {obj}
  BY AppendIsOneMore, AppendProperties
<1>2. /\ obj.types \in Seq(STRING) /\ obj.publisher \in STRING \cup {None}
      /\ obj.free \in STRING \cup {None} /\ AsBool(obj.free) \in STRING \cup {None}
  BY DEF Objects, AsBool
<1>3. /\ found.types \in Seq(STRING) /\ IsFiniteSet(ToSet(found.types))
      /\ found.publisher \in STRING \cup {None} /\ found.free \in STRING \cup {None}
      /\ Cardinality(ToSet(found.types)) = Len(found.types)
      /\ ToSet(found.types) = UNION {ToSet(o.types) : o \in ToSet(read)}
      /\ found.free = IF Speakers(read) = {} THEN None ELSE read[Min(Speakers(read))].free
      /\ found.publisher = IF Owners(read) = {} THEN None ELSE read[Min(Owners(read))].publisher
  BY HeardSays DEF Hears, Found
<1>4. /\ found'.types = added
      /\ found'.publisher = IF found.publisher = None THEN obj.publisher ELSE found.publisher
      /\ found'.free = IF found.free = None THEN AsBool(obj.free) ELSE found.free
      /\ found' = [types |-> found'.types, publisher |-> found'.publisher, free |-> found'.free]
  BY DEF Note
<1>5. /\ added \in Seq(STRING) /\ ToSet(added) = ToSet(found.types) \cup ToSet(obj.types)
      /\ IsFiniteSet(ToSet(added)) /\ Cardinality(ToSet(added)) = Len(added)
  BY <1>2, <1>3, TypesAdded
<1>6. found' \in Found
  <2>1. /\ found'.types \in Seq(STRING) /\ found'.publisher \in STRING \cup {None}
        /\ found'.free \in STRING \cup {None}
    <3> HIDE DEF added
    <3> QED BY <1>2, <1>3, <1>4, <1>5
  <2> QED BY <1>4, <2>1, Zenon DEF Found
<1>7. ToSet(found'.types) = UNION {ToSet(o.types) : o \in ToSet(all)}
  <2> HIDE DEF all, added
  <2> QED BY <1>1, <1>3, <1>4, <1>5
<1>8. found'.free = IF Speakers(all) = {} THEN None ELSE all[Min(Speakers(all))].free
  <2> DEFINE S == Speakers(read)
             x == AsBool(obj.free) # None
  <2>1. S \in SUBSET (1..n) /\ Speakers(all) = IF x THEN S \cup {n + 1} ELSE S
    <3> HIDE DEF all, n
    <3> QED BY <1>1 DEF Speakers
  <2>2. /\ S # {} => Speakers(all) # {} /\ Min(Speakers(all)) = Min(S) /\ Min(S) \in S
        /\ S = {} => (Speakers(all) # {} <=> x) /\ (x => Min(Speakers(all)) = n + 1)
    <3>1. x \in BOOLEAN /\ n \in Nat /\ S \in SUBSET (1..n)
      BY <1>1, <2>1
    <3> HIDE DEF all, n, S, x
    <3> DEFINE T == IF x THEN S \cup {n + 1} ELSE S
    <3>2. /\ S # {} => T # {} /\ Min(T) = Min(S) /\ Min(S) \in S
          /\ S = {} => (T # {} <=> x) /\ (x => Min(T) = n + 1)
      BY <3>1, FirstStays, ZenonT(60)
    <3> HIDE DEF T
    <3> QED BY <2>1, <3>2 DEF T
  <2>3. \A o : AsBool(o) # None => AsBool(o) = o
    BY DEF AsBool
  <2>4. CASE S # {}
    <3>1. Min(S) \in 1..n /\ AsBool(read[Min(S)].free) # None
      BY <1>1, <2>2, <2>4 DEF Speakers
    <3>2. found.free = read[Min(S)].free /\ read[Min(S)].free # None
      BY <1>3, <2>3, <2>4, <3>1
    <3> HIDE DEF all, n, S
    <3> QED BY <1>1, <1>4, <2>2, <2>4, <3>1, <3>2
  <2>5. CASE S = {}
    <3>1. found'.free = AsBool(obj.free)
      BY <1>3, <1>4, <2>5
    <3> HIDE DEF all, n, S
    <3> QED BY <1>1, <2>2, <2>3, <2>5, <3>1
  <2> QED BY <2>4, <2>5
<1>9. found'.publisher = IF Owners(all) = {} THEN None ELSE all[Min(Owners(all))].publisher
  <2> DEFINE S == Owners(read)
             x == obj.publisher # None
  <2>1. S \in SUBSET (1..n) /\ Owners(all) = IF x THEN S \cup {n + 1} ELSE S
    <3> HIDE DEF all, n
    <3> QED BY <1>1 DEF Owners
  <2>2. /\ S # {} => Owners(all) # {} /\ Min(Owners(all)) = Min(S) /\ Min(S) \in S
        /\ S = {} => (Owners(all) # {} <=> x) /\ (x => Min(Owners(all)) = n + 1)
    <3>1. x \in BOOLEAN /\ n \in Nat /\ S \in SUBSET (1..n)
      BY <1>1, <2>1
    <3> HIDE DEF all, n, S, x
    <3> DEFINE T == IF x THEN S \cup {n + 1} ELSE S
    <3>2. /\ S # {} => T # {} /\ Min(T) = Min(S) /\ Min(S) \in S
          /\ S = {} => (T # {} <=> x) /\ (x => Min(T) = n + 1)
      BY <3>1, FirstStays, ZenonT(60)
    <3> HIDE DEF T
    <3> QED BY <2>1, <3>2 DEF T
  <2>3. CASE S # {}
    <3>1. Min(S) \in 1..n /\ read[Min(S)].publisher # None
      BY <1>1, <2>2, <2>3 DEF Owners
    <3>2. found.publisher = read[Min(S)].publisher
      BY <1>3, <2>3
    <3> HIDE DEF all, n, S
    <3> QED BY <1>1, <1>4, <2>2, <2>3, <3>1, <3>2
  <2>4. CASE S = {}
    <3>1. found'.publisher = obj.publisher
      BY <1>3, <1>4, <2>4
    <3> HIDE DEF all, n, S
    <3> QED BY <1>1, <2>2, <2>4, <3>1
  <2> QED BY <2>3, <2>4
<1>10. Heard(all)'
  <2> HIDE DEF all, added
  <2> QED BY <1>4, <1>5, <1>7, <1>8, <1>9, Zenon DEF Heard, Speakers, Owners
<1> QED BY <1>4, <1>5, <1>6, <1>10 DEF Hears

-----------------------------------------------------------------------------
(***************************************************************************)
(* The loop over the scripts                                                *)
(***************************************************************************)
\* Who is to blame for a page that ends without evidence.
Blamed ==
    \/ page.charset = "unknown"
    \/ \E i \in DOMAIN page.links : page.links[i].kind = "broken"
    \/ \E i \in DOMAIN page.jsonld : page.jsonld[i].kind = "deep"

\* The objects of the page are those heard, in their order, then those of the
\* data to visit, then those of the scripts to read.
Along == \E read \in Seq(Objects) :
            PageObjects = (read \o ObjectsOf(walk)) \o ObjectsOf(docs) /\ Hears(read)

Reading ==
    /\ docs \in Seq(Data) /\ ToSet(docs) \subseteq ToSet(page.jsonld)
    /\ walk \in Seq(Json)
    /\ stage = "raised" => Blamed
    /\ stage # "raised" => Along
    /\ stage = "stored" => walk = <<>> /\ docs = <<>>

\* Those of the page are those of all its scripts.
LEMMA PageObjectsAre ==
    ASSUME page \in BodyPages
    PROVE  page.jsonld \in Seq(Data) /\ PageObjects = ObjectsOf(page.jsonld)
<1>1. page.jsonld \in Seq(Data)
  BY ExtractionAssumption DEF Data
<1>2. DOMAIN page.jsonld = 1..Len(page.jsonld)
  BY <1>1
<1> QED BY <1>1, <1>2, Zenon DEF PageObjects, ObjectsOf, Joined, Mapped

\* Before the first script nothing is heard.
LEMMA InitReading == Init => Reading
<1> SUFFICES ASSUME Init PROVE Reading
  OBVIOUS
<1> USE DEF Init, ExtractionInit
<1>1. page.jsonld \in Seq(Data) /\ PageObjects = ObjectsOf(page.jsonld)
  BY PageObjectsAre
<1>2. Hears(<<>>)
  BY HearsNothing
<1>3. ObjectsOf(<<>>) = <<>> /\ ObjectsOf(page.jsonld) \in Seq(Objects)
  BY <1>1, ObjectsOfParts
<1>4. (<<>> \o ObjectsOf(walk)) \o ObjectsOf(docs) = PageObjects
  <2> DEFINE all == ObjectsOf(page.jsonld)
  <2>1. (<<>> \o <<>>) \o all = all
    <3> HIDE DEF all
    <3>1. all \in Seq(Objects)
      BY <1>3 DEF all
    <3> QED BY <3>1
  <2> QED BY <1>1, <1>3, <2>1
<1>5. <<>> \in Seq(Objects) /\ walk \in Seq(Json)
  OBVIOUS
<1> QED BY <1>1, <1>2, <1>4, <1>5 DEF Reading, Along

\* The next script: its objects wait for the walk, or it has none.
LEMMA ReadScriptKeeps == ASSUME Counting, Reading, ReadScript PROVE Reading'
<1> DEFINE doc == Head(docs)
<1>1. /\ docs \in Seq(Data) /\ docs # <<>> /\ docs' = Tail(docs) /\ walk = <<>> /\ stage = "jsonld"
      /\ page' = page /\ found' = found
      /\ walk' = IF doc.kind \in Scripts THEN walk ELSE <<doc>>
      /\ stage' = IF doc.kind = "deep" THEN "raised" ELSE stage
  <2>1. "deep" \in Scripts
    BY DEF Scripts
  <2> QED BY <2>1 DEF ReadScript, Reading, Goto
<1>2. /\ doc \in Data /\ doc \in ToSet(docs) /\ docs' \in Seq(Data)
      /\ ToSet(docs') \subseteq ToSet(docs)
  BY <1>1 DEF ToSet
<1>3. IF doc.kind \in Scripts THEN doc \in Unread /\ ObjectsIn[doc] = <<>> ELSE doc \in Json
  BY <1>2, DataKinds, ObjectsByKind DEF Data, Scripts
<1>4. walk' \in Seq(Json)
  BY <1>1, <1>3
<1>5. stage' = "raised" => Blamed'
  BY <1>1, <1>2 DEF Reading, Blamed, ToSet
<1>6. Along'
  <2>1. PICK read \in Seq(Objects) : PageObjects = (read \o ObjectsOf(walk)) \o ObjectsOf(docs) /\ Hears(read)
    BY <1>1 DEF Reading, Along
  <2>2. ObjectsOf(docs) = ObjectsIn[doc] \o ObjectsOf(docs')
    BY <1>1, ObjectsOfHead
  <2>3. ObjectsOf(walk) = <<>> /\ ObjectsOf(walk') = ObjectsIn[doc]
    BY <1>1, <1>2, <1>3, ObjectsOfParts
  <2>4. ObjectsIn[doc] \in Seq(Objects) /\ ObjectsOf(docs') \in Seq(Objects)
    BY <1>2, ObjectsOfParts, ObjectsAre
  <2> DEFINE x == ObjectsIn[doc]
             y == ObjectsOf(docs')
  <2>5. (read \o <<>>) \o (x \o y) = (read \o x) \o y
    <3> HIDE DEF x, y
    <3>1. x \in Seq(Objects) /\ y \in Seq(Objects)
      BY <2>4 DEF x, y
    <3>2. read \o (x \o y) = (read \o x) \o y
      BY <3>1, ConcatAssociative, SMTT(30)
    <3>3. read \o <<>> = read
      BY ConcatEmptySeq
    <3> QED BY <3>2, <3>3
  <2>6. PageObjects' = PageObjects /\ Hears(read)'
    BY <1>1, <2>1 DEF PageObjects, Hears, Heard
  <2> QED BY <2>1, <2>2, <2>3, <2>5, <2>6 DEF Along
<1> QED BY <1>1, <1>2, <1>4, <1>5, <1>6 DEF Reading

\* An object moves from what is still to be read to what was read.
LEMMA OneReadOn ==
    ASSUME NEW A, NEW r \in Seq(A), NEW a \in A, NEW s \in Seq(A)
    PROVE  r \o (<<a>> \o s) = Append(r, a) \o s
<1> DEFINE one == <<a>>
<1>1. Append(r, a) = r \o one /\ one \in Seq(A)
  OBVIOUS
<1> HIDE DEF one
<1>2. r \o (one \o s) = (r \o one) \o s
  BY <1>1, ConcatAssociative
<1> QED BY <1>1, <1>2 DEF one

\* One call of the walk: the objects of the data stay those of its parts, or
\* the object is heard.
LEMMA VisitKeeps == ASSUME Counting, Reading, Visit PROVE Reading'
<1> DEFINE data == Head(walk)
           rest == ObjectsOf(Tail(walk))
           later == ObjectsOf(docs)
<1>1. /\ walk \in Seq(Json) /\ walk # <<>> /\ stage = "jsonld" /\ stage' = stage /\ page' = page
      /\ docs' = docs
  BY DEF Visit, Reading
<1>2. data \in Json /\ Tail(walk) \in Seq(Json) /\ walk \in Seq(Data) /\ Tail(walk) \in Seq(Data)
  BY <1>1 DEF Data
<1>3. /\ ObjectsOf(walk) = ObjectsIn[data] \o rest /\ rest \in Seq(Objects)
      /\ later \in Seq(Objects) /\ ObjectsIn[data] \in Seq(Objects)
  <2>1. docs \in Seq(Data)
    BY DEF Reading
  <2> QED BY <1>1, <1>2, <2>1, ObjectsOfHead, ObjectsOfParts, ObjectsByKind
<1>4. PICK read \in Seq(Objects) : PageObjects = (read \o ObjectsOf(walk)) \o later /\ Hears(read)
  BY <1>1 DEF Reading, Along
<1>5. PageObjects' = PageObjects
  BY <1>1 DEF PageObjects
<1>6. ASSUME walk' \in Seq(Json), Along' PROVE Reading'
  BY <1>1, <1>6 DEF Reading
<1>7. ASSUME walk' \in Seq(Json), found' = found, ObjectsOf(walk') = ObjectsOf(walk) PROVE Reading'
  <2>1. Hears(read)'
    BY <1>4, <1>7 DEF Hears, Heard
  <2>2. PageObjects' = (read \o ObjectsOf(walk')) \o ObjectsOf(docs')
    BY <1>1, <1>4, <1>5, <1>7
  <2> QED BY <1>6, <1>7, <2>1, <2>2 DEF Along
<1>8. CASE data.kind = "list"
  <2>1. walk' = data.items \o Tail(walk) /\ found' = found
    BY <1>8 DEF Visit
  <2>2. data.items \in Seq(Json) /\ data.items \in Seq(Data)
    BY <1>2, <1>8, DataKinds DEF Data
  <2>3. ObjectsOf(walk') = ObjectsOf(data.items) \o rest
    BY <1>2, <2>1, <2>2, ObjectsOfParts
  <2>4. walk' \in Seq(Json)
    BY <1>2, <2>1, <2>2, ConcatProperties
  <2>5. ObjectsOf(walk') = ObjectsOf(walk)
    BY <1>2, <1>3, <1>8, <2>3, ObjectsByKind
  <2> QED BY <1>7, <2>1, <2>4, <2>5
<1>9. CASE data.kind = "object" /\ data.graph # None
  <2> DEFINE own == OwnFields(data)
             two == <<data.graph, own>>
  <2>1. walk' = two \o Tail(walk) /\ found' = found
    BY <1>9 DEF Visit
  <2>2. data.graph \in Json /\ own \in Json /\ data \in Objects
    BY <1>2, <1>9, DataKinds
  <2>3. own.kind = "object" /\ own.graph = None
    BY <2>2 DEF OwnFields, Objects
  <2> HIDE DEF own
  <2>4. ObjectsIn[own] = <<own>> /\ ObjectsIn[data] = ObjectsIn[data.graph] \o <<own>>
    BY <1>2, <1>9, <2>2, <2>3, ObjectsByKind DEF own
  <2>5. two = <<data.graph>> \o <<own>> /\ two \in Seq(Json) /\ two \in Seq(Data)
        /\ <<data.graph>> \in Seq(Data) /\ <<own>> \in Seq(Data) /\ data.graph \in Data /\ own \in Data
    BY <2>2 DEF Data
  <2>6. ObjectsOf(two) = ObjectsIn[data]
    BY <2>4, <2>5, ObjectsOfParts
  <2> HIDE DEF two
  <2>7. ObjectsOf(walk') = ObjectsOf(two) \o rest
    BY <1>2, <2>1, <2>5, ObjectsOfParts
  <2>8. walk' \in Seq(Json)
    BY <1>2, <2>1, <2>5, ConcatProperties
  <2> QED BY <1>3, <1>7, <2>1, <2>6, <2>7, <2>8
<1>10. CASE data.kind = "object" /\ data.graph = None
  <2>1. PICK obj \in Objects : obj = data
    BY <1>2, <1>10, DataKinds
  <2>2. walk' = Tail(walk) /\ found' = Note(obj)
    BY <1>10, <2>1 DEF Visit
  <2>3. ObjectsIn[data] = <<obj>>
    BY <1>2, <1>10, <2>1, ObjectsByKind
  <2>4. Hears(Append(read, obj))'
    BY <1>4, <2>2, NoteHears
  <2>5. (read \o (<<obj>> \o rest)) \o later = (Append(read, obj) \o rest) \o later
    BY <1>3, OneReadOn, SMTT(30)
  <2>6. PageObjects' = (Append(read, obj) \o ObjectsOf(walk')) \o ObjectsOf(docs')
    BY <1>1, <1>3, <1>4, <1>5, <2>2, <2>3, <2>5
  <2>7. Append(read, obj) \in Seq(Objects)
    OBVIOUS
  <2>8. Along'
    BY <2>4, <2>6, <2>7 DEF Along
  <2> QED BY <1>2, <1>6, <2>2, <2>8
<1>11. CASE data.kind \notin {"list", "object"}
  <2>1. walk' = Tail(walk) /\ found' = found
    BY <1>11 DEF Visit
  <2>2. ObjectsIn[data] = <<>>
    BY <1>2, <1>11, ObjectsByKind
  <2>3. <<>> \o rest = rest
    BY <1>3, ConcatEmptySeq
  <2> QED BY <1>2, <1>3, <1>7, <2>1, <2>2, <2>3
<1> QED BY <1>8, <1>9, <1>10, <1>11

\* The other steps leave the scripts alone.
LEMMA OthersKeepReading ==
    ASSUME Reading, UNCHANGED <<page, docs, walk, found>>,
           stage' = "raised" => stage = "raised" \/ Blamed,
           stage = "raised" => stage' = "raised",
           stage' = "stored" => walk = <<>> /\ docs = <<>>
    PROVE  Reading'
BY DEF Reading, Blamed, Along, PageObjects, Hears, Heard

\* Every step moves along the scripts.
LEMMA NextKeepsReading == Counting /\ Reading /\ [Next]_vars => Reading'
<1> SUFFICES ASSUME Counting, Reading, [Next]_vars PROVE Reading'
  OBVIOUS
<1>1. CASE Decode
  <2>1. page.charset # "known" => Blamed
    BY PageFacts, ExtractionAssumption DEF Counting, Blamed
  <2> QED BY <1>1, <2>1, OthersKeepReading DEF Decode, Goto
<1>2. CASE CountLink
  <2>1. Head(linksLeft).kind = "broken" => Blamed
    <3>1. /\ linksLeft \in Seq(Links) /\ linksLeft # <<>> /\ Len(linksLeft) <= Len(page.links)
          /\ page.links \in Seq(Links)
      BY <1>2, PageFacts DEF Counting, CountLink
    <3>2. linksLeft[1] = page.links[Len(page.links) - Len(linksLeft) + 1]
      BY <3>1 DEF Counting
    <3>3. Len(page.links) - Len(linksLeft) + 1 \in DOMAIN page.links /\ Head(linksLeft) = linksLeft[1]
      BY <3>1
    <3> QED BY <3>2, <3>3 DEF Blamed
  <2>2. /\ UNCHANGED <<page, docs, walk, found>> /\ stage = "links"
        /\ stage' = "raised" => Head(linksLeft).kind = "broken"
        /\ stage' \in {"links", "raised"}
    BY <1>2 DEF CountLink, Goto
  <2> QED BY <2>1, <2>2, OthersKeepReading
<1>3. CASE LinksDone \/ Assemble
  BY <1>3, OthersKeepReading DEF LinksDone, Assemble, Goto
<1>4. CASE UNCHANGED extraction
  BY <1>4, OthersKeepReading DEF extraction, Reading
<1> QED BY <1>1, <1>2, <1>3, <1>4, ReadScriptKeeps, VisitKeeps
        DEF Next, Extract, Classify, Raised, vars

\* Nothing in the JSON-LD of a page is lost, heard twice or heard out of order,
\* however it nests, and no text of a script but one too deep to read ends the
\* page (`extract_structured`, `_walk_jsonld`).
THEOREM StructuredDataIsFound == Spec => []StructuredFound
<1>1. Counting /\ Reading => StructuredFound
  <2> SUFFICES ASSUME Counting, Reading, stage = "stored" PROVE Heard(PageObjects)
    BY DEF StructuredFound, Reading, Blamed
  <2>1. PICK read \in Seq(Objects) : PageObjects = (read \o ObjectsOf(<<>>)) \o ObjectsOf(<<>>) /\ Hears(read)
    BY DEF Reading, Along
  <2>2. (read \o <<>>) \o <<>> = read
    BY ConcatEmptySeq
  <2> QED BY <2>1, <2>2, ObjectsOfParts DEF Hears
<1>2. Counting /\ Reading /\ [Next]_vars => Reading'
  BY NextKeepsReading
<1>3. PageInv => Counting
  BY DEF PageInv
<1> QED BY <1>1, <1>2, <1>3, InitReading, PageInvariance, PTL DEF Spec
=============================================================================
