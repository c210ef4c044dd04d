------------------------------- MODULE Ladder -------------------------------
(***************************************************************************)
(* The classification ladder (src/sitesift/classify/ladder.py) over the two *)
(* providers of classify/llm: one page with evidence is judged.  The small  *)
(* model is asked first, the large one only if the small one is not sure    *)
(* enough; an answer of Ollama that does not validate is repaired once.     *)
(*                                                                          *)
(* A model's answer is a confidence and whether it named a site type; the   *)
(* text of prompts and answers, the topics and the language are left out.   *)
(* A request is one the client library is asked for: the HTTP retries the   *)
(* Anthropic SDK makes on its own within a request are not seen here.       *)
(***************************************************************************)
EXTENDS Integers

CONSTANTS
    Confidences,    \* site_type_confidence as the models return it
    Top,            \* the confidence that is 1.0
    AcceptSmall,    \* settings.classify.accept_threshold_small
    AcceptLarge,    \* settings.classify.accept_threshold_large
    None

Rungs == {"small", "large"}
Verdicts == [typed : BOOLEAN, confidence : 0..Top]

VARIABLES
    blocking,   \* flags.is_blocking of the page
    provider,   \* "off", "anthropic" or "ollama"
    pc,         \* "start", "ask", "repair", "answered", "failed", "done", "raised"
    rung,       \* the model being asked
    answer,     \* the verdict each rung has returned
    calls,      \* requests to each model
    outcome     \* the ClassifyOutcome

config == <<blocking, provider>>
vars == <<config, pc, rung, answer, calls, outcome>>

\* The bounds of LLMVerdict.site_type_confidence; _clamp keeps what passes them.
Validates(c) == c \in 0..Top

\* _accepts
Accepts(v, threshold) == v.typed /\ v.confidence >= threshold

Threshold(r) == IF r = "small" THEN AcceptSmall ELSE AcceptLarge

Method(r) == IF r = "small" THEN "llm_small" ELSE "llm_large"

Outcome(method, confidence, human) ==
    [method |-> method, confidence |-> confidence, human |-> human]

Finish(o) ==
    /\ pc' = "done" /\ outcome' = o
    /\ UNCHANGED <<config, rung, answer, calls>>

-----------------------------------------------------------------------------
Init ==
    /\ blocking \in BOOLEAN
    /\ provider \in {"off", "anthropic", "ollama"}
    /\ pc = "start" /\ rung = "small"
    /\ answer = [r \in Rungs |-> None]
    /\ calls = [r \in Rungs |-> 0]
    /\ outcome = None

\* _blocked, for a page without content and for mode=off.
Block == pc = "start" /\ blocking /\ Finish(Outcome("blocked", Top, FALSE))

Defer ==
    pc = "start" /\ ~blocking /\ provider = "off" /\ Finish(Outcome("blocked", 0, TRUE))

Start ==
    /\ pc = "start" /\ ~blocking /\ provider # "off"
    /\ pc' = "ask"
    /\ UNCHANGED <<config, rung, answer, calls, outcome>>

Called == calls' = [calls EXCEPT ![rung] = @ + 1]

\* The request is answered with a verdict that validates.
Answer ==
    /\ pc \in {"ask", "repair"}
    /\ Called
    /\ \E c \in Confidences, typed \in BOOLEAN :
          /\ Validates(c)
          /\ answer' = [answer EXCEPT ![rung] = [typed |-> typed, confidence |-> c]]
    /\ pc' = "answered"
    /\ UNCHANGED <<config, rung, outcome>>

\* Slip: a repair that does not validate is repaired again.
MisanswerAgain ==
    /\ provider = "ollama" /\ pc \in {"ask", "repair"}
    /\ Called
    /\ calls[rung] < 3
    /\ pc' = "repair"
    /\ UNCHANGED <<config, rung, answer, outcome>>

\* Ollama's answer does not validate: it is asked once more.
Misanswer ==
    /\ provider = "ollama" /\ pc \in {"ask", "repair"}
    /\ Called
    /\ pc' = IF pc = "ask" THEN "repair" ELSE "failed"
    /\ UNCHANGED <<config, rung, answer, outcome>>

\* The provider is unreachable, throttles, refuses or, with Anthropic, returns no
\* structured output: a ClassifyError.
Refuse ==
    /\ pc \in {"ask", "repair"}
    /\ Called
    /\ pc' = "failed"
    /\ UNCHANGED <<config, rung, answer, outcome>>

\* What is raised is no ClassifyError, so the ladder does not catch it.  Ollama:
\* resp.json() is outside the try, and a 200 answer may be no JSON object.
\* Anthropic: messages.parse() lets the ValidationError of an answer that does not
\* validate through, and only the SDK's own APIError is caught.
Garble ==
    /\ pc \in {"ask", "repair"}
    /\ Called
    /\ pc' = "raised"
    /\ UNCHANGED <<config, rung, answer, outcome>>

\* Slip: the large model is held to the small one's verdict.
AcceptStale ==
    /\ pc = "answered" /\ Accepts(answer[rung], Threshold(rung))
    /\ Finish(Outcome(Method(rung), answer["small"].confidence, FALSE))

Accept ==
    /\ pc = "answered" /\ Accepts(answer[rung], Threshold(rung))
    /\ Finish(Outcome(Method(rung), answer[rung].confidence, FALSE))

\* The small model is not sure enough: same evidence, larger model.
Climb ==
    /\ pc = "answered" /\ rung = "small" /\ ~Accepts(answer[rung], AcceptSmall)
    /\ rung' = "large" /\ pc' = "ask"
    /\ UNCHANGED <<config, answer, calls, outcome>>

\* Neither rung clears its threshold.
Doubt ==
    /\ pc = "answered" /\ rung = "large" /\ ~Accepts(answer[rung], AcceptLarge)
    /\ Finish(Outcome("llm_large", answer[rung].confidence, TRUE))

\* Slip: what the small model said is thrown away when the large one fails.
FallBackToNothing ==
    /\ pc = "failed" /\ rung = "large"
    /\ Finish(Outcome("failed_classify", 0, TRUE))

\* The large model fails: the small one's verdict goes to a human.
FallBack ==
    /\ pc = "failed" /\ rung = "large"
    /\ Finish(Outcome("llm_small", answer["small"].confidence, TRUE))

\* The small model fails: there is nothing to show.
Fail ==
    /\ pc = "failed" /\ rung = "small"
    /\ Finish(Outcome("failed_classify", 0, TRUE))

Done == pc \in {"done", "raised"} /\ UNCHANGED vars

Next ==
    \/ Block \/ Defer \/ Start \/ Answer \/ Misanswer \/ Refuse \/ Garble
    \/ Accept \/ Climb \/ Doubt \/ FallBack \/ Fail \/ Done

Spec == Init /\ [][Next]_vars

(***************************************************************************)
(* Properties                                                               *)
(***************************************************************************)
\* Every variable has a value of its type.
TypeOK ==
    /\ blocking \in BOOLEAN /\ provider \in {"off", "anthropic", "ollama"}
    /\ pc \in {"start", "ask", "repair", "answered", "failed", "done", "raised"}
    /\ rung \in Rungs
    /\ answer \in [Rungs -> Verdicts \cup {None}]
    /\ calls \in [Rungs -> Nat]
    /\ outcome \in {None} \cup
          [method : {"blocked", "llm_small", "llm_large", "failed_classify"},
           confidence : 0..Top, human : BOOLEAN]

\* No request is spent on a page without content or with the model off, and a
\* judged page costs at most two requests per rung.
SpendBounded ==
    /\ blocking \/ provider = "off" => \A r \in Rungs : calls[r] = 0
    /\ \A r \in Rungs : calls[r] <= IF provider = "ollama" THEN 2 ELSE 1

\* A verdict that goes out without a human is a blocked page or a typed answer
\* of the model it is attributed to that cleared that model's own threshold.
SettledIsSure ==
    pc = "done" /\ ~outcome.human =>
        \/ outcome.method = "blocked" /\ blocking
        \/ \E r \in Rungs :
              /\ outcome.method = Method(r)
              /\ answer[r] # None /\ Accepts(answer[r], Threshold(r))
              /\ outcome.confidence = answer[r].confidence

\* What a model answered decides the outcome.  failed_classify, with confidence 0
\* and for a human, means that no model answered; otherwise the last rung that
\* did is named with its own confidence, and a human is asked exactly if it does
\* not clear its own threshold.  A page that ends in an error nobody catches
\* loses no answer that would have settled it: at most the small model's, that it
\* was not sure of.
AnswerKept ==
    /\ pc = "done" /\ ~blocking /\ provider # "off" =>
        \/ /\ answer = [r \in Rungs |-> None]
           /\ outcome = Outcome("failed_classify", 0, TRUE)
        \/ \E r \in Rungs :
              /\ answer[r] # None /\ (r = "small" => answer["large"] = None)
              /\ outcome = Outcome(Method(r), answer[r].confidence,
                                   ~Accepts(answer[r], Threshold(r)))
    /\ pc = "raised" => \A r \in Rungs :
          answer[r] # None => r = "small" /\ ~Accepts(answer[r], AcceptSmall)

\* The outcome is one that Pipeline's Judge expects for such a page.
PipelineOutcome ==
    [method |-> IF outcome.method \in {"llm_small", "llm_large"} THEN "llm"
                ELSE IF outcome.method = "failed_classify" THEN "failed" ELSE "blocked",
     human |-> outcome.human]

Judged ==
    pc = "done" => PipelineOutcome \in
        IF blocking THEN {[method |-> "blocked", human |-> FALSE]}
        ELSE IF provider = "off" THEN {[method |-> "blocked", human |-> TRUE]}
        ELSE [method : {"llm"}, human : BOOLEAN] \cup {[method |-> "failed", human |-> TRUE]}
=============================================================================
