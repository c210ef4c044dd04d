------------------------------ MODULE Extraction ------------------------------
(***************************************************************************)
(* build_evidence (src/sitesift/extract/bundle.py): from the body of a page *)
(* to its evidence and the flags that need no model, with the loops over    *)
(* the links (html.py) and the JSON-LD (structured.py) turn by turn, and    *)
(* the language block as it is detected, stored and rebuilt (language.py).  *)
(*                                                                          *)
(* A page is what the parser libraries find in it: lengths of text, what a  *)
(* pattern matches, a sequence of links, a sequence of JSON-LD scripts.     *)
(* Fields that are copied from the page to the evidence are left out, and   *)
(* so is non_html: the fetcher lets no page through that would get it.      *)
(***************************************************************************)
EXTENDS Integers, FiniteSets, SequencesExt

CONSTANTS
    BodyPages,  \* the pages a fetch can return
    Json,       \* what json.loads can return from their scripts, and every part of it
    Depth,      \* how deep each of these nests
    None

Links == [kind : {"anchor", "broken", "page"}, host : Seq(STRING)]
Codes == [base : {"en", "it"}, region : {"US", "IT", None}]
Guesses == [lang : {"en", "it"}, prob : 1..100]

\* JSON-LD is objects, lists and scalars, an object with a @graph or None.
Objects == [kind : {"object"}, graph : Json \cup {None}, types : Seq(STRING),
            publisher : STRING \cup {None}, free : STRING \cup {None}]
Lists == [kind : {"list"}, items : Seq(Json)]
OwnFields(obj) == [obj EXCEPT !.graph = None]

\* The texts json.loads does not return from, or is not asked to read; "deep" is
\* one nested beyond Python's recursion limit, whether json.loads meets it or,
\* a little earlier or later, _walk_jsonld: the RecursionError ends the page.
Scripts == {"invalid", "deep", "empty"}
Unread == [kind : Scripts]

\* What json.loads returns is finite: a part nests less deep than the whole.
ASSUME JsonAssumption ==
    /\ Depth \in [Json -> Nat]
    /\ \A data \in Json :
        \/ data = [kind |-> "scalar"]
        \/ data \in Lists /\ \A i \in DOMAIN data.items : Depth[data.items[i]] < Depth[data]
        \/ /\ data \in Objects /\ OwnFields(data) \in Json
           /\ data.graph # None => Depth[data.graph] < Depth[data]

\* What the fetcher returned and the parsers see.
PageFields ==
    {"charset", "status", "host", "domain", "saysNotFound", "saysForSale", "login", "mainLen",
     "bodyLen", "scripts", "appRoot", "markers", "links", "jsonld", "htmlLang", "ogLocale",
     "hreflang", "guess"}

\* The domain of a page is the registrable end of its host, or all of it.
ASSUME ExtractionAssumption ==
    /\ None \notin {"en", "it"}
    /\ \A p \in BodyPages :
        /\ DOMAIN p = PageFields
        /\ {p.host, p.domain} \subseteq Seq(STRING) /\ IsSuffix(p.domain, p.host)
        /\ p.charset \in {"known", "unknown"}
        /\ {p.mainLen, p.bodyLen, p.scripts, p.markers, p.status} \subseteq Nat
        /\ {p.saysNotFound, p.saysForSale} \subseteq BOOLEAN
        /\ p.links \in Seq(Links) /\ p.jsonld \in Seq(Json \cup Unread)
        /\ p.htmlLang \in Codes \cup {None} /\ p.ogLocale \in Codes \cup {None}
        /\ p.hreflang \in Seq(Codes) /\ p.guess \in Guesses

VARIABLES
    page,       \* the page being extracted
    stage,      \* "decode", "links", "jsonld", "stored", "raised"
    linksLeft,  \* the links not counted yet
    counts,     \* n_links_internal and n_links_external
    docs,       \* the JSON-LD scripts not read yet
    walk,       \* the JSON-LD data still to visit, the next one first
    found,      \* StructuredData
    evidence,   \* what save_evidence stores
    flags       \* the deterministic flags stored with it

extraction == <<page, stage, linksLeft, counts, docs, walk, found, evidence, flags>>

NoFlags == [soft404 |-> FALSE, parked |-> FALSE, login |-> FALSE, paywall |-> FALSE, js |-> FALSE]
Blocking(f) == f.soft404 \/ f.parked

ExtractionInit ==
    /\ page \in BodyPages
    /\ stage = "decode"
    /\ linksLeft = page.links
    /\ counts = [internal |-> 0, external |-> 0]
    /\ docs = page.jsonld /\ walk = <<>>
    /\ found = [types |-> <<>>, publisher |-> None, free |-> None]
    /\ evidence = None /\ flags = NoFlags

Goto(s) == stage' = s

\* bytes.decode: a charset of the header that Python does not know raises.
Decode ==
    /\ stage = "decode"
    /\ Goto(IF page.charset = "known" THEN "links" ELSE "raised")
    /\ UNCHANGED <<page, linksLeft, counts, docs, walk, found, evidence, flags>>

-----------------------------------------------------------------------------
\* Slip: only the very host of the page counts as internal.
InternalHostOnly(host) == host = <<>> \/ host = page.host

\* No host, that of the page or its domain, or one that ends in "." + domain.
Internal(host) == host = <<>> \/ host \in {page.host, page.domain} \/ IsStrictSuffix(page.domain, host)

\* One turn of _count_links: fragments, mailto: and the like are passed over;
\* an href that urljoin cannot read raises.
CountLink ==
    /\ stage = "links" /\ linksLeft # <<>>
    /\ LET link == Head(linksLeft)
           inside == Internal(link.host)
       IN  CASE link.kind = "broken" -> Goto("raised") /\ UNCHANGED counts
             [] link.kind = "anchor" -> UNCHANGED <<stage, counts>>
             [] link.kind = "page" /\ inside ->
                   counts' = [counts EXCEPT !.internal = @ + 1] /\ UNCHANGED stage
             [] OTHER -> counts' = [counts EXCEPT !.external = @ + 1] /\ UNCHANGED stage
    /\ linksLeft' = Tail(linksLeft)
    /\ UNCHANGED <<page, docs, walk, found, evidence, flags>>

LinksDone ==
    /\ stage = "links" /\ linksLeft = <<>>
    /\ Goto("jsonld")
    /\ UNCHANGED <<page, linksLeft, counts, docs, walk, found, evidence, flags>>

-----------------------------------------------------------------------------
\* The next script: an empty one is passed over, ValueError and TypeError are
\* caught, the RecursionError of a deeply nested one is not.  Where the walk raises
\* it, what it had found by then ends with the page.
ReadScript ==
    /\ stage = "jsonld" /\ walk = <<>> /\ docs # <<>>
    /\ docs' = Tail(docs)
    /\ IF Head(docs).kind \in Scripts
       THEN Goto(IF Head(docs).kind = "deep" THEN "raised" ELSE stage) /\ UNCHANGED walk
       ELSE walk' = <<Head(docs)>> /\ UNCHANGED stage
    /\ UNCHANGED <<page, linksLeft, counts, found, evidence, flags>>

\* _as_bool
AsBool(free) == IF free \in {"true", "false"} THEN free ELSE None

\* Each type name that is not there yet is appended.
AddTypes(types, more) ==
    LET after[k \in 0..Len(more)] ==
            IF k = 0 THEN types
            ELSE IF Contains(after[k - 1], more[k]) THEN after[k - 1]
            ELSE Append(after[k - 1], more[k])
    IN  after[Len(more)]

\* The fields of one object: what was found first stays.
Note(obj) ==
    [types |-> AddTypes(found.types, obj.types),
     publisher |-> IF found.publisher = None THEN obj.publisher ELSE found.publisher,
     free |-> IF found.free = None THEN AsBool(obj.free) ELSE found.free]

\* Slip: an object with a @graph is only its container.
VisitGraphOnly ==
    /\ stage = "jsonld" /\ walk # <<>>
    /\ LET data == Head(walk)
       IN  CASE data.kind = "list" -> walk' = data.items \o Tail(walk) /\ UNCHANGED found
             [] data.kind = "object" /\ data.graph # None ->
                   walk' = <<data.graph>> \o Tail(walk) /\ UNCHANGED found
             [] data.kind = "object" /\ data.graph = None ->
                   found' = Note(data) /\ walk' = Tail(walk)
             [] OTHER -> walk' = Tail(walk) /\ UNCHANGED found
    /\ UNCHANGED <<page, stage, linksLeft, counts, docs, evidence, flags>>

\* One call of _walk_jsonld: the items of a list, the @graph of an object and
\* then the object itself; other values inside an object are not entered.
Visit ==
    /\ stage = "jsonld" /\ walk # <<>>
    /\ LET data == Head(walk)
       IN  CASE data.kind = "list" -> walk' = data.items \o Tail(walk) /\ UNCHANGED found
             [] data.kind = "object" /\ data.graph # None ->
                   /\ walk' = <<data.graph, OwnFields(data)>> \o Tail(walk)
                   /\ UNCHANGED found
             [] data.kind = "object" /\ data.graph = None ->
                   found' = Note(data) /\ walk' = Tail(walk)
             [] OTHER -> walk' = Tail(walk) /\ UNCHANGED found
    /\ UNCHANGED <<page, stage, linksLeft, counts, docs, evidence, flags>>

-----------------------------------------------------------------------------
\* Language.  Confidences are in hundredths.
MinText == 200
Base(code) == IF code = None THEN None ELSE code.base
Smaller(x, y) == IF x < y THEN x ELSE y

Multilingual(hreflang) == Cardinality({code.base : code \in ToSet(hreflang)}) > 1

\* The region of the first of og:locale and the hreflangs that has one.
Region(ogLocale, hreflang) ==
    FoldLeft(LAMBDA region, code : IF region = None /\ code # None THEN code.region ELSE region,
             None, <<ogLocale>> \o hreflang)

\* detect_language, on the main text or else the whole body.
DetectLanguage(p) ==
    LET html == Base(p.htmlLang)
        short == (IF p.mainLen > 0 THEN p.mainLen ELSE p.bodyLen) < MinText
        agrees == IF html = None THEN None ELSE IF p.guess.lang = html THEN "yes" ELSE "no"
    IN  [value |-> IF short THEN html ELSE p.guess.lang,
         confidence |-> IF short THEN (IF html = None THEN 0 ELSE 40)
                        ELSE Smaller(99, p.guess.prob + IF agrees = "yes" THEN 10 ELSE 0),
         method |-> IF ~short THEN "detected" ELSE IF html = None THEN "unknown" ELSE "html_lang",
         agreement |-> IF short THEN None ELSE agrees,
         multilingual |-> Multilingual(p.hreflang),
         region |-> Region(p.ogLocale, p.hreflang)]

\* Slip: the declared language is not kept beside the detected one.
LanguageFromEvidenceValueOnly(ev) ==
    [value |-> ev.lang, confidence |-> ev.langConf, agreement |-> None,
     method |-> IF ev.lang = None THEN "unknown" ELSE "detected",
     multilingual |-> Multilingual(ev.hreflang), region |-> Region(ev.ogLocale, ev.hreflang)]

\* language_from_evidence
LanguageFromEvidence(ev) ==
    LET html == Base(ev.htmlLang)
        detected == ev.lang # None /\ ev.langConf > 0
    IN  [value |-> ev.lang,
         confidence |-> ev.langConf,
         method |-> IF detected THEN "detected" ELSE IF ev.lang # None THEN "html_lang" ELSE "unknown",
         agreement |-> IF ~detected \/ html = None THEN None
                       ELSE IF ev.lang = html THEN "yes" ELSE "no",
         multilingual |-> Multilingual(ev.hreflang),
         region |-> Region(ev.ogLocale, ev.hreflang)]

\* deterministic_flags
DeterministicFlags(ev) ==
    [soft404 |-> ev.status = 200 /\ ev.saysNotFound,
     parked |-> ev.textLen < 500 /\ ev.internal < 5 /\ ev.saysForSale,
     login |-> ev.login /\ ev.textLen < 800,
     paywall |-> found.free = "false" \/ ev.markers >= 2,
     js |-> ev.jsOnly]

\* The Evidence is put together, the flags are derived from it, and
\* save_evidence stores both.
Assemble ==
    /\ stage = "jsonld" /\ walk = <<>> /\ docs = <<>>
    /\ LET language == DetectLanguage(page)
           ev == [status |-> page.status, saysNotFound |-> page.saysNotFound,
                  saysForSale |-> page.mainLen > 0 /\ page.saysForSale,
                  login |-> page.login, textLen |-> page.mainLen, internal |-> counts.internal,
                  markers |-> page.markers,
                  jsOnly |-> page.bodyLen < 200 /\ page.scripts > 5 /\ page.appRoot,
                  lang |-> language.value, langConf |-> language.confidence,
                  htmlLang |-> page.htmlLang, ogLocale |-> page.ogLocale,
                  hreflang |-> page.hreflang]
       IN  evidence' = ev /\ flags' = DeterministicFlags(ev)
    /\ Goto("stored")
    /\ UNCHANGED <<page, linksLeft, counts, docs, walk, found>>

Extract == Decode \/ CountLink \/ LinksDone \/ ReadScript \/ Visit \/ Assemble
=============================================================================
