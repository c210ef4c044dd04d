------------------------------ MODULE MCJudging ------------------------------
(* A small instance of Judging for TLC: every page differs from a plain one in *)
(* its links, in its JSON-LD, in what its flags or in what its language are    *)
(* made of.                                                                    *)
EXTENDS Judging

\* Below, at and above both thresholds, and outside 0..Top on both sides.
MCConfidences == {-1, 1, 2, 3, 5}

Plain == [charset |-> "known", status |-> 200, host |-> <<"www", "site", "com">>,
          domain |-> <<"site", "com">>, saysNotFound |-> FALSE, saysForSale |-> FALSE,
          login |-> FALSE, mainLen |-> 900, bodyLen |-> 1000, scripts |-> 0, appRoot |-> FALSE,
          markers |-> 0, links |-> <<>>, jsonld |-> <<>>, htmlLang |-> None, ogLocale |-> None,
          hreflang |-> <<>>, guess |-> [lang |-> "en", prob |-> 95]]

Link(host) == [kind |-> "page", host |-> host]
SomeLinks ==
    {Link(<<>>), Link(<<"site", "com">>), Link(<<"news", "site", "com">>),
     Link(<<"other", "com">>), [Link(<<>>) EXCEPT !.kind = "anchor"], [Link(<<>>) EXCEPT !.kind = "broken"]}

Object(type, free, publisher) ==
    [kind |-> "object", graph |-> None, types |-> <<type>>, publisher |-> publisher, free |-> free]
Leaves == {Object("Article", "false", "Acme"), Object("Article", "odd", None),
           Object("Product", None, "Emca")}
List(items) == [kind |-> "list", items |-> items]
Pairs == {<<x, y>> : x \in Leaves, y \in Leaves}
Scalar == [kind |-> "scalar"]
Holders == {Object("WebPage", "true", "Web"), Object("WebPage", None, None)}
Graphs(holder, graphs) == {[holder EXCEPT !.graph = graph] : graph \in graphs}
Nested == {List(<<Scalar, List(pair)>>) : pair \in Pairs}
SomeDocs ==
    Unread \cup Leaves
    \cup {List(pair) : pair \in Pairs}
    \cup Graphs(Object("WebPage", "true", "Web"), Leaves)
    \cup Graphs(Object("WebPage", None, None), Nested)

\* The documents and their parts.
MCJson == (SomeDocs \ Unread) \cup Holders \cup Nested \cup {Scalar}

RECURSIVE DepthOf(_)
DepthOf(data) ==
    CASE data.kind = "list" -> 1 + Max({DepthOf(data.items[i]) : i \in DOMAIN data.items})
      [] data.kind = "object" /\ data.graph # None -> 1 + DepthOf(data.graph)
      [] OTHER -> 0

MCDepth == [data \in MCJson |-> DepthOf(data)]

English == [base |-> "en", region |-> "US"]
Italian == [base |-> "it", region |-> None]
SomeCodes == {None, English, Italian}

SomePages ==
    {[Plain EXCEPT !.links = links] : links \in SeqOf(SomeLinks, 2)}
    \cup {[Plain EXCEPT !.jsonld = scripts] : scripts \in SeqOf(SomeDocs, 1)}
    \cup {[Plain EXCEPT !.jsonld = <<doc, obj>>] : doc \in Unread \cup Leaves, obj \in Leaves \cup Unread}
    \cup {[Plain EXCEPT !.status = status, !.saysNotFound = missing, !.saysForSale = sale,
                        !.mainLen = len, !.links = [i \in 1..6 |-> IF i > n THEN Link(<<"other", "com">>) ELSE IF i = 1 THEN Link(<<>>)
                                                    ELSE Link(<<"news", "site", "com">>)]] :
            status \in {200, 203}, missing \in BOOLEAN, sale \in BOOLEAN,
            len \in {0, 499, 500}, n \in {4, 5}}
    \cup {[Plain EXCEPT !.login = TRUE, !.mainLen = len, !.markers = markers, !.bodyLen = 100,
                        !.scripts = scripts, !.appRoot = TRUE] :
            len \in {799, 800}, markers \in {1, 2}, scripts \in {5, 6}}
    \cup {[Plain EXCEPT !.mainLen = len, !.bodyLen = 200, !.htmlLang = html, !.ogLocale = og,
                        !.hreflang = langs] :
            len \in {0, 199, 200}, html \in SomeCodes, og \in SomeCodes,
            langs \in {<<>>, <<Italian>>, <<Italian, English>>}}
    \cup {[Plain EXCEPT !.charset = "unknown"]}
=============================================================================
