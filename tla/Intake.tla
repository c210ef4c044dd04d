-------------------------------- MODULE Intake --------------------------------
(***************************************************************************)
(* From a line of urls.txt to a connection: normalize_url and its helpers   *)
(* (frontier/normalize.py), prefilter (frontier/filters.py), the row that   *)
(* url_norm is the key of, and the guard that a fetch of the row passes.    *)
(*                                                                          *)
(* A line is what urlsplit makes of it.  A path is a sequence of tokens, of *)
(* one character or one percent-triple each; names, values and hosts are    *)
(* atoms with the spellings the code tells apart.                           *)
(***************************************************************************)
EXTENDS Guard, FiniteSets

CONSTANTS
    Raws,           \* the lines
    Tracking,       \* the query keys stripped: DEFAULT_TRACKING_PARAMS and utm_*
    MaxUrlLength,   \* MAX_URL_LENGTH, in tokens of path and query
    MaxLines,       \* bound on the lines read
    Answers         \* what the resolver may answer: sequences of [ip, zone]

Tokens == {"/", ".", "%2E", "%2f", "%2F", " ", "%20", "%", "%25", "x", "pdf"}
NonHtml == {<<".", "pdf">>}

\* A host is spelled as its canonical name, or in capitals or as an IDN that
\* is mapped to it; it may end in the root dot or in an ideographic stop.  An
\* IPv4 address may be written in full-width digits or with one in superscript,
\* both of which isdigit() takes, or in a form only the resolver reads (127.1).
AddressSpellings == {"digits", "superscript", "inet"}
Spellings == {"plain", "upper", "idn"} \cup AddressSpellings
Stops == {"", ".", "ideographic"}
Names == {"site", "other", "ip", "", "["}
Hosts == {host \in [name : Names, spelling : Spellings, stop : Stops] :
            host.spelling \in AddressSpellings => host.name = "ip"}

BadPort == -1      \* not a port number
NoValue == -1      \* "key" without "="
Blank == 0
WithColon == 2             \* a text with a literal ":"
Undecodable == {3, 4}      \* two texts whose octets are no UTF-8, %E8 and %E9
Replacement == 5           \* U+FFFD, which both are decoded to
Texts == {Blank, 1, WithColon, Replacement} \cup Undecodable
EmptyPiece == [key |-> None, value |-> NoValue]    \* the "" of "a=1&&b=2"
Pieces == [key : Nat, value : Texts \cup {NoValue}] \cup {EmptyPiece}

Lines == [scheme : {"", "http", "https", "ftp"}, host : Hosts,
          port : Nat \cup {None, BadPort}, path : Seq(Tokens), query : Seq(Pieces),
          fragment : BOOLEAN]

\* What prefilter may hold against a URL.
Reasons == {"url_too_long", "ip_literal_host", "non_html_extension"}

\* parts.path begins with "/" or is empty, since a host precedes it.  A key that
\* is stripped is one whether it can be decoded or not (utm_%E9).
ASSUME IntakeAssumption ==
    /\ Raws \subseteq Lines
    /\ \A raw \in Raws : raw.path # <<>> => Head(raw.path) = "/"
    /\ Tracking \subseteq Nat \ (Undecodable \cup {Replacement})
    /\ MaxUrlLength \in Nat /\ MaxLines \in Nat
    /\ None \notin Reasons
    /\ \A answer \in Answers : answer \in Seq([ip : Addresses, zone : BOOLEAN])

VARIABLES
    rows,       \* the urls table: key -> "pending" or the skip reason
    listed,     \* the lines that got a row, for the properties
    skipped,    \* stats.skipped of lines that do not normalize
    reading,    \* FALSE once a line has ended the run
    pinned      \* the last row fetched, what the resolver said, what may be pinned

vars == <<rows, listed, skipped, reading, pinned>>

-----------------------------------------------------------------------------
\* "://" before any query or fragment is a scheme; otherwise https is put in
\* front, unless a ":" comes before the first "/".
ColonInHead(raw) ==
    \/ raw.port # None
    \/ raw.path = <<>> /\ \E i \in DOMAIN raw.query :
                            WithColon \in {raw.query[i].key, raw.query[i].value}

Scheme(raw) ==
    IF raw.scheme = "" /\ ~ColonInHead(raw) THEN "https" ELSE raw.scheme

\* _looks_like_ipv4: four labels of digits are left as they are, in full width
\* too, and int() refuses a superscript with a bare ValueError.  The label before
\* an ideographic stop is none of digits.
LooksLikeIpv4(host) ==
    host.spelling \in {"digits", "superscript"} /\ host.stop # "ideographic"
NoInteger(host) == LooksLikeIpv4(host) /\ host.spelling = "superscript"

\* Lower case, and IDN to punycode.
HostSpelling(host) ==
    IF LooksLikeIpv4(host) \/ host.spelling = "inet" THEN host.spelling ELSE "plain"

\* Slip: the trailing root dot stays.
NormalizeHostKeepsDot(host) ==
    [name |-> host.name, spelling |-> HostSpelling(host), stop |-> IF host.stop = "" THEN "" ELSE "."]

\* The host mapped, without its root dot.  The mapping of UTS 46 runs after
\* rstrip("."), and turns an ideographic stop into a root dot that stays.
NormalizeHost(host) ==
    [name |-> host.name, spelling |-> HostSpelling(host),
     stop |-> IF host.stop = "ideographic" THEN "." ELSE ""]

NormalizePort(scheme, port) ==
    IF <<scheme, port>> \in {<<"http", 80>>, <<"https", 443>>} THEN None ELSE port

\* _canonicalize_percent: a triple of an unreserved character is decoded, hex
\* digits go to upper case, what is not safe and a stray "%" are encoded.
CanonicalizePercent(path) ==
    [i \in DOMAIN path |->
        CASE path[i] = "%2E" -> "."
          [] path[i] = "%2f" -> "%2F"
          [] path[i] = " " -> "%20"
          [] path[i] = "%" -> "%25"
          [] OTHER -> path[i]]

\* output.pop() if there is something to pop
Popped(output) == IF output = <<>> THEN <<>> ELSE Front(output)

\* A turn of _remove_dot_segments over its two buffers; the branches for a path
\* that does not begin with "/" are out of reach here.
Turn(input, output) ==
    IF input = <<>> THEN [input |-> input, output |-> output]
    ELSE IF IsPrefix(<<"/", ".", "/">>, input) \/ input = <<"/", ".">>
    THEN [input |-> <<"/">> \o SubSeq(input, 4, Len(input)), output |-> output]
    ELSE IF IsPrefix(<<"/", ".", ".", "/">>, input) \/ input = <<"/", ".", ".">>
    THEN [input |-> <<"/">> \o SubSeq(input, 5, Len(input)), output |-> Popped(output)]
    ELSE LET slash == SelectInSubSeq(input, 2, Len(input), LAMBDA tok : tok = "/")
             cut == IF slash = 0 THEN Len(input) ELSE slash - 1
         IN  [input |-> SubSeq(input, cut + 1, Len(input)),
              output |-> Append(output, SubSeq(input, 1, cut))]

\* Every turn takes a token at least, so that the loop is over after Len(path).
RemoveDotSegments(path) ==
    LET buffers[k \in 0..Len(path)] ==
            IF k = 0 THEN [input |-> path, output |-> <<>>]
            ELSE LET was == buffers[k - 1] IN Turn(was.input, was.output)
    IN  FlattenSeq(buffers[Len(path)].output)

\* Slip: dots are removed before the encoded ones have been decoded.
NormalizePathDotsFirst(path) ==
    LET clean == CanonicalizePercent(RemoveDotSegments(path))
    IN  IF clean = <<"/">> THEN <<>> ELSE clean

NormalizePath(path) ==
    LET clean == RemoveDotSegments(CanonicalizePercent(path))
    IN  IF clean = <<"/">> THEN <<>> ELSE clean

Before(piece, other) ==
    \/ piece.key < other.key
    \/ piece.key = other.key /\ piece.value < other.value

\* parse_qsl decodes keys and values with errors="replace".
Decoded(text) == IF text \in Undecodable THEN Replacement ELSE text
Decode(query) ==
    [i \in DOMAIN query |-> [key |-> Decoded(query[i].key), value |-> Decoded(query[i].value)]]

\* Its pairs with blanks kept, and the tracking keys out.
Kept(query) ==
    LET kept[k \in 0..Len(query)] ==
            IF k = 0 THEN <<>>
            ELSE LET piece == query[k]
                     was == kept[k - 1]
                 IN  IF piece.key \in Tracking \cup {None} THEN was
                     ELSE Append(was, [piece EXCEPT !.value = IF @ = NoValue THEN Blank ELSE @])
    IN  kept[Len(query)]

\* sorted(pairs): a pair stands after those before it, equal ones in their order.
Sorted(pairs) ==
    LET Place(i) == Cardinality({j \in DOMAIN pairs :
                                    \/ Before(pairs[j], pairs[i])
                                    \/ pairs[j] = pairs[i] /\ j <= i})
    IN  [r \in DOMAIN pairs |-> pairs[CHOOSE i \in DOMAIN pairs : Place(i) = r]]

\* Slip: the order of the parameters is kept.
NormalizeQueryUnsorted(query) == Kept(Decode(query))

\* urlencode of the sorted pairs.
NormalizeQuery(query) == Sorted(Kept(Decode(query)))

\* How normalize_url ends: "raises" is a ValueError of urlsplit, int() or .port,
\* "malformed" its own NormalizationError.  Without "//" there is no bracket for
\* urlsplit to object to.
Outcome(raw) ==
    IF Scheme(raw) = "" THEN "malformed"
    ELSE IF raw.host.name = "[" THEN "raises"
    ELSE IF Scheme(raw) \notin {"http", "https"} \/ raw.host.name = "" THEN "malformed"
    ELSE IF NoInteger(raw.host) \/ raw.port = BadPort THEN "raises" ELSE "url"

NormalizeUrl(raw) ==
    [scheme |-> Scheme(raw), host |-> NormalizeHost(raw.host),
     port |-> NormalizePort(Scheme(raw), raw.port), path |-> NormalizePath(raw.path),
     query |-> NormalizeQuery(raw.query), fragment |-> FALSE]

-----------------------------------------------------------------------------
\* path[path.rfind("."):]
Extension(path) ==
    LET dot == SelectLastInSeq(path, LAMBDA tok : tok = ".")
    IN  IF dot = 0 THEN <<>> ELSE SubSeq(path, dot, Len(path))

\* _is_ip_literal: ipaddress takes digits of ASCII and dots between them only.
IsIpLiteral(host) == host.name = "ip" /\ host.spelling = "plain" /\ host.stop = ""

\* prefilter as the pipeline calls it, its gates in their order, without a list
\* of excluded hosts; None lets the URL through.
Prefilter(key) ==
    IF Len(key.path) + Len(key.query) > MaxUrlLength THEN "url_too_long"
    ELSE IF ~AllowPrivate /\ IsIpLiteral(key.host) THEN "ip_literal_host"
    ELSE IF Extension(key.path) \in NonHtml THEN "non_html_extension" ELSE None

-----------------------------------------------------------------------------
Init ==
    /\ rows = <<>> /\ listed = {} /\ skipped = 0
    /\ reading = TRUE
    /\ pinned = None

\* add_url: INSERT OR IGNORE under the key, with what prefilter says.
AddUrl(raw) ==
    LET key == NormalizeUrl(raw)
        reason == Prefilter(key)
    IN  /\ rows' = [k \in DOMAIN rows \cup {key} |->
                      IF k \in DOMAIN rows THEN rows[k]
                      ELSE IF reason = None THEN "pending" ELSE reason]
        /\ listed' = listed \cup {raw}

LinesRead == Cardinality(listed) + skipped
CanRead == reading /\ LinesRead < MaxLines /\ pinned = None

List(raw) ==
    /\ CanRead /\ Outcome(raw) = "url"
    /\ AddUrl(raw)
    /\ UNCHANGED <<skipped, reading, pinned>>

Skip(raw) ==
    /\ CanRead /\ Outcome(raw) = "malformed"
    /\ skipped' = skipped + 1
    /\ UNCHANGED <<rows, listed, reading, pinned>>

EndRun(raw) ==
    /\ CanRead /\ Outcome(raw) = "raises"
    /\ reading' = FALSE
    /\ UNCHANGED <<rows, listed, skipped, pinned>>

\* A url_norm of the output is put into the next input file.
Relist(key) ==
    /\ CanRead /\ Outcome(key) = "url"
    /\ AddUrl(key)
    /\ UNCHANGED <<skipped, reading, pinned>>

\* A fetch of a pending row asks for its host; one listed line is enough.
Resolve(key) ==
    /\ pinned = None /\ LinesRead = 1
    /\ rows[key] = "pending"
    /\ \E answer \in Answers :
          pinned' = [key |-> key, answer |-> answer, ips |-> ResolveAndValidate(key.port, answer)]
    /\ UNCHANGED <<rows, listed, skipped, reading>>

Next ==
    \/ \E raw \in Raws : List(raw) \/ Skip(raw) \/ EndRun(raw)
    \/ \E key \in DOMAIN rows : Relist(key) \/ Resolve(key)

Spec == Init /\ [][Next]_vars

(***************************************************************************)
(* The reference: which page a line names, by RFC 3986 and the HTML form    *)
(* encoding, with no canonical spelling and no buffers                      *)
(***************************************************************************)
\* What a token stands for: "/" divides, all others are octets of data.
Octet(tok) ==
    CASE tok \in {".", "%2E"} -> "dot"
      [] tok \in {"%2f", "%2F"} -> "slash"
      [] tok \in {" ", "%20"} -> "space"
      [] tok \in {"%", "%25"} -> "percent"
      [] OTHER -> tok

Here == <<"dot">>
Up == <<"dot", "dot">>

\* Where a segment leads that ends after those on the stack.
Closed(stack, seg) ==
    IF seg = Here THEN stack ELSE IF seg = Up THEN Popped(stack) ELSE Append(stack, seg)

\* The path read token by token behind its first "/": the segments before the
\* last "/", resolved, and what has been read since.
Reading(path) ==
    LET data == Tail(path)
        read[k \in 0..Len(data)] ==
            IF k = 0 THEN [stack |-> <<>>, seg |-> <<>>]
            ELSE LET was == read[k - 1]
                 IN  IF data[k] = "/" THEN [stack |-> Closed(was.stack, was.seg), seg |-> <<>>]
                     ELSE [stack |-> was.stack, seg |-> Append(was.seg, Octet(data[k]))]
    IN  read[Len(data)]

\* A final dot leaves a slash.
ResolvedPath(path) ==
    IF path = <<>> THEN << <<>> >>
    ELSE LET end == Reading(path)
         IN  IF end.seg \in {Here, Up} THEN Append(Closed(end.stack, end.seg), <<>>)
             ELSE Append(end.stack, end.seg)

\* The parameters that name the page and how often each is there, in any order.
Naming(query) == {i \in DOMAIN query : query[i] # EmptyPiece /\ query[i].key \notin Tracking}
Param(piece) == <<piece.key, IF piece.value = NoValue THEN Blank ELSE piece.value>>
Parameters(query) ==
    [p \in {Param(query[i]) : i \in Naming(query)} |->
        Cardinality({i \in Naming(query) : Param(query[i]) = p})]

Page(raw) ==
    LET scheme == IF raw.scheme = "" THEN "https" ELSE raw.scheme
    IN  [scheme |-> scheme, name |-> raw.host.name,
         port |-> IF raw.port # None THEN raw.port ELSE IF scheme = "http" THEN 80 ELSE 443,
         path |-> ResolvedPath(raw.path), parameters |-> Parameters(raw.query)]

(***************************************************************************)
(* Properties                                                               *)
(***************************************************************************)
\* Three kinds of host are not brought to one spelling: an ideographic stop leaves
\* a root dot, and IPv4 addresses in full-width digits or in the short forms of
\* the resolver are left as they are.  Texts that are no UTF-8 all become U+FFFD.
ClearHost(host) == host.stop # "ideographic" /\ host.spelling \notin {"digits", "inet"}
ClearParameters(parameters) ==
    \A param \in DOMAIN parameters : ToSet(param) \cap (Undecodable \cup {Replacement}) = {}
Clear(raw) == ClearHost(raw.host) /\ ClearParameters(Page(raw).parameters)

\* url_norm is the primary key: however its lines spell them, with dots,
\* escapes, ports, capitals, tracking parameters or orders of their own, a page
\* has exactly one row, no two pages share one, and the key still names the page
\* of the lines it was made from.  Said of the lines without such a host and such
\* a text, and of the rows they get.
OneRowPerPage ==
    LET keys == {key \in DOMAIN rows : Clear(key) /\ key.host.stop = ""}
        pages == {Page(raw) : raw \in {line \in listed : Clear(line)}}
    IN  {Page(key) : key \in keys} = pages /\ Cardinality(keys) = Cardinality(pages)

\* Feeding a url_norm of the output back in finds its row: the normalization of
\* a normal form is that form, so no page is crawled a second time under it.  Only
\* the root dot an ideographic stop has left is taken off the second time.
RelistAddsNothing ==
    [][\A key \in DOMAIN rows : key.host.stop = "" /\ Relist(key) => rows' = rows]_vars

\* The filters see the canonical form: no spelling of an address that is brought
\* to it, and none of a file that is no page, gets a row that is fetched.  What
\* the other spellings of an address lead to is left to the guard.
PendingIsWanted ==
    \A raw \in listed : rows[NormalizeUrl(raw)] = "pending" =>
        /\ AllowPrivate \/ Page(raw).name # "ip" \/ ~ClearHost(raw.host)
        /\ ~IsSuffix(<<"dot", "pdf">>, Last(Page(raw).path))

\* A fetch connects to public addresses only, and to none that carries another
\* one to a place that is not public (the defences 2 to 4 of guard.py).
PinnedIsPublic ==
    pinned # None /\ ~AllowPrivate =>
        \A ip \in ToSet(pinned.ips) : \A target \in Targets(ip) : Public(target)

\* It is not closed further than that: a host with public addresses only, on an
\* allowed port, can be fetched, and the fetch may choose among all of them, each
\* once.
PublicGetsThrough ==
    pinned # None =>
        LET ips == {info.ip : info \in ToSet(pinned.answer)}
        IN  /\ Cardinality(ToSet(pinned.ips)) = Len(pinned.ips)
            /\ /\ \A ip \in ips : Public(ip) /\ ip.form \in Plain \cup {"mapped"}
               /\ pinned.key.port \in {None} \cup AllowedPorts
               => ToSet(pinned.ips) = ips
=============================================================================
