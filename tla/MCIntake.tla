------------------------------- MODULE MCIntake -------------------------------
(* A small instance of Intake for TLC: every line differs from one plain URL  *)
(* in its path, in its query, or in what comes before them.                   *)
EXTENDS Intake, TLC

Base == [scheme |-> "https", host |-> [name |-> "site", spelling |-> "plain", stop |-> ""],
         port |-> None, path |-> <<>>, query |-> <<>>, fragment |-> FALSE]

Joined(segs) == FlattenSeq([i \in DOMAIN segs |-> <<"/">> \o segs[i]])

Dotted == {<<>>, <<".">>, <<".", ".">>, <<"x">>}
Spelled == {<<>>, <<"%2E">>, <<"%2E", ".">>, <<"x", " ">>, <<"x", "%20">>, <<"%2f">>, <<"%2F">>, <<"%", "x">>,
            <<"%25", "x">>, <<"x", ".", "pdf">>, <<"x", "%2E", "pdf">>, <<".", ".", ".">>}

Paths == {<<>>} \cup {Joined(segs) : segs \in BoundedSeq(Dotted, 3)}
         \cup {Joined(segs) : segs \in SeqOf(Dotted \ {<<>>}, 4)}
         \cup {Joined(<<seg>>) : seg \in Spelled} \cup {Joined(<<<<"x">>, seg>>) : seg \in Spelled}

SomePieces == {EmptyPiece} \cup [key : {1}, value : {NoValue, Blank, WithColon}]
              \cup {[key |-> 2, value |-> 1], [key |-> 9, value |-> 1], [key |-> 9, value |-> 3]}
\* Texts that are no UTF-8, and the character they become.
OddPieces == [key : {1}, value : {1, 3, 4, 5}] \cup [key : {3, 5}, value : {1}]

AllLines ==
    {[Base EXCEPT !.path = path] : path \in Paths}
    \cup {[Base EXCEPT !.query = query] : query \in BoundedSeq(SomePieces, 2)}
    \cup {[Base EXCEPT !.scheme = scheme, !.host.name = name, !.port = port] :
            scheme \in {"", "http", "https", "ftp"}, name \in {"site", "", "["},
            port \in {None, 80, 443, 8080, BadPort}}
    \cup {[Base EXCEPT !.query = query] : query \in BoundedSeq(OddPieces, 2)}
    \cup {[Base EXCEPT !.host = host, !.fragment = (host.spelling = "upper")] :
            host \in {h \in Hosts : h.name \in {"site", "other", "ip"}}}
    \cup {[Base EXCEPT !.scheme = "", !.query = query] : query \in BoundedSeq(SomePieces, 1)}

SomeAnswers ==
    BoundedSeq([ip : Addresses, zone : {FALSE}], 1)
    \cup BoundedSeq([ip : [form : {"v4", "mapped"}, kind : {"public", "private", "cgnat"}],
                     zone : {FALSE}], 2)
    \cup {<<[ip |-> [form |-> "v6", kind |-> "public"], zone |-> TRUE],
            [ip |-> [form |-> "v6", kind |-> "public"], zone |-> FALSE]>>}

=============================================================================
