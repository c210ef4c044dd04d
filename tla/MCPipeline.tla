----------------------------- MODULE MCPipeline -----------------------------
(* Small instances of Pipeline for TLC. *)
EXTENDS Pipeline, TLC

CONSTANTS a, b, c, p, q   \* URLs and page contents

Url(u) == [kind |-> "url", url |-> u]
Bad(kind) == [kind |-> kind, url |-> a]

\* One URL twice, one line that does not normalize, and two files that end the
\* run: a line on which normalize_url raises, a line parse_input rejects.
MixedInputs == { <<Url(a), Bad("malformed"), Url(b), Url(a)>>,
                 <<Url(b), Bad("raises"), Url(a)>>,
                 <<Url(a), Bad("badscope")>> }

OneUrl == { <<Url(a)>> }
TwoUrls == { <<Url(a), Url(b)>> }
ThreeUrls == { <<Url(a), Url(b), Url(c)>> }
BrokenLine == { <<Bad("raises"), Url(a)>> }

=============================================================================
