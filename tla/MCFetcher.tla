----------------------------- MODULE MCFetcher -----------------------------
(* Small instances of Fetcher for TLC: three URLs on two hosts. *)
EXTENDS Fetcher, TLC

CONSTANTS t1, t2, h1, h2, x, y, z

MCUrlOf == t1 :> x @@ t2 :> y
MCHostOf == x :> h1 @@ y :> h1 @@ z :> h2
\* y, which t2 wants and others are redirected to, is disallowed.
MCRobots == h1 :> {y} @@ h2 :> {}

Page == [status |-> 200, html |-> TRUE, declared |-> 1, stacked |-> FALSE,
         decoded |-> 1, location |-> None]
To(u) == [Page EXCEPT !.status = 302, !.location = u, !.html = FALSE]

\* One response for each way through _finalize, the limits being 2 and 4.
MCResponses ==
    {Page, To(y), To(z), To(Broken),
     [Page EXCEPT !.status = 404],
     [Page EXCEPT !.status = 429, !.html = FALSE],
     [Page EXCEPT !.status = 503, !.html = FALSE],
     [Page EXCEPT !.html = FALSE],
     [Page EXCEPT !.declared = 3],
     [Page EXCEPT !.declared = None],
     [Page EXCEPT !.stacked = TRUE],
     [Page EXCEPT !.decoded = 5]}
=============================================================================
