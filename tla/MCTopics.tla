------------------------------ MODULE MCTopics ------------------------------
(* Small instances of Topics for TLC. *)
EXTENDS Topics

CONSTANTS a, b, c, x    \* x is an id no file defines

Entry(n, t, p) == [id |-> n, tier |-> t, parent |-> p]
Tiers == 1..3
Parents == {a, b, c, x, None}

\* Every way to give three nodes a tier and a parent, and a repeated id.
MCFiles ==
    {<<Entry(a, ta, pa), Entry(b, tb, pb), Entry(c, tc, pc)>> :
        ta, tb, tc \in Tiers, pa, pb, pc \in Parents}
    \cup {<<Entry(a, 1, None), Entry(b, 2, a), Entry(a, t, p)>> : t \in Tiers, p \in Parents}

MCTopicPaths == [tier1 : {a, b, x}, tier2 : Parents]
MCAnswers == {<<>>} \cup {<<s, t>> : s, t \in MCTopicPaths}
=============================================================================
