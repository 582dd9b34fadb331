-------------------------- MODULE MCExceptionReview --------------------------
(***************************************************************************)
(* Instances of ExceptionReview for TLC.                                   *)
(***************************************************************************)
EXTENDS ExceptionReview, TLC

CONSTANTS e1, e2, e3

\* e3 is below the threshold, and three items are one too many.
Sure == {e1, e2}

\* Decisions on one item, and bulk approvals of one or more: two of e1 and e2
\* may wait for each other; the last two are refused.
MCAsks ==
    [items : {{e1}}, decision : {"approved", "rejected"}, bulk : {FALSE}]
        \cup [items : {{e2}}, decision : {"escalated"}, bulk : {FALSE}]
        \cup [items : {{e1}, {e1, e2}, {e1, e3}, {e1, e2, e3}},
              decision : {"approved"}, bulk : {TRUE}]

Symmetric == Permutations(Requests)
=============================================================================
