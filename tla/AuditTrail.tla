----------------------------- MODULE AuditTrail -----------------------------
(***************************************************************************)
(* What the audit log promises a reader: each run has a trail of entries   *)
(* that only ever grows at its end, one run in a transaction.              *)
(***************************************************************************)
EXTENDS SequencesExt

CONSTANTS Runs, Bodies

VARIABLE trail  \* run -> the entries recorded for it, oldest first

Init == trail = [r \in Runs |-> <<>>]

\* A transaction on run r commits its entries.
Record(r) ==
    /\ trail' \in [Runs -> Seq(Bodies)]
    /\ IsStrictPrefix(trail[r], trail'[r])
    /\ \A q \in Runs \ {r} : trail'[q] = trail[q]

Next == \E r \in Runs : Record(r)

Spec == Init /\ [][Next]_trail

=============================================================================
