------------------------------ MODULE Reconcile ------------------------------
(***************************************************************************)
(* What a run does with its records once they are loaded: the cascade, fee *)
(* verification (T4), the exception classifier, the transaction that       *)
(* stores the result under the integrity triggers of C5, and the metrics.  *)
(* Cascade.tla supplies the matching steps; one action here is one state   *)
(* of the orchestrator.  LLM calls and cancels are in RunLifecycle.tla.    *)
(*                                                                         *)
(* The sets of entities are constants, so a case says which of them its    *)
(* batch has; one it has not bears no key and lies near nothing in time.   *)
(***************************************************************************)
EXTENDS Cascade, Fees

CONSTANTS
    Cases,      \* batches with the facts that the cascade does not read
    Tolerance   \* DEFAULT_AMOUNT_MISMATCH_TOLERANCE, 1 paisa

LineKinds == {"payment", "refund", "chargeback", "adjustment", "reversal"}

\* Mutant: the line type is taken for the category.
Mut_StrayCategory(kind) == kind

\* _STRAY_LINE_TYPE_CATEGORY
StrayCategory(kind) ==
    CASE kind = "refund" -> "netted_refund_unlinked"
      [] kind = "chargeback" -> "chargeback_debit_unlinked"
      [] kind \in {"adjustment", "reversal"} -> "unknown_adjustment"

Categories ==
    {"missing_in_bank", "missing_in_gateway", "orphan_bank_credit", "amount_mismatch",
     "fee_variance", "duplicate_utr", "partial_settlement", "period_boundary_timing",
     "netted_refund_unlinked", "chargeback_debit_unlinked", "unknown_adjustment",
     "ambiguous_multi_candidate"}

\* Further columns of the three tables, the run's period, and what the author
\* of a synthetic batch knows of it: the true links, the defects put in.
FactsType ==
    [present    : SUBSET Entities,
     kind       : [Lines -> LineKinds],
     payId      : [Lines -> PayIds \cup {NoKey}],
     fee        : [Lines -> Int],
     tax        : [Lines -> Int],
     instrument : [Lines -> Instruments \cup {NoInstrument}],
     start      : Nat,
     end        : Nat,
     authored   : BOOLEAN,
     manifest   : SUBSET (Categories \X Entities),
     truth      : SUBSET (SUBSET Entities)]

\* A line of another type than payment has no key for T1, and the table checks
\* net = gross - fee - tax.
ASSUME CaseAssumption ==
    \A c \in Cases :
        /\ DOMAIN c = {"batch", "facts"} /\ c.batch \in Batches /\ c.facts \in FactsType
        /\ \A l \in Lines :
            /\ c.batch.linePid[l] =
                  IF c.facts.kind[l] = "payment" THEN c.facts.payId[l] ELSE NoKey
            /\ c.batch.net[l] = c.batch.gross[l] - c.facts.fee[l] - c.facts.tax[l]
        /\ \A e \in Entities \ c.facts.present :
            /\ e \in Orders => c.batch.orderPid[e] = NoKey
            /\ e \in Lines => c.facts.payId[e] = NoKey /\ c.batch.lineUtr[e] = NoKey
            /\ e \in Banks => c.batch.bankUtr[e] = NoKey
            /\ \A l \in Lines, b \in Banks : e \in {l, b} =>
                  ~ (c.batch.settledOn[l] \in (c.batch.valueDate[b] - WindowDays)..c.batch.valueDate[b])
ASSUME ToleranceAssumption == Tolerance \in Nat

VARIABLES
    facts,      \* the rest of the case
    stage,      \* the orchestrator's state; FAILED when an exception left it
    fees,       \* the fee verdict on each line
    items,      \* the exceptions: pairs of a category and an entity
    rows,       \* match_member: allocated_amount of a group and an entity
    metrics     \* recon_run.metrics

pipeline == <<facts, stage, fees, items, rows, metrics>>

NoMetrics == [lines |-> {}, orders |-> {}, banks |-> {}, baseline |-> {}, atRisk |-> 0]
NotVerified == [delta |-> 0, within |-> TRUE]
NoRows == [r \in {} |-> 0]

Present(S) == S \cap facts.present
Payments == {l \in Present(Lines) : facts.kind[l] = "payment"}

----------------------------------------------------------------------------
\* The classifier's view of the cascade's result

\* The order of t3.groups: the survivors, then the new ones as T3 made them.
ListedFirst(g, h) ==
    IF g[1] = "T3" /\ h[1] = "T3"
    THEN \/ batch.valueDate[g[2]] < batch.valueDate[h[2]]
         \/ batch.valueDate[g[2]] = batch.valueDate[h[2]] /\ g[2] < h[2]
    ELSE g[1] # "T3" /\ (h[1] = "T3" \/ ListedBefore(g, h))

\* line_to_group_idx: a group listed later overwrites an earlier one.
GroupOf(l) ==
    {g \in Holders(l) : \A h \in Holders(l) \ {g} : ListedFirst(h, g)}

Grouped(S) == {e \in Present(S) : Holders(e) # {}}

\* Mutant: any order in the group will do.
Mut_AnyOrder(l) == \E g \in GroupOf(l) : members[g] \cap Orders # {}

\* has_own_order_tie
OwnOrderTie(l) ==
    /\ facts.payId[l] # NoKey
    /\ \E g \in GroupOf(l) :
        \E o \in members[g] \cap Orders : batch.orderPid[o] = facts.payId[l]

BankTie(l) == \E g \in GroupOf(l) : BanksIn(g) # {}

AmbiguousUtr(u) == <<"utr", u>> \in refused

\* Part 1, _classify_settlement_line: a payment line that is in the period and
\* lacks its order or a bank is classified by what it lacks.
Late(l) == batch.settledOn[l] > facts.end
Unresolved == {l \in Payments : ~ Late(l) /\ ~ (OwnOrderTie(l) /\ BankTie(l))}
WithOrder == {l \in Unresolved : OwnOrderTie(l)}

LineItems ==
    {<<StrayCategory(facts.kind[l]), l>> : l \in Present(Lines) \ Payments}
      \cup {<<"period_boundary_timing", l>> : l \in {k \in Payments : Late(k)}}
      \cup {<<"ambiguous_multi_candidate", l>> : l \in Unresolved \ WithOrder}
      \cup {<<IF AmbiguousUtr(batch.lineUtr[l]) THEN "duplicate_utr" ELSE "missing_in_bank", l>> :
               l \in WithOrder}

\* Part 2, _classify_unmatched_bank_txn, and part 3: what no group holds.
BankItems ==
    {<<IF AmbiguousUtr(batch.bankUtr[b]) THEN "duplicate_utr" ELSE "orphan_bank_credit", b>> :
        b \in Present(Banks) \ Grouped(Banks)}

OrderItems == {<<"missing_in_gateway", o>> : o \in Present(Orders) \ Grouped(Orders)}

\* Part 4: the fee verdicts out of tolerance.
FeeItems == {<<"fee_variance", l>> : l \in {k \in Payments : ~ fees[k].within}}

\* Part 5: an order and the lines of its own payment id within one group.
OwnLines(o, g) ==
    {l \in LinesIn(g) : batch.orderPid[o] # NoKey /\ facts.payId[l] = batch.orderPid[o]}

\* Mutant: only a group of one order is looked at.
Mut_SingleOrder ==
    {t \in Orders \X live : members[t[2]] \cap Orders = {t[1]} /\ OwnLines(t[1], t[2]) # {}}

Ties == {t \in Orders \X live : t[1] \in members[t[2]] /\ OwnLines(t[1], t[2]) # {}}

\* Mutant: the order is compared with what T2 has allocated, the nets.
Mut_GrossGap(o, g) == Magnitude(batch.gross[o] - SumOfNets(OwnLines(o, g)))

GrossGap(o, g) ==
    Magnitude(batch.gross[o] - SumFunction([l \in OwnLines(o, g) |-> batch.gross[l]]))

TieItems ==
    {<<"amount_mismatch", Min(OwnLines(t[1], t[2]))>> :
        t \in {u \in Ties : GrossGap(u[1], u[2]) > Tolerance}}
      \cup UNION {{<<"partial_settlement", l>> : l \in OwnLines(t[1], t[2])} :
                     t \in {u \in Ties : Cardinality(OwnLines(u[1], u[2])) > 1}}

----------------------------------------------------------------------------
\* The naive baseline: one order to one line, one line to one credit

BaselinePaired ==
    {l \in Lines : \E p \in PayIds, o \in Orders :
        CandidateOrders(p) = {o} /\ PaymentLines(p) = {l}}

\* Mutant: the UTR alone decides.
Mut_BaselineCredits(l, b) ==
    batch.lineUtr[l] # NoKey /\ BanksOfUtr(batch.lineUtr[l]) = {b}

BaselineCredits(l, b) ==
    /\ batch.lineUtr[l] # NoKey /\ BanksOfUtr(batch.lineUtr[l]) = {b}
    /\ batch.credit[b] = batch.net[l]

BaselineLines == BaselinePaired \cup {l \in Lines : \E b \in Banks : BaselineCredits(l, b)}

----------------------------------------------------------------------------
ReconcileInit ==
    \E c \in Cases :
        /\ batch = c.batch /\ facts = c.facts
        /\ Init
        /\ stage = "MATCH"
        /\ fees = [l \in Lines |-> NotVerified]
        /\ items = {} /\ rows = NoRows /\ metrics = NoMetrics

Match ==
    /\ stage = "MATCH" /\ tier # "done"
    /\ Next
    /\ UNCHANGED pipeline

VerifyFees ==
    /\ stage = "MATCH" /\ tier = "done"
    /\ fees' = [l \in Lines |->
                  IF l \notin Payments THEN NotVerified
                  ELSE Verdict(default_rate_card(facts.start), facts.instrument[l],
                               batch.gross[l], facts.fee[l], facts.tax[l],
                               batch.settledOn[l])]
    /\ stage' = "CLASSIFY_EXCEPTIONS"
    /\ UNCHANGED <<vars, facts, items, rows, metrics>>

Classify ==
    /\ stage = "CLASSIFY_EXCEPTIONS"
    /\ items' = LineItems \cup BankItems \cup OrderItems \cup FeeItems \cup TieItems
    /\ stage' = "PERSIST"
    /\ UNCHANGED <<vars, facts, fees, rows, metrics>>

\* The inserts of PERSIST: the groups with their members, the fee verdicts and
\* the exceptions as they are.  uniq_active_member refuses the second row
\* of an entity, for every group is pending review, which counts as active.
PersistGroups ==
    /\ stage = "PERSIST"
    /\ NoSharedMember
    /\ rows' = [r \in UNION {{g} \X members[g] : g \in live} |-> amount[r[1]][r[2]]]
    /\ stage' = "COMMIT"
    /\ UNCHANGED <<vars, facts, fees, items, metrics>>

PersistRefused ==
    /\ stage = "PERSIST"
    /\ ~ NoSharedMember
    /\ stage' = "FAILED"
    /\ UNCHANGED <<vars, facts, fees, items, rows, metrics>>

\* assert_allocation_balances, deferred to the commit, of every group a row is
\* of: a group without a bank passes.
Inserted(g, S) == {e \in S : <<g, e>> \in DOMAIN rows}
Allocation(g, S) == SumFunction([e \in Inserted(g, S) |-> rows[<<g, e>>]])
Balanced(g) == Inserted(g, Banks) # {} => Allocation(g, Lines) = Allocation(g, Banks)

Commit ==
    /\ stage = "COMMIT"
    /\ \A r \in DOMAIN rows : Balanced(r[1])
    /\ stage' = "METRICS"
    /\ UNCHANGED <<vars, facts, fees, items, rows, metrics>>

\* The commit fails and everything PERSIST has inserted is rolled back.
CommitRefused ==
    /\ stage = "COMMIT"
    /\ \E r \in DOMAIN rows : ~ Balanced(r[1])
    /\ stage' = "FAILED" /\ rows' = NoRows
    /\ UNCHANGED <<vars, facts, fees, items, metrics>>

\* _compute_metrics, counts taken as the sets that are counted; the amount at
\* risk is the sum of signed differences.
Measure ==
    /\ stage = "METRICS"
    /\ metrics' = [lines |-> Grouped(Lines), orders |-> Grouped(Orders),
                   banks |-> Grouped(Banks), baseline |-> BaselineLines,
                   atRisk |-> SumFunction([l \in {k \in Lines : ~ fees[k].within} |->
                                              fees[l].delta])]
    /\ stage' = "AWAIT_REVIEW"
    /\ UNCHANGED <<vars, facts, fees, items, rows>>

Finished == stage \in {"AWAIT_REVIEW", "FAILED"} /\ UNCHANGED <<vars, pipeline>>

ReconcileNext ==
    \/ Match
    \/ VerifyFees \/ Classify
    \/ PersistGroups \/ PersistRefused \/ Commit \/ CommitRefused
    \/ Measure
    \/ Finished

ReconcileSpec == ReconcileInit /\ [][ReconcileNext]_<<vars, pipeline>>

----------------------------------------------------------------------------
(* Properties.                                                             *)

Done == stage = "AWAIT_REVIEW"
Raised(e) == {i \in items : i[2] = e}

\* Every variable has its type.
ReconcileTypeOK ==
    /\ TypeOK
    /\ facts \in FactsType
    /\ stage \in {"MATCH", "CLASSIFY_EXCEPTIONS", "PERSIST", "COMMIT", "METRICS",
                  "AWAIT_REVIEW", "FAILED"}
    /\ fees \in [Lines -> [delta : Int, within : BOOLEAN]]
    /\ items \subseteq Categories \X Entities
    /\ DOMAIN rows \subseteq Groups \X Entities /\ rows \in [DOMAIN rows -> Int]
    /\ DOMAIN metrics = DOMAIN NoMetrics

\* The database refuses no run unless a payment is divided: the cascade's
\* groups satisfy uniq_active_member and trg_allocation_balances, so PERSIST
\* does not end the run (one unsound group would take all others with it).
WholeIsCommitted == Undivided => stage # "FAILED"

\* The lines that add up to the bank credit b, and l among them.
Covered(l, b) == l \in tie[b] /\ SumOfNets(tie[b]) = batch.credit[b]

\* What a run that ends raises no exception about is reconciled: a line is a
\* payment of the period at the right fee, beside its own order at the order's
\* gross and beside a bank credit that counts this line among the lines that
\* add up to it; a credit has such lines; an order stands beside the lines of
\* its payment.
Reconciled ==
    /\ \A l \in Present(Lines) : Raised(l) = {} =>
        /\ facts.kind[l] = "payment" /\ batch.settledOn[l] <= facts.end
        /\ fees[l].within
        /\ \E g \in live :
            /\ l \in members[g]
            /\ \E o \in members[g] \cap CandidateOrders(facts.payId[l]) :
                  Magnitude(batch.gross[o] - batch.gross[l]) <= Tolerance
            /\ \E b \in BanksIn(g) : Covered(l, b)
    /\ \A b \in Present(Banks) : Raised(b) = {} => tie[b] # {} /\ \A l \in tie[b] : Covered(l, b)
    /\ \A o \in Present(Orders) : Raised(o) = {} =>
        \E g \in live :
            /\ o \in members[g]
            /\ PaymentLines(batch.orderPid[o]) # {}
            /\ PaymentLines(batch.orderPid[o]) \subseteq members[g]

\* So it is with every run that ends.
CleanIsReconciled == Done => Reconciled

\* Unless a payment is divided the baseline that the headline compares with
\* never finds a line that the cascade leaves out, except where several lines
\* share a UTR: there it may take one of them for the whole of a credit.
BaselineIsNoBetter ==
    Done /\ Undivided =>
        \A l \in metrics.baseline \ metrics.lines :
            batch.lineUtr[l] # NoKey /\ LinesOfUtr(batch.lineUtr[l]) # {l}

=============================================================================
