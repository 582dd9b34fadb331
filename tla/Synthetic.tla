------------------------------ MODULE Synthetic ------------------------------
(***************************************************************************)
(* The synthetic batches on which the project rests its accuracy claims,   *)
(* and how its evaluation scores the pipeline against them: one of twelve  *)
(* defects may be put into the records of an order, the lines of a day are *)
(* paid by one bank credit, and the author keeps a list of the defects and *)
(* of the true links.                                                      *)
(*                                                                         *)
(* A plan holds what generate() draws for each order: the defect, the      *)
(* gross, the settlement day, and one more number that the defect needs.   *)
(***************************************************************************)
EXTENDS Reconcile

CONSTANTS
    IncidentSpan,   \* settlement days per duplicate_utr incident, 8 in the code
    MaxIncidents,   \* DUPLICATE_UTR_MAX_INCIDENTS
    Plans           \* what generate() may draw, see Drawn

\* No two days next to each other bear a wrong UTR.
ASSUME IncidentAssumption == IncidentSpan \in Nat \ {0, 1} /\ MaxIncidents \in Nat \ {0}

\* Ids: order o has the lines 10 o and, for a second part or a stray line,
\* 10 o + 1; the credit of day d is 100 + d; the orphan credits are 200, 201...
Owner(l) == l \div 10
IsSecond(l) == l % 10 = 1
DayCredit(d) == 100 + d
OrphanCredit(k) == 200 + k

StrayKind(defect) ==
    CASE defect = "netted_refund_unlinked" -> "refund"
      [] defect = "chargeback_debit_unlinked" -> "chargeback"
      [] defect = "unknown_adjustment" -> "adjustment"

StrayDefects == {"netted_refund_unlinked", "chargeback_debit_unlinked", "unknown_adjustment"}
Unpaid == {"missing_in_bank", "period_boundary_timing"}

----------------------------------------------------------------------------
\* The settlement lines of a plan

DefectOf(p, l) == p.defect[Owner(l)]
IsStray(p, l) == IsSecond(l) /\ DefectOf(p, l) \in StrayDefects

PlannedLines(p) ==
    {l \in Lines :
        IF IsSecond(l) THEN DefectOf(p, l) \in StrayDefects \cup {"partial_settlement"}
        ELSE DefectOf(p, l) # "missing_in_gateway"}

LineGross(p, l) ==
    LET gross == p.gross[Owner(l)]
        extra == p.extra[Owner(l)]
        first == RoundHalfUp(6 * gross, 10)
    IN CASE IsStray(p, l) -> IF DefectOf(p, l) = "unknown_adjustment" THEN extra ELSE -extra
         [] DefectOf(p, l) = "partial_settlement" -> IF IsSecond(l) THEN gross - first ELSE first
         [] DefectOf(p, l) = "amount_mismatch" -> gross + extra
         [] OTHER -> gross

\* _compute_fee_tax
HonestFee(gross) == RoundHalfUp(2 * gross, 100)
HonestTax(gross) == RoundHalfUp(18 * HonestFee(gross), 100)

SkewedFee(gross, bps) == RoundHalfUp(10000 * HonestFee(gross) + gross * bps, 10000)

LineFee(p, l) ==
    CASE IsStray(p, l) -> 0
      [] DefectOf(p, l) = "fee_variance" -> SkewedFee(LineGross(p, l), p.extra[Owner(l)])
      [] OTHER -> HonestFee(LineGross(p, l))

LineTax(p, l) == IF IsStray(p, l) THEN 0 ELSE HonestTax(LineGross(p, l))
LineNet(p, l) == LineGross(p, l) - LineFee(p, l) - LineTax(p, l)

LineDay(p, l) ==
    IF DefectOf(p, l) = "period_boundary_timing" THEN p.end + p.extra[Owner(l)]
    ELSE p.day[Owner(l)]

LinePayId(p, l) ==
    IF IsStray(p, l) \/ DefectOf(p, l) = "ambiguous_multi_candidate" THEN NoKey ELSE Owner(l)

----------------------------------------------------------------------------
\* The bank statement (_finalise_bank_batches)

PaidLines(p) == {l \in PlannedLines(p) : DefectOf(p, l) \notin Unpaid}
Pending(p, d) == {l \in PaidLines(p) : LineDay(p, l) = d}
Days(p) == {LineDay(p, l) : l \in PaidLines(p)}

DayCreditOf(p, d) == SumFunction([l \in Pending(p, d) |-> LineNet(p, l)])

\* sorted_dates[i]
DayAt(p, i) == CHOOSE d \in Days(p) : Cardinality({e \in Days(p) : e < d}) = i

\* A few days whose extracted UTR is that of the settlement day before.
VictimIndices(p) ==
    LET last == Cardinality(Days(p)) - 1
        count == Min({MaxIncidents, Max({0, last \div IncidentSpan})})
    IN IF count = 0 THEN {}
       ELSE {Min({last, (k + 1) * Max({1, last \div count})}) : k \in 0..(count - 1)}

Victims(p) == {DayAt(p, i) : i \in VictimIndices(p)}

DayUtr(p, d) ==
    IF d \in Victims(p) THEN CHOOSE e \in Days(p) : \E i \in VictimIndices(p) :
                                 d = DayAt(p, i) /\ e = DayAt(p, i - 1)
    ELSE d

\* The orders that ask for an orphan credit, in order, and their credits.
Orphaned(p) == {o \in Orders : p.defect[o] = "orphan_bank_credit"}
OrphanRank(p, o) == Cardinality({q \in Orphaned(p) : q < o})

----------------------------------------------------------------------------
\* The batch and the author's notes

Nowhere == 1000     \* a day nothing is near to

GeneratedBatch(p) ==
    LET there == PlannedLines(p)
        paid == PaidLines(p)
        days == Days(p)
        isDay(b) == \E d \in days : b = DayCredit(d)
        day(b) == CHOOSE d \in days : b = DayCredit(d)
        asks(b) == {o \in Orphaned(p) : b = OrphanCredit(OrphanRank(p, o))}
    IN [orderPid  |-> [o \in Orders |-> o],
        linePid   |-> [l \in Lines |-> IF l \in there THEN LinePayId(p, l) ELSE NoKey],
        lineUtr   |-> [l \in Lines |-> IF l \in paid THEN LineDay(p, l) ELSE NoKey],
        bankUtr   |-> [b \in Banks |-> IF isDay(b) THEN DayUtr(p, day(b)) ELSE NoKey],
        gross     |-> [e \in Orders \cup Lines |->
                          IF e \in Orders THEN p.gross[e]
                          ELSE IF e \in there THEN LineGross(p, e) ELSE 0],
        net       |-> [l \in Lines |-> IF l \in there THEN LineNet(p, l) ELSE 0],
        credit    |-> [b \in Banks |->
                          IF isDay(b) THEN DayCreditOf(p, day(b))
                          ELSE SumFunction([o \in asks(b) |-> p.extra[o]])],
        settledOn |-> [l \in Lines |-> IF l \in there THEN LineDay(p, l) ELSE Nowhere],
        valueDate |-> [b \in Banks |-> IF isDay(b) THEN day(b)
                                       ELSE IF asks(b) # {} THEN p.start + (b - OrphanCredit(0))
                                       ELSE 2 * Nowhere],
        budget    |-> p.budget]

\* pathology_manifest.jsonl: a defect is noted at the record that bears it.
Manifest(p) ==
    {<<DefectOf(p, l), l>> : l \in
        {k \in PlannedLines(p) :
            \/ DefectOf(p, k) \in Unpaid \cup {"amount_mismatch", "fee_variance",
                                  "partial_settlement", "ambiguous_multi_candidate"}
            \/ IsStray(p, k)}}
      \cup {<<p.defect[o], o>> : o \in {q \in Orders : p.defect[q] = "missing_in_gateway"}}
      \cup {<<"duplicate_utr", DayCredit(d)>> : d \in Victims(p)}
      \cup {<<p.defect[o], OrphanCredit(OrphanRank(p, o))>> : o \in Orphaned(p)}

\* ground_truth.jsonl
TrueLinks(p) ==
    {{Owner(l), l} : l \in {k \in PlannedLines(p) : ~ IsStray(p, k)}}
      \cup UNION {{{l, DayCredit(d)} : l \in Pending(p, d)} : d \in Days(p)}

GeneratedFacts(p) ==
    LET there == PlannedLines(p)
    IN [present    |-> Orders \cup there \cup {DayCredit(d) : d \in Days(p)}
                         \cup {OrphanCredit(OrphanRank(p, o)) : o \in Orphaned(p)},
        kind       |-> [l \in Lines |-> IF l \in there /\ IsStray(p, l)
                                        THEN StrayKind(DefectOf(p, l)) ELSE "payment"],
        payId      |-> [l \in Lines |-> IF l \in there THEN LinePayId(p, l) ELSE NoKey],
        fee        |-> [l \in Lines |-> IF l \in there THEN LineFee(p, l) ELSE 0],
        tax        |-> [l \in Lines |-> IF l \in there THEN LineTax(p, l) ELSE 0],
        instrument |-> [l \in Lines |-> CHOOSE i \in Instruments : TRUE],
        start      |-> p.start,
        end        |-> p.end,
        authored   |-> TRUE,
        manifest   |-> Manifest(p),
        truth      |-> TrueLinks(p)]

Generated(p) == [batch |-> GeneratedBatch(p), facts |-> GeneratedFacts(p)]

\* What is drawn for an order: a settlement day of the period (one of four days
\* or more), and a defect that can be seen.  The smallest gross, 500 paise, with
\* the smallest skew, 50 bps, gives just the fee that rounds to one out of
\* tolerance.
DrawnFor(p, o) ==
    LET defect == p.defect[o]
        extra == p.extra[o]
    IN /\ defect \in Categories \cup {"none"} /\ extra \in Int
       /\ p.gross[o] \in 0..CardLimit
       /\ p.day[o] \in (p.start..p.end) \ {NoKey}
       /\ defect = "amount_mismatch" => Magnitude(extra) > Tolerance
       /\ defect = "fee_variance" => p.gross[o] * extra >= 10000 * FeeTolerance + 5000
       /\ defect = "period_boundary_timing" => extra > 0

\* A plan, with a credit for each of its days and each orphan.
Drawn(p) ==
    /\ p.start \in Nat /\ p.end \in Nat
    /\ \A o \in Orders : DrawnFor(p, o)
    /\ \A d \in Days(p) : DayCredit(d) \in Banks /\ DayCredit(d) < OrphanCredit(0)
    /\ \A o \in Orphaned(p) : OrphanCredit(OrphanRank(p, o)) \in Banks

\* The batches whose author's notes are known are those of generate().
ASSUME PlanAssumption ==
    /\ NoKey \notin Orders /\ Instruments # {}
    /\ Lines = {10 * o : o \in Orders} \cup {10 * o + 1 : o \in Orders}
    /\ \A p \in Plans : Drawn(p)
    /\ {c \in Cases : c.facts.authored} \subseteq {Generated(p) : p \in Plans}

----------------------------------------------------------------------------
\* Scoring

\* Mutant: every order of a group is linked with every line of it.
Mut_PredictedLinks(g) ==
    {{o, l} : o \in members[g] \cap Orders, l \in LinesIn(g)}
      \cup {{l, b} : l \in LinesIn(g), b \in BanksIn(g)}

\* links_from_groups, of one group.
OrderLinks(g) == UNION {{{o, l} : l \in OwnLines(o, g)} : o \in members[g] \cap Orders}
BankLinks(g) == {{l, b} : l \in LinesIn(g), b \in BanksIn(g)}
PredictedLinks(g) == OrderLinks(g) \cup BankLinks(g)

\* _build_pathology_table: the rows of the manifest that were not detected.
Missed == facts.manifest \ items

FalseLinks(g) == PredictedLinks(g) \ facts.truth

----------------------------------------------------------------------------
(* Properties.                                                             *)

\* README.md:61, "all injected defects correctly detected, 0 missed", beyond
\* the batch it measured: a defect is missed only when T3 has matched the
\* record, as the inference its label says it is, to a credit that happens to
\* have its amount.
MissedOnlyByInference ==
    Done /\ facts.authored =>
        \A m \in Missed : \E g \in live : grade[g] = "T3" /\ m[2] \in members[g]

\* Matching by payment id and UTR makes no false link: one that the author did
\* not put there comes from a group that bears the label of T3.
FalseLinksAreInferred ==
    Done /\ facts.authored => \A g \in live : FalseLinks(g) # {} => grade[g] = "T3"

\* Every alarm has a cause: the record it is about, or one that is truly linked
\* with it, bears a defect, or the credit that pays it has a UTR in dispute.
Doubtful(e) ==
    \/ \E m \in facts.manifest : m[2] = e
    \/ e \in Banks /\ AmbiguousUtr(batch.bankUtr[e])

Caused(i) ==
    \E e \in Entities : (e = i[2] \/ {e, i[2]} \in facts.truth) /\ Doubtful(e)

EveryAlarmHasCause == Done /\ facts.authored => \A i \in items : Caused(i)

=============================================================================
