----------------------------- MODULE MCReconcile -----------------------------
(***************************************************************************)
(* Cases for the pipeline: synthetic batches of three orders, and uploads  *)
(* with what no synthetic batch has: two orders whose payments share keys, *)
(* and three of which one is settled under two UTRs.                       *)
(***************************************************************************)
EXTENDS Synthetic

MCOrders == 1..3
MCLines == {10, 11, 20, 21, 30, 31}
MCBanks == {101, 102, 103, 200, 201}
MCKeys == 1..3

Defects == Categories \cup {"none"}

\* What generate() may draw: a drift of a rupee or more, a skew of 50 bps or
\* more, a stray amount of five rupees or more.  1953 paise is what a gross of
\* 2000 leaves, so an orphan credit may look like a missing one.
Extra(defect) ==
    CASE defect = "amount_mismatch" -> -100
      [] defect = "fee_variance" -> 50
      [] defect \in StrayDefects -> 500
      [] defect = "period_boundary_timing" -> 1
      [] OTHER -> 1953

\* Three settlement days make one incident of a duplicate UTR here, and the
\* search of T3 may be cut off after two combinations.
Schedules ==
    {[day2 |-> 1, day3 |-> 1, budget |-> 50], [day2 |-> 2, day3 |-> 3, budget |-> 50],
     [day2 |-> 2, day3 |-> 3, budget |-> 2]}

Plan(defect, s) ==
    [defect |-> defect,
     gross  |-> [o \in MCOrders |-> IF o = 1 THEN 549 ELSE 2000],
     day    |-> [o \in MCOrders |-> CASE o = 1 -> 1 [] o = 2 -> s.day2 [] o = 3 -> s.day3],
     extra  |-> [o \in MCOrders |-> Extra(defect[o])],
     start |-> 0, end |-> 8, budget |-> s.budget]

MCPlans ==
    {Plan(f, s) : s \in Schedules,
        f \in {g \in [MCOrders -> Defects] :
                  g[3] \in {"none", "partial_settlement", "netted_refund_unlinked", "missing_in_bank"}}}

\* Uploads: lines 10 and 11 may be of one payment, line 20 of a second.
Upload(kind11, id11, pid2, utrs, butr, credit, off, ins, last) ==
    LET kind == [l \in MCLines |-> IF l = 11 THEN kind11 ELSE "payment"]
        payId == [l \in MCLines |-> CASE l = 10 -> 1 [] l = 11 -> id11 [] l = 20 -> 2 [] OTHER -> 0]
        gross == [l \in MCLines |-> IF l \in {10, 11, 20} THEN 1000 ELSE 0]
        fee == [l \in MCLines |-> CASE l = 10 -> 20 + off [] l \in {11, 20} -> 20 [] OTHER -> 0]
        tax == [l \in MCLines |-> IF l \in {10, 11, 20} THEN 4 ELSE 0]
    IN [batch |->
           [orderPid  |-> [o \in MCOrders |-> CASE o = 1 -> 1 [] o = 2 -> pid2 [] o = 3 -> 0],
            linePid   |-> [l \in MCLines |-> IF kind[l] = "payment" THEN payId[l] ELSE 0],
            lineUtr   |-> [l \in MCLines |-> CASE l = 10 -> 1 [] l = 11 -> (IF pid2 = 1 THEN 1 ELSE utrs) [] l = 20 -> utrs [] OTHER -> 0],
            bankUtr   |-> [b \in MCBanks |-> CASE b = 101 -> 1 [] b = 102 -> butr [] OTHER -> 0],
            gross     |-> [e \in MCOrders \cup MCLines |->
                              IF e \in MCLines THEN gross[e] ELSE IF e < 3 THEN 1000 ELSE 0],
            net       |-> [l \in MCLines |-> gross[l] - fee[l] - tax[l]],
            credit    |-> [b \in MCBanks |-> CASE b = 101 -> 976 - off [] b = 102 -> credit [] OTHER -> 0],
            settledOn |-> [l \in MCLines |-> CASE l \in {10, 11} -> 3 [] l = 20 -> last [] OTHER -> Nowhere],
            valueDate |-> [b \in MCBanks |-> IF b \in {101, 102} THEN b - 98 ELSE 2 * Nowhere],
            budget    |-> 50],
        facts |->
           [present    |-> {1, 2, 10, 11, 20, 101, 102},
            kind |-> kind, payId |-> payId, fee |-> fee, tax |-> tax,
            instrument |-> [l \in MCLines |-> IF l = 20 THEN ins ELSE "upi"],
            start |-> 0, end |-> 3, authored |-> FALSE, manifest |-> {}, truth |-> {}]]

\* Fees at the tolerance, beyond it, and of a line without an instrument.
FeeChecks == {<<0, "upi">>, <<2, "upi">>, <<3, "upi">>, <<0, NoInstrument>>}

Uploads ==
    {Upload(kind11, id11, pid2, utrs, butr, credit, f[1], f[2], IF f[1] = 2 THEN 4 ELSE 3) :
        kind11 \in {"payment", "refund", "reversal"}, id11 \in {0, 1}, pid2 \in {1, 2},
        utrs \in 0..2, butr \in 0..2, credit \in {976, 1952}, f \in FeeChecks}

\* Three payments, the one of the given order settled in two parts, each beside
\* a line of another payment under a UTR of its own.
Chained(split) ==
    LET there == {10 * o : o \in MCOrders} \cup {10 * split + 1}
        next == Min(MCOrders \ {split})
        shared == {10 * split, 10 * next}
        payId == [l \in MCLines |-> IF l \in there THEN l \div 10 ELSE 0]
        amounts(x) == [l \in MCLines |-> IF l \in there THEN x ELSE 0]
    IN [batch |->
           [orderPid  |-> [o \in MCOrders |-> o],
            linePid   |-> payId,
            lineUtr   |-> [l \in MCLines |-> CASE l \in shared -> 1
                                               [] l \in there \ shared -> 2 [] OTHER -> 0],
            bankUtr   |-> [b \in MCBanks |-> IF b \in {101, 102} THEN b - 100 ELSE 0],
            gross     |-> [e \in MCOrders \cup MCLines |->
                              CASE e \in there -> 1000 [] e = split -> 2000
                                [] e \in MCOrders -> 1000 [] OTHER -> 0],
            net       |-> amounts(976),
            credit    |-> [b \in MCBanks |-> IF b \in {101, 102} THEN 1952 ELSE 0],
            settledOn |-> [l \in MCLines |-> IF l \in there THEN 3 ELSE Nowhere],
            valueDate |-> [b \in MCBanks |-> IF b \in {101, 102} THEN 3 ELSE 2 * Nowhere],
            budget    |-> 50],
        facts |->
           [present    |-> MCOrders \cup there \cup {101, 102},
            kind |-> [l \in MCLines |-> "payment"], payId |-> payId,
            fee |-> amounts(20), tax |-> amounts(4),
            instrument |-> [l \in MCLines |-> "upi"],
            start |-> 0, end |-> 3, authored |-> FALSE, manifest |-> {}, truth |-> {}]]

MCCases == {Generated(p) : p \in MCPlans} \cup Uploads \cup {Chained(o) : o \in MCOrders}
MCBatches == {c.batch : c \in MCCases}
=============================================================================
