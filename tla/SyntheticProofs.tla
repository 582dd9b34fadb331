--------------------------- MODULE SyntheticProofs ---------------------------
(***************************************************************************)
(* Proofs about the accuracy of the pipeline on synthetic batches: for any *)
(* number of orders and days, any defects, amounts and instruments that    *)
(* the generator may draw.                                                 *)
(***************************************************************************)
EXTENDS Synthetic, ReconcileProofs

(***************************************************************************)
(* Payments whose lines bear one UTR.                                      *)
(***************************************************************************)

\* Until T3 starts no group bears its label, and a group that does not bear it
\* has the lines and the banks of one UTR.
Unlabelled == tier \in {"T1", "T2"} => \A g \in Groups : grade[g] # "T3"

SameUtr ==
    \A g \in Groups : grade[g] # "T3" =>
        \A l \in LinesIn(g), b \in BanksIn(g) : batch.lineUtr[l] = batch.bankUtr[b]

Agreeing == Uniform => Unlabelled /\ SameUtr

LEMMA AgreeingInit == Init => Agreeing
<1>. SUFFICES ASSUME Init PROVE Unlabelled /\ SameUtr
  BY DEF Agreeing
<1>1. \A g \in Groups : members[g] = {} /\ grade[g] = "none"
  BY DEF Init
<1>. QED
  BY <1>1 DEF Unlabelled, SameUtr, LinesIn

\* What is said of the groups reads these variables only.
LEMMA SameAgreeing ==
    ASSUME Agreeing, tier' \in {"T1", "T2"} => tier \in {"T1", "T2"},
           UNCHANGED <<batch, members, grade>>
    PROVE  Agreeing'
BY DEF Agreeing, Uniform, OnePayment, Unlabelled, SameUtr, LinesIn, BanksIn

\* A group that T1 opens has no bank.
LEMMA T1MatchAgreeing ==
    ASSUME Typed, Evidenced, Agreeing, NEW p \in PayIds, T1Match(p)
    PROVE  Agreeing'
<1>1. /\ UNCHANGED <<batch, tier>> /\ tier = "T1"
      /\ grade' = [grade EXCEPT ![<<"T1", p>>] = "T1"]
  BY DEF T1Match
<1>2. \A g \in Groups : BanksIn(g)' = {}
  BY <1>1, T1MatchEvidenced DEF Evidenced, ByUtr
<1>3. Unlabelled => Unlabelled'
  BY <1>1 DEF Unlabelled, Typed, TypeOK
<1>. QED
  BY <1>1, <1>2, <1>3 DEF Agreeing, Uniform, OnePayment, SameUtr

\* T2 merges groups of T1 only, each with lines of the UTR alone.
LEMMA T2MatchAgreeing ==
    ASSUME Typed, Evidenced, Formed, Agreeing, NEW u \in Utrs, T2Match(u)
    PROVE  Agreeing'
<1>. SUFFICES ASSUME Uniform PROVE Unlabelled' /\ SameUtr'
  BY DEF Agreeing, T2Match, Uniform, OnePayment
<1>. DEFINE ls == LinesOfUtr(u)
            new == <<"T2", u>>
            refs == Referenced(ls)
<1>1. PICK b \in Banks : Evidence(b, u) /\ Attach(b, ls, new, "T2")
  BY DEF T2Match
<1>2. ls \in SUBSET Lines /\ new \in Groups
  BY DEF LinesOfUtr, Groups
<1>3. PICK target \in Groups : Attached(b, ls, new, "T2", target)
  BY <1>1, <1>2, AttachTarget DEF Typed
<1>4. /\ tier = "T2" /\ u \in todo /\ tier' = tier /\ UNCHANGED batch
      /\ Unopened(new) /\ batch.bankUtr[b] = u
  BY <1>1 DEF T2Match, Takes, Typed, Fresh, Evidence, BanksOfUtr
<1>5. Unlabelled /\ SameUtr
  BY DEF Agreeing
<1>6. ASSUME NEW h \in refs
      PROVE  /\ h \in Groups /\ BanksIn(h) = {}
             /\ \A l \in LinesIn(h) : batch.lineUtr[l] = u
  <2>1. PICK m \in ls : home[m] = h /\ m \in members[h]
    BY <1>2 DEF Referenced, Typed, Homed
  <2>2. h \in Groups /\ m \in Lines /\ batch.lineUtr[m] = u /\ m \in LinesIn(h)
    BY <1>2, <2>1 DEF Referenced, Typed, TypeOK, LinesOfUtr, LinesIn
  <2>3. BanksIn(h) = {}
    <3>. SUFFICES ASSUME NEW c \in BanksIn(h) PROVE FALSE
      OBVIOUS
    <3>1. batch.bankUtr[c] = u
      BY <1>4, <1>5, <2>2 DEF Unlabelled, SameUtr
    <3>. QED
      BY <1>4, <2>2, <3>1 DEF Evidenced, ByUtr
  <2>4. PICK p \in PayIds : members[h] = CandidateOrders(p) \cup PaymentLines(p)
    BY <2>1, <2>2, <2>3 DEF Formed, Bare, Original
  <2>5. \A l \in LinesIn(h) : l \in Lines /\ batch.linePid[l] = p
    BY <2>4, EntityAssumption DEF LinesIn, CandidateOrders, PaymentLines
  <2>6. p # NoKey
    BY KeyAssumption
  <2>. QED
    BY <2>2, <2>3, <2>5, <2>6 DEF Uniform, OnePayment
<1>7. members'[target] = Gathered(target, refs) \cup ls \cup {b}
  BY <1>3 DEF Attached, Typed, TypeOK
<1>8. ASSUME NEW e \in members'[target]
      PROVE  e \in ls \/ e = b \/ \E h \in refs : e \in members[h]
  <2>1. CASE refs = {}
    BY <1>3, <1>4, <1>7, <2>1 DEF Attached, Gathered, Consumed, Unopened
  <2>2. CASE target \in refs
    BY <1>7, <2>2 DEF Gathered, Consumed
  <2>. QED
    BY <1>3, <2>1, <2>2 DEF Attached
<1>9. \A l \in LinesIn(target)' : batch.lineUtr[l] = u
  <2>. SUFFICES ASSUME NEW l \in Lines, l \in members'[target] PROVE batch.lineUtr[l] = u
    BY DEF LinesIn
  <2>1. l # b
    BY EntityAssumption
  <2>2. CASE l \in ls
    BY <2>2 DEF LinesOfUtr
  <2>3. CASE \E h \in refs : l \in members[h]
    BY <1>6, <2>3 DEF LinesIn
  <2>. QED
    BY <1>8, <2>1, <2>2, <2>3
<1>10. \A c \in BanksIn(target)' : c = b
  <2>. SUFFICES ASSUME NEW c \in Banks, c \in members'[target] PROVE c = b
    BY DEF BanksIn
  <2>1. c \notin ls
    BY <1>2, EntityAssumption
  <2>2. ~ \E h \in refs : c \in members[h]
    BY <1>6 DEF BanksIn
  <2>. QED
    BY <1>8, <2>1, <2>2
<1>11. \A g \in Groups \ {target} : /\ grade'[g] = grade[g] /\ members'[g] = members[g]
  BY <1>3 DEF Attached, Typed, TypeOK
<1>12. grade'[target] = "T2"
  BY <1>3 DEF Attached, Typed, TypeOK
<1>13. Unlabelled'
  BY <1>4, <1>5, <1>11, <1>12 DEF Unlabelled
<1>14. SameUtr'
  <2>. SUFFICES ASSUME NEW g \in Groups, grade'[g] # "T3",
                       NEW l \in LinesIn(g)', NEW c \in BanksIn(g)'
                PROVE  batch.lineUtr[l] = batch.bankUtr[c]
    BY <1>4 DEF SameUtr
  <2>1. CASE g = target
    BY <1>4, <1>9, <1>10, <2>1
  <2>2. CASE g # target
    BY <1>5, <1>11, <2>2 DEF SameUtr, LinesIn, BanksIn
  <2>. QED
    BY <2>1, <2>2
<1>. QED
  BY <1>13, <1>14

\* T3 labels the group it fills.
LEMMA T3MatchAgreeing ==
    ASSUME Typed, Agreeing, NEW b \in Banks, T3Match(b)
    PROVE  Agreeing'
<1>. DEFINE new == <<"T3", b>>
<1>1. PICK ls \in Solutions(b) : Attach(b, ls, new, "T3")
  BY DEF T3Match
<1>2. ls \in SUBSET Lines /\ new \in Groups
  BY DEF Solutions, Combos, Candidates, InWindow, Groups, Typed, TypeOK
<1>3. PICK target \in Groups : Attached(b, ls, new, "T3", target)
  BY <1>1, <1>2, AttachTarget DEF Typed
<1>4. tier = "T3" /\ tier' = tier /\ UNCHANGED batch
  BY DEF T3Match, TakesBank
<1>5. /\ grade'[target] = "T3"
      /\ \A g \in Groups \ {target} : grade'[g] = grade[g] /\ members'[g] = members[g]
  BY <1>3 DEF Attached, Typed, TypeOK
<1>. QED
  BY <1>4, <1>5 DEF Agreeing, Uniform, OnePayment, Unlabelled, SameUtr, LinesIn, BanksIn

LEMMA NextAgreeing == Typed /\ Evidenced /\ Formed /\ Agreeing /\ [Next]_vars => Agreeing'
<1>. SUFFICES ASSUME Typed, Evidenced, Formed, Agreeing, [Next]_vars PROVE Agreeing'
  OBVIOUS
<1>1. ASSUME NEW p \in PayIds, T1Match(p) \/ T1Refuse(p) PROVE Agreeing'
  BY <1>1, T1MatchAgreeing, SameAgreeing DEF T1Refuse
<1>2. CASE StartT2 \/ StartT3 \/ Finish
  BY <1>2, SameAgreeing DEF StartT2, StartT3, Finish
<1>3. ASSUME NEW u \in Utrs, T2Match(u) \/ T2Refuse(u) \/ T2Decline(u) PROVE Agreeing'
  BY <1>3, T2MatchAgreeing, SameAgreeing DEF T2Refuse, T2Decline
<1>4. ASSUME NEW b \in Banks, T3Match(b) \/ T3Refuse(b) \/ T3Skip(b) PROVE Agreeing'
  BY <1>4, T3MatchAgreeing, SameAgreeing DEF T3Refuse, T3Skip
<1>5. CASE Returned \/ UNCHANGED vars
  BY <1>5, SameAgreeing DEF Returned, vars
<1>. QED
  BY <1>1, <1>2, <1>3, <1>4, <1>5 DEF Next

(***************************************************************************)
(* The ids of a synthetic batch, and the days in order.                    *)
(***************************************************************************)

\* A line bears the number of its order.
LEMMA LineIds ==
    ASSUME NEW l \in Lines
    PROVE  /\ l \in Nat /\ Owner(l) \in Orders /\ Owner(l) \in Nat
           /\ l = 10 * Owner(l) \/ l = 10 * Owner(l) + 1
           /\ IsSecond(l) <=> l = 10 * Owner(l) + 1
<1>1. Orders \subseteq Nat
  BY EntityAssumption DEF Entities
<1>2. PICK o \in Orders : l = 10 * o \/ l = 10 * o + 1
  BY PlanAssumption
<1>3. o \in Nat
  BY <1>1, <1>2
<1>4. CASE l = 10 * o
  BY <1>2, <1>3, <1>4 DEF Owner, IsSecond
<1>5. CASE l = 10 * o + 1
  BY <1>2, <1>3, <1>5 DEF Owner, IsSecond
<1>. QED
  BY <1>2, <1>4, <1>5

\* How many elements of S come before d.
Before(S, d) == {e \in S : e < d}

\* Each number below the size of a finite set of naturals is the rank of one
\* of its elements.
LEMMA RankOfEach ==
    ASSUME NEW S, IsFiniteSet(S), S \subseteq Nat
    PROVE  /\ \A d, e \in S : Cardinality(Before(S, d)) = Cardinality(Before(S, e)) => d = e
           /\ \A i \in 0..(Cardinality(S) - 1) : \E d \in S : Cardinality(Before(S, d)) = i
<1>1. Cardinality(S) \in Nat
  BY FS_CardinalityType
<1>2. ASSUME NEW d \in S
      PROVE  /\ IsFiniteSet(Before(S, d))
             /\ Cardinality(Before(S, d)) \in 0..(Cardinality(S) - 1)
  <2>1. Before(S, d) \in SUBSET S /\ Before(S, d) # S
    BY DEF Before
  <2>2. /\ IsFiniteSet(Before(S, d)) /\ Cardinality(Before(S, d)) <= Cardinality(S)
        /\ Cardinality(Before(S, d)) # Cardinality(S)
    BY <2>1, FS_Subset
  <2>. QED
    BY <1>1, <2>2, FS_CardinalityType
<1>3. ASSUME NEW d \in S, NEW e \in S, d < e
      PROVE  Cardinality(Before(S, d)) # Cardinality(Before(S, e))
  <2>0. \A x \in S : x \in Nat
    OBVIOUS
  <2>1. Before(S, d) \in SUBSET Before(S, e)
    <3>1. \A x \in S : x < d => x < e
      BY <1>3, <2>0
    <3>. QED
      BY <3>1 DEF Before
  <2>2. d \in Before(S, e) /\ d \notin Before(S, d)
    BY <1>3, <2>0 DEF Before
  <2>3. IsFiniteSet(Before(S, e))
    BY <1>2
  <2>. QED
    BY <2>1, <2>2, <2>3, FS_Subset
<1>4. \A d, e \in S : Cardinality(Before(S, d)) = Cardinality(Before(S, e)) => d = e
  <2>1. \A d, e \in S : d = e \/ d < e \/ e < d
    OBVIOUS
  <2>. QED
    BY <1>3, <2>1
<1>5. \A i \in 0..(Cardinality(S) - 1) : \E d \in S : Cardinality(Before(S, d)) = i
  <2>. DEFINE f == [d \in S |-> Cardinality(Before(S, d))]
              T == 0..(Cardinality(S) - 1)
  <2>1. f \in Injection(S, T)
    BY <1>2, <1>4 DEF Injection, IsInjective
  <2>2. IsFiniteSet(T) /\ Cardinality(T) = Cardinality(S)
    <3>1. Cardinality(S) - 1 \in Int /\ 0 \in Int
      BY <1>1
    <3>2. IsFiniteSet(T) /\ Cardinality(T) = IF 0 > Cardinality(S) - 1 THEN 0
                                             ELSE (Cardinality(S) - 1) - 0 + 1
      BY <3>1, FS_Interval
    <3>. QED
      BY <1>1, <3>2
  <2>. HIDE DEF f, T
  <2>3. f \in Surjection(S, T)
    BY <2>1, <2>2, FS_Injection
  <2>4. \A i \in T : \E d \in S : f[d] = i
    BY <2>3 DEF Surjection
  <2>. QED
    BY <2>4 DEF f, T
<1>. QED
  BY <1>4, <1>5

LEMMA QuotientBounds ==
    ASSUME NEW a \in Int, NEW b \in Int, b > 0
    PROVE  a \div b \in Int /\ b * (a \div b) <= a /\ a < b * (a \div b) + b
OBVIOUS

LEMMA AtMostQuotient ==
    ASSUME NEW a \in Int, NEW b \in Int, b > 0, NEW c \in Int, c * b <= a
    PROVE  c <= a \div b
<1>1. PICK q \in Int : q = a \div b /\ a < b * q + b
  BY QuotientBounds
<1>. QED
  BY <1>1

LEMMA ProductsGrow ==
    ASSUME NEW k \in Nat, NEW m \in Nat, k <= m, NEW s \in Nat
    PROVE  k * s <= m * s
OBVIOUS

LEMMA NoProductIsOne ==
    ASSUME NEW k \in Int, NEW s \in Int, s >= 2
    PROVE  k * s # 1
OBVIOUS

LEMMA LesserAndGreater ==
    ASSUME NEW a \in Int, NEW b \in Int
    PROVE  /\ Min({a, b}) = IF a <= b THEN a ELSE b
           /\ Max({a, b}) = IF a <= b THEN b ELSE a
<1>1. \E x \in {a, b} : \A y \in {a, b} : x <= y
  OBVIOUS
<1>2. \E x \in {a, b} : \A y \in {a, b} : x >= y
  OBVIOUS
<1>3. Min({a, b}) \in {a, b} /\ \A y \in {a, b} : Min({a, b}) <= y
  BY <1>1 DEF Min
<1>4. Max({a, b}) \in {a, b} /\ \A y \in {a, b} : Max({a, b}) >= y
  BY <1>2 DEF Max
<1>. QED
  BY <1>3, <1>4

(***************************************************************************)
(* The days of a plan whose credits bear the UTR of the day before.        *)
(***************************************************************************)

LEMMA DaysOfPlan ==
    ASSUME NEW p, Drawn(p)
    PROVE  /\ Days(p) \subseteq Nat /\ IsFiniteSet(Days(p))
           /\ \A l \in PaidLines(p) : LineDay(p, l) = p.day[Owner(l)]
           /\ \A l \in PlannedLines(p) : LineDay(p, l) \in Nat
<1>1. ASSUME NEW l \in Lines
      PROVE  p.day[Owner(l)] \in Nat /\ p.extra[Owner(l)] \in Int
  BY LineIds DEF Drawn, DrawnFor
<1>2. \A l \in PlannedLines(p) : LineDay(p, l) \in Nat
  <2>. SUFFICES ASSUME NEW l \in Lines PROVE LineDay(p, l) \in Nat
    BY DEF PlannedLines
  <2>1. CASE DefectOf(p, l) = "period_boundary_timing"
    <3>1. p.extra[Owner(l)] > 0
      BY <2>1, LineIds DEF DefectOf, Drawn, DrawnFor
    <3>. QED
      BY <1>1, <2>1, <3>1 DEF LineDay, Drawn
  <2>2. CASE DefectOf(p, l) # "period_boundary_timing"
    BY <1>1, <2>2 DEF LineDay
  <2>. QED
    BY <2>1, <2>2
<1>3. PaidLines(p) \subseteq PlannedLines(p) /\ PaidLines(p) \subseteq Lines
  BY DEF PaidLines, PlannedLines
<1>4. \A l \in PaidLines(p) : LineDay(p, l) = p.day[Owner(l)]
  BY DEF PaidLines, Unpaid, LineDay
<1>5. IsFiniteSet(PaidLines(p))
  BY <1>3, EntityAssumption, FS_Subset DEF Entities
<1>6. IsFiniteSet(Days(p))
  <2>. DEFINE f == [l \in PaidLines(p) |-> LineDay(p, l)]
  <2>1. f \in Surjection(PaidLines(p), Days(p))
    BY DEF Surjection, Days
  <2>. HIDE DEF f
  <2>. QED
    BY <1>5, <2>1, FS_Surjection
<1>. QED
  BY <1>2, <1>3, <1>4, <1>6 DEF Days

\* The places of the wrong UTRs are apart, and none is the first.
LEMMA VictimsApart ==
    ASSUME NEW p, Drawn(p)
    PROVE  /\ VictimIndices(p) \subseteq 1..(Cardinality(Days(p)) - 1)
           /\ \A i \in VictimIndices(p) : i - 1 \notin VictimIndices(p)
<1>. DEFINE last == Cardinality(Days(p)) - 1
            count == Min({MaxIncidents, Max({0, last \div IncidentSpan})})
            step == last \div count
<1>1. last \in Int /\ last >= -1
  BY DaysOfPlan, FS_CardinalityType
<1>2. IncidentSpan \in Nat /\ IncidentSpan >= 2 /\ MaxIncidents \in Nat
  BY IncidentAssumption
<1>. HIDE DEF last
<1>3. last \div IncidentSpan \in Int
  BY <1>1, <1>2
<1>4. count \in Nat /\ (count # 0 => count <= last \div IncidentSpan)
  BY <1>2, <1>3, LesserAndGreater
<1>. HIDE DEF count
<1>5. VictimIndices(p) =
         IF count = 0 THEN {}
         ELSE {Min({last, (k + 1) * Max({1, last \div count})}) : k \in 0..(count - 1)}
  BY DEF VictimIndices, count, last
<1>. SUFFICES ASSUME count # 0
              PROVE  /\ VictimIndices(p) \subseteq 1..last
                     /\ \A i \in VictimIndices(p) : i - 1 \notin VictimIndices(p)
  BY <1>5 DEF last
<1>6. step \in Int /\ step >= 2 /\ count * step <= last
  <2>. DEFINE q == last \div IncidentSpan
  <2>1. q \in Int /\ IncidentSpan * q <= last
    BY <1>1, <1>2, QuotientBounds
  <2>2. count > 0 /\ count <= q
    BY <1>4
  <2>. HIDE DEF q
  <2>3. 2 * q <= IncidentSpan * q
    BY <1>2, <1>4, <2>1, <2>2, ProductsGrow
  <2>4. 2 * count <= last
    BY <1>1, <1>2, <1>4, <2>1, <2>2, <2>3
  <2>. QED
    BY <1>1, <1>4, <2>2, <2>4, QuotientBounds, AtMostQuotient
<1>7. ASSUME NEW k \in 0..(count - 1)
      PROVE  /\ Min({last, (k + 1) * Max({1, last \div count})}) = (k + 1) * step
             /\ (k + 1) * step \in 1..last
  <2>1. Max({1, last \div count}) = step
    <3>1. 1 \in Int /\ 1 <= step
      BY <1>6
    <3>. QED
      BY <1>6, <3>1, LesserAndGreater
  <2>. HIDE DEF step
  <2>2. (k + 1) * step \in Int /\ (k + 1) * step <= count * step /\ 1 * step <= (k + 1) * step
    <3>1. k + 1 \in Nat /\ k + 1 <= count /\ 1 <= k + 1 /\ step \in Nat
      BY <1>4, <1>6
    <3>. QED
      BY <1>4, <3>1, ProductsGrow
  <2>3. (k + 1) * step \in 1..last
    BY <1>1, <1>4, <1>6, <2>2
  <2>4. Min({last, (k + 1) * step}) = (k + 1) * step
    <3>. DEFINE m == (k + 1) * step
    <3>1. m \in Int /\ m <= last
      BY <2>2, <2>3, <1>1
    <3>. HIDE DEF m
    <3>2. Min({last, m}) = IF last <= m THEN last ELSE m
      BY <1>1, <3>1, LesserAndGreater
    <3>3. Min({last, m}) = m
      BY <1>1, <3>1, <3>2
    <3>. QED
      BY <3>3 DEF m
  <2>. QED
    BY <2>1, <2>3, <2>4
<1>. HIDE DEF step
<1>8. \A i \in VictimIndices(p) : \E k \in 0..(count - 1) : i = (k + 1) * step /\ i \in 1..last
  <2>. DEFINE M(k) == Min({last, (k + 1) * Max({1, last \div count})})
  <2>1. \A k \in 0..(count - 1) : M(k) = (k + 1) * step /\ M(k) \in 1..last
    BY <1>7
  <2>2. VictimIndices(p) = {M(k) : k \in 0..(count - 1)}
    BY <1>5
  <2>. HIDE DEF M
  <2>. QED
    BY <2>1, <2>2
<1>9. ASSUME NEW i \in VictimIndices(p), i - 1 \in VictimIndices(p) PROVE FALSE
  <2>1. PICK k \in 0..(count - 1) : i = (k + 1) * step
    BY <1>8
  <2>2. PICK m \in 0..(count - 1) : i - 1 = (m + 1) * step
    BY <1>8, <1>9
  <2>3. k \in Int /\ m \in Int /\ (k - m) * step = 1
    BY <1>4, <1>6, <2>1, <2>2
  <2>. QED
    BY <1>6, <2>3, NoProductIsOne
<1>10. \A i \in VictimIndices(p) : i - 1 \notin VictimIndices(p)
  BY <1>9
<1>. QED
  BY <1>8, <1>10

\* A victim bears the UTR of a day that keeps its own, another day.
LEMMA DayUtrs ==
    ASSUME NEW p, Drawn(p), NEW d \in Days(p)
    PROVE  /\ d \notin Victims(p) => DayUtr(p, d) = d
           /\ d \in Victims(p) => /\ DayUtr(p, d) \in Days(p) \ Victims(p)
                                  /\ DayUtr(p, d) # d
           /\ Victims(p) \subseteq Days(p)
<1>. DEFINE last == Cardinality(Days(p)) - 1
<1>1. ASSUME NEW i \in 0..last
      PROVE  DayAt(p, i) \in Days(p) /\ Cardinality(Before(Days(p), DayAt(p, i))) = i
  <2>1. \E e \in Days(p) : Cardinality(Before(Days(p), e)) = i
    BY DaysOfPlan, RankOfEach
  <2>2. \E e \in Days(p) : Cardinality({x \in Days(p) : x < e}) = i
    BY <2>1 DEF Before
  <2>3. DayAt(p, i) \in Days(p) /\ Cardinality({x \in Days(p) : x < DayAt(p, i)}) = i
    BY <2>2 DEF DayAt
  <2>. QED
    BY <2>3 DEF Before
<1>2. \A i \in VictimIndices(p) : i \in 0..last /\ i - 1 \in 0..last
  BY VictimsApart, DaysOfPlan, FS_CardinalityType
<1>. HIDE DEF last
<1>3. Victims(p) \subseteq Days(p)
  BY <1>1, <1>2 DEF Victims
<1>4. ASSUME d \in Victims(p)
      PROVE  DayUtr(p, d) \in Days(p) \ Victims(p) /\ DayUtr(p, d) # d
  <2>1. PICK i \in VictimIndices(p) : d = DayAt(p, i)
    BY <1>4 DEF Victims
  <2>2. \E e \in Days(p) : \E j \in VictimIndices(p) : d = DayAt(p, j) /\ e = DayAt(p, j - 1)
    BY <1>1, <1>2, <2>1
  <2>3. PICK j \in VictimIndices(p) : d = DayAt(p, j) /\ DayUtr(p, d) = DayAt(p, j - 1)
    BY <1>4, <2>2 DEF DayUtr
  <2>4. /\ DayAt(p, j - 1) \in Days(p) /\ Cardinality(Before(Days(p), DayAt(p, j - 1))) = j - 1
        /\ Cardinality(Before(Days(p), DayAt(p, j))) = j
    BY <1>1, <1>2
  <2>5. DayAt(p, j - 1) # d
    BY <1>2, <2>3, <2>4
  <2>6. ASSUME DayAt(p, j - 1) \in Victims(p) PROVE FALSE
    <3>1. PICK k \in VictimIndices(p) : DayAt(p, j - 1) = DayAt(p, k)
      BY <2>6 DEF Victims
    <3>2. k = j - 1
      BY <1>1, <1>2, <2>4, <3>1
    <3>. QED
      BY <3>1, <3>2, VictimsApart
  <2>. QED
    BY <2>3, <2>4, <2>5, <2>6
<1>5. d \notin Victims(p) => DayUtr(p, d) = d
  BY DEF DayUtr
<1>. QED
  BY <1>3, <1>4, <1>5

(***************************************************************************)
(* What the records of a plan say.                                         *)
(***************************************************************************)

Given(p) == Drawn(p) /\ batch = GeneratedBatch(p) /\ facts = GeneratedFacts(p)

LEMMA AuthoredIsGenerated ==
    ASSUME Loaded, facts.authored
    PROVE  \E p \in Plans : Given(p)
<1>1. PICK c \in Cases : batch = c.batch /\ facts = c.facts
  BY DEF Loaded
<1>2. PICK p \in Plans : c = Generated(p)
  BY <1>1, PlanAssumption
<1>3. c.batch = GeneratedBatch(p) /\ c.facts = GeneratedFacts(p)
  BY <1>2 DEF Generated
<1>. QED
  BY <1>1, <1>3, PlanAssumption DEF Given

LEMMA GivenKeys ==
    ASSUME NEW p, Given(p)
    PROVE  /\ \A o \in Orders : batch.orderPid[o] = o
           /\ \A l \in Lines :
                 /\ batch.linePid[l] = IF l \in PlannedLines(p) THEN LinePayId(p, l) ELSE NoKey
                 /\ facts.payId[l] = IF l \in PlannedLines(p) THEN LinePayId(p, l) ELSE NoKey
                 /\ batch.lineUtr[l] = IF l \in PaidLines(p) THEN LineDay(p, l) ELSE NoKey
           /\ \A d \in Days(p) : DayCredit(d) \in Banks /\ batch.bankUtr[DayCredit(d)] = DayUtr(p, d)
           /\ \A b \in Banks : batch.bankUtr[b] # NoKey => \E d \in Days(p) : b = DayCredit(d)
<1>. DEFINE isDay(b) == \E d \in Days(p) : b = DayCredit(d)
            day(b) == CHOOSE d \in Days(p) : b = DayCredit(d)
<1>1. /\ batch.orderPid = [o \in Orders |-> o]
      /\ batch.linePid = [l \in Lines |-> IF l \in PlannedLines(p) THEN LinePayId(p, l) ELSE NoKey]
      /\ batch.lineUtr = [l \in Lines |-> IF l \in PaidLines(p) THEN LineDay(p, l) ELSE NoKey]
      /\ batch.bankUtr = [b \in Banks |-> IF isDay(b) THEN DayUtr(p, day(b)) ELSE NoKey]
  BY DEF Given, GeneratedBatch
<1>2. facts.payId = [l \in Lines |-> IF l \in PlannedLines(p) THEN LinePayId(p, l) ELSE NoKey]
  BY DEF Given, GeneratedFacts
<1>3. ASSUME NEW d \in Days(p)
      PROVE  DayCredit(d) \in Banks /\ isDay(DayCredit(d)) /\ day(DayCredit(d)) = d
  <2>1. \A e \in Days(p) : e \in Nat
    BY DaysOfPlan DEF Given
  <2>2. \A e \in Days(p) : DayCredit(d) = DayCredit(e) => d = e
    BY <2>1 DEF DayCredit
  <2>3. isDay(DayCredit(d))
    OBVIOUS
  <2>4. day(DayCredit(d)) = d
    BY <2>2
  <2>. QED
    BY <2>3, <2>4 DEF Given, Drawn
<1>. HIDE DEF isDay, day
<1>4. \A d \in Days(p) : batch.bankUtr[DayCredit(d)] = DayUtr(p, d)
  BY <1>1, <1>3
<1>5. \A b \in Banks : batch.bankUtr[b] # NoKey => isDay(b)
  BY <1>1
<1>. QED
  BY <1>1, <1>2, <1>3, <1>4, <1>5 DEF isDay

\* The parts of a payment are paid on one day.
LEMMA GivenIsUniform ==
    ASSUME NEW p, Given(p)
    PROVE  Uniform
<1>. SUFFICES ASSUME NEW l \in Lines, NEW m \in Lines,
                     batch.linePid[l] = batch.linePid[m], batch.linePid[l] # NoKey
              PROVE  batch.lineUtr[l] = batch.lineUtr[m]
  BY DEF Uniform, OnePayment
<1>1. /\ l \in PlannedLines(p) /\ m \in PlannedLines(p)
      /\ LinePayId(p, l) = LinePayId(p, m) /\ LinePayId(p, l) # NoKey
  BY GivenKeys
<1>2. Owner(l) = Owner(m)
  BY <1>1 DEF LinePayId
<1>3. LineDay(p, l) = LineDay(p, m) /\ (l \in PaidLines(p) <=> m \in PaidLines(p))
  BY <1>1, <1>2 DEF LineDay, PaidLines, DefectOf
<1>. QED
  BY <1>3, GivenKeys

\* A credit that is the only one with its UTR is that of the day of the UTR.
LEMMA UtrOfDay ==
    ASSUME NEW p, Given(p), NEW b \in Banks, NEW u \in Utrs, BanksOfUtr(u) = {b}
    PROVE  u \in Days(p) /\ b = DayCredit(u)
<1>1. batch.bankUtr[b] = u /\ u # NoKey
  BY KeyAssumption DEF BanksOfUtr
<1>2. PICK d \in Days(p) : b = DayCredit(d)
  BY <1>1, GivenKeys
<1>3. DayUtr(p, d) = u
  BY <1>1, <1>2, GivenKeys
<1>4. CASE d \notin Victims(p)
  BY <1>2, <1>3, <1>4, DayUtrs DEF Given
<1>5. CASE d \in Victims(p)
  <2>1. u \in Days(p) \ Victims(p)
    BY <1>3, <1>5, DayUtrs DEF Given
  <2>2. DayUtr(p, u) = u
    BY <2>1, DayUtrs DEF Given
  <2>3. DayCredit(u) \in BanksOfUtr(u)
    BY <2>1, <2>2, GivenKeys DEF BanksOfUtr
  <2>. QED
    BY <2>1, <2>3
<1>. QED
  BY <1>4, <1>5

(***************************************************************************)
(* No false link without the label of the inference.                       *)
(***************************************************************************)

\* An order is linked with lines of its own payment id, and they are its own.
LEMMA OrderLinksAreTrue ==
    ASSUME NEW p, Given(p), NEW g, NEW o \in Orders, NEW l \in OwnLines(o, g)
    PROVE  {o, l} \in facts.truth
<1>1. /\ l \in Lines /\ batch.orderPid[o] = o /\ o # NoKey
      /\ facts.payId[l] = o
  BY GivenKeys DEF OwnLines, LinesIn
<1>2. l \in PlannedLines(p) /\ LinePayId(p, l) = o
  BY <1>1, GivenKeys
<1>3. ~ IsStray(p, l) /\ Owner(l) = o
  BY <1>1, <1>2 DEF LinePayId
<1>4. {o, l} \in TrueLinks(p)
  BY <1>2, <1>3 DEF TrueLinks
<1>. QED
  BY <1>4 DEF Given, GeneratedFacts

\* A line with the UTR of a credit that no other credit bears is of its day.
LEMMA BankLinksAreTrue ==
    ASSUME NEW p, Given(p), NEW l \in Lines, NEW b \in Banks, NEW u \in Utrs,
           batch.lineUtr[l] = u, BanksOfUtr(u) = {b}
    PROVE  {l, b} \in facts.truth
<1>1. u \in Days(p) /\ b = DayCredit(u)
  BY UtrOfDay
<1>2. l \in PaidLines(p) /\ LineDay(p, l) = u
  <2>1. u # NoKey
    BY KeyAssumption
  <2>. QED
    BY <2>1, GivenKeys
<1>3. {l, b} \in TrueLinks(p)
  BY <1>1, <1>2 DEF TrueLinks, Pending
<1>. QED
  BY <1>3 DEF Given, GeneratedFacts

LEMMA LabelledLinksAreTrue ==
    ASSUME Typed, Evidenced, Agreeing, Loaded, facts.authored,
           NEW g \in live, grade[g] # "T3"
    PROVE  FalseLinks(g) = {}
<1>1. PICK p : Given(p)
  BY AuthoredIsGenerated
<1>2. g \in Groups
  BY DEF Typed, TypeOK
<1>3. ASSUME NEW o \in members[g] \cap Orders, NEW l \in OwnLines(o, g)
      PROVE  {o, l} \in facts.truth
  BY <1>1, OrderLinksAreTrue
<1>4. ASSUME NEW l \in LinesIn(g), NEW b \in BanksIn(g)
      PROVE  {l, b} \in facts.truth
  <2>1. PICK u \in Utrs : BanksOfUtr(u) = {b}
    BY <1>2 DEF Evidenced, Marked, Evidence
  <2>2. batch.lineUtr[l] = batch.bankUtr[b]
    BY <1>1, <1>2, GivenIsUniform DEF Agreeing, SameUtr
  <2>3. l \in Lines /\ b \in Banks /\ batch.bankUtr[b] = u
    BY <2>1 DEF LinesIn, BanksIn, BanksOfUtr
  <2>. QED
    BY <1>1, <2>1, <2>2, <2>3, BankLinksAreTrue
<1>5. OrderLinks(g) \subseteq facts.truth
  <2>. SUFFICES ASSUME NEW o \in members[g] \cap Orders, NEW x \in {{o, l} : l \in OwnLines(o, g)}
                PROVE  x \in facts.truth
    BY DEF OrderLinks
  <2>. QED
    BY <1>3
<1>6. BankLinks(g) \subseteq facts.truth
  BY <1>4 DEF BankLinks
<1>. QED
  BY <1>5, <1>6 DEF FalseLinks, PredictedLinks

\* Links are made by payment id and UTR, or bear the label of the inference: of
\* any number of orders, however their defects fall together.
THEOREM LinksCorrect == ReconcileSpec => []FalseLinksAreInferred
<1>. DEFINE Inv == Typed /\ Evidenced /\ Formed /\ Kept /\ Agreeing
<1>1. ReconcileInit => Inv
  BY PipelineInit, TypedInit, EvidencedInit, FormedInit, KeptInit, AgreeingInit
<1>2. Inv /\ [ReconcileNext]_<<vars, pipeline>> => Inv'
  BY PipelineStep, NextTyped, NextEvidenced, NextFormed, NextKept, NextAgreeing
<1>3. Inv => FalseLinksAreInferred
  BY LabelledLinksAreTrue DEF FalseLinksAreInferred, Kept
<1>. QED
  BY <1>1, <1>2, <1>3, PTL DEF ReconcileSpec

(***************************************************************************)
(* UTRs in dispute.                                                        *)
(***************************************************************************)

\* T2 has refused each UTR it has visited that two credits bear.
Disputed ==
    \A u \in Utrs, b, c \in Banks :
        /\ batch.bankUtr[b] = u /\ batch.bankUtr[c] = u /\ b # c
        /\ LinesOfUtr(u) # {}
        /\ tier \in {"T3", "done"} \/ (tier = "T2" /\ u \notin todo)
        => AmbiguousUtr(u)

LEMMA DisputedInit == Init => Disputed
  BY DEF Init, Disputed

\* Nothing is taken back, so a step need only refuse what it visits.
LEMMA SameDisputed ==
    ASSUME Disputed, batch' = batch, refused \subseteq refused',
           \A u \in Utrs :
               /\ tier' \in {"T3", "done"} \/ (tier' = "T2" /\ u \notin todo')
               /\ ~ (tier \in {"T3", "done"} \/ (tier = "T2" /\ u \notin todo))
               => \/ \A b, c \in BanksOfUtr(u) : b = c
                  \/ LinesOfUtr(u) = {}
                  \/ <<"utr", u>> \in refused'
    PROVE  Disputed'
<1>1. \A u : LinesOfUtr(u)' = LinesOfUtr(u)
  BY DEF LinesOfUtr
<1>2. \A u : AmbiguousUtr(u)' <=> <<"utr", u>> \in refused'
  BY DEF AmbiguousUtr
<1>. QED
  BY <1>1, <1>2 DEF Disputed, AmbiguousUtr, BanksOfUtr

\* A set with one element has no two.
LEMMA OneOnly ==
    ASSUME NEW S, IsFiniteSet(S), Cardinality(S) = 1, NEW x \in S, NEW y \in S
    PROVE  x = y
<1>1. S = {x}
  BY OneAtMost
<1>. QED
  BY <1>1

LEMMA NextDisputed == Typed /\ Disputed /\ [Next]_vars => Disputed'
<1>. SUFFICES ASSUME Typed, Disputed, [Next]_vars PROVE Disputed'
  OBVIOUS
<1>1. \A u : IsFiniteSet(BanksOfUtr(u))
  BY EntityAssumption, FS_Subset DEF BanksOfUtr, Entities
<1>2. ASSUME NEW p \in PayIds, T1Match(p) \/ T1Refuse(p) PROVE Disputed'
  BY <1>2, SameDisputed DEF T1Match, T1Refuse
<1>3. CASE StartT2
  BY <1>3, SameDisputed DEF StartT2
<1>4. ASSUME NEW u \in Utrs, T2Match(u) \/ T2Refuse(u) \/ T2Decline(u) PROVE Disputed'
  <2>1. /\ tier = "T2" /\ tier' = "T2" /\ todo' = todo \ {u} /\ batch' = batch
        /\ refused \subseteq refused'
    BY <1>4 DEF T2Match, T2Refuse, T2Decline, Takes
  <2>2. (\A b, c \in BanksOfUtr(u) : b = c) \/ <<"utr", u>> \in refused'
    <3>1. CASE T2Match(u)
      BY <3>1 DEF T2Match, Evidence
    <3>2. CASE T2Refuse(u)
      BY <3>2 DEF T2Refuse
    <3>3. CASE T2Decline(u)
      BY <1>1, <3>3, OneOnly DEF T2Decline
    <3>. QED
      BY <1>4, <3>1, <3>2, <3>3
  <2>. QED
    BY <2>1, <2>2, SameDisputed
<1>5. CASE StartT3
  BY <1>5, SameDisputed DEF StartT3
<1>6. ASSUME NEW b \in Banks, T3Match(b) \/ T3Refuse(b) \/ T3Skip(b) PROVE Disputed'
  BY <1>6, SameDisputed DEF T3Match, T3Refuse, T3Skip, TakesBank
<1>7. CASE Finish
  BY <1>7, SameDisputed DEF Finish
<1>8. CASE Returned \/ UNCHANGED vars
  BY <1>8, SameDisputed DEF Returned, vars
<1>. QED
  BY <1>2, <1>3, <1>4, <1>5, <1>6, <1>7, <1>8 DEF Next

\* A missing UTR is not one of them.
LEMMA NoKeyIsUndisputed == TypeOK => ~ AmbiguousUtr(NoKey)
  BY KeyAssumption DEF TypeOK, AmbiguousUtr

(***************************************************************************)
(* What T4 makes of the fees of the generator.                             *)
(***************************************************************************)

\* The rate card's 200 and 1800 of 10000 are the generator's 2 and 18 of 100.
LEMMA SameRate ==
    ASSUME NEW n \in Nat, NEW k \in Nat
    PROVE  RoundHalfUp(100 * n, 10000) = RoundHalfUp(n, 100) /\ RoundHalfUp(n, 100) \in Nat
<1>1. /\ RoundHalfUp(n, 100) = (2 * n + 100) \div 200
      /\ RoundHalfUp(100 * n, 10000) = (2 * (100 * n) + 10000) \div 20000
  BY DEF RoundHalfUp, Magnitude
<1>. QED
  BY <1>1

LEMMA HonestType ==
    ASSUME NEW gross \in Nat
    PROVE  HonestFee(gross) \in Nat /\ HonestTax(gross) \in Nat
<1>1. HonestFee(gross) \in Nat
  <2>1. 2 * gross \in Nat
    OBVIOUS
  <2>. QED
    BY <2>1, SameRate DEF HonestFee
<1>2. 18 * HonestFee(gross) \in Nat
  BY <1>1
<1>3. HonestTax(gross) \in Nat
  BY <1>2, SameRate DEF HonestTax
<1>. QED
  BY <1>1, <1>3

LEMMA HonestIsExpected ==
    ASSUME NEW gross \in Nat, NEW band, band.bps = 200, band.flat = 0, band.taxBps = 1800
    PROVE  /\ HonestFee(gross) \in Nat /\ HonestTax(gross) \in Nat
           /\ ExpectedFee(band, gross) = HonestFee(gross)
           /\ ExpectedTax(band, gross) = HonestTax(gross)
<1>1. HonestFee(gross) \in Nat /\ ExpectedFee(band, gross) = HonestFee(gross)
  <2>1. 2 * gross \in Nat /\ gross * band.bps + 10000 * band.flat = 100 * (2 * gross)
    OBVIOUS
  <2>. QED
    BY <2>1, SameRate DEF HonestFee, ExpectedFee
<1>. DEFINE fee == HonestFee(gross)
<1>2. HonestTax(gross) = RoundHalfUp(18 * fee, 100)
  BY DEF HonestTax
<1>3. ExpectedTax(band, gross) = RoundHalfUp(fee * band.taxBps, 10000)
  BY <1>1 DEF ExpectedTax
<1>. HIDE DEF fee
<1>4. fee \in Nat
  BY <1>1 DEF fee
<1>5. 18 * fee \in Nat /\ fee * band.taxBps = 100 * (18 * fee)
  BY <1>4
<1>6. RoundHalfUp(fee * band.taxBps, 10000) = RoundHalfUp(18 * fee, 100) /\ RoundHalfUp(18 * fee, 100) \in Nat
  BY <1>5, SameRate
<1>. QED
  BY <1>1, <1>2, <1>3, <1>6

\* A fee is compared with the generator's honest one.
LEMMA VerdictOfCard ==
    ASSUME NEW start \in Nat, NEW instrument \in Instruments, NEW gross \in 0..CardLimit,
           NEW fee \in Int, NEW tax \in Int, NEW day \in Nat, start <= day
    PROVE  Verdict(default_rate_card(start), instrument, gross, fee, tax, day).within
              = Within((fee + tax) - (HonestFee(gross) + HonestTax(gross)))
<1>. DEFINE bands == default_rate_card(start)
            candidates == {b \in bands : Applies(b, instrument, gross, day)}
            found == ApplicableBand(bands, instrument, gross, day)
            band == CHOOSE b \in found : TRUE
            mine == [instrument |-> instrument, min |-> 0, max |-> CardLimit, bps |-> 200,
                     flat |-> 0, taxBps |-> 1800, from |-> start, to |-> NoEnd]
<1>1. mine \in bands
  BY DEF default_rate_card
<1>2. Applies(mine, instrument, gross, day)
  BY CardAssumption, InstrumentAssumption DEF Applies
<1>3. \A b \in candidates : b = mine
  BY DEF default_rate_card, Applies
<1>. HIDE DEF mine
<1>4. candidates = {mine}
  BY <1>1, <1>2, <1>3
<1>5. Preferred(mine, mine)
  BY CardAssumption DEF Preferred, mine
<1>6. found = {mine}
  BY <1>4, <1>5 DEF ApplicableBand
<1>7. band = mine /\ found # {}
  BY <1>6
<1>8. mine.bps = 200 /\ mine.flat = 0 /\ mine.taxBps = 1800
  BY DEF mine
<1>9. gross \in Nat
  BY CardAssumption
<1>10. /\ ExpectedFee(mine, gross) = HonestFee(gross)
       /\ ExpectedTax(mine, gross) = HonestTax(gross)
  BY <1>8, <1>9, HonestIsExpected
<1>. HIDE DEF found
<1>. HIDE DEF bands
<1>11. Verdict(bands, instrument, gross, fee, tax, day).within
          = Within((fee + tax) - (ExpectedFee(mine, gross) + ExpectedTax(mine, gross)))
  BY <1>7 DEF Verdict, found
<1>. QED
  BY <1>10, <1>11 DEF bands

\* An honest fee is within the tolerance; a skewed one is not.
LEMMA HonestIsWithin ==
    ASSUME NEW gross \in Nat
    PROVE  Within((HonestFee(gross) + HonestTax(gross)) - (HonestFee(gross) + HonestTax(gross)))
<1>1. HonestFee(gross) \in Nat /\ HonestTax(gross) \in Nat
  BY HonestType
<1>. QED
  BY <1>1, CardAssumption DEF Within, Magnitude

LEMMA SkewShows ==
    ASSUME NEW gross \in Nat, NEW bps \in Int, gross * bps >= 10000 * FeeTolerance + 5000
    PROVE  /\ SkewedFee(gross, bps) \in Int
           /\ ~ Within((SkewedFee(gross, bps) + HonestTax(gross))
                          - (HonestFee(gross) + HonestTax(gross)))
<1>. DEFINE h == HonestFee(gross)
            k == gross * bps
            n == 10000 * h + k
<1>1. h \in Nat /\ HonestTax(gross) \in Nat
  BY HonestType
<1>2. k \in Int /\ k >= 10000 * FeeTolerance + 5000
  OBVIOUS
<1>3. SkewedFee(gross, bps) = RoundHalfUp(n, 10000)
  BY DEF SkewedFee
<1>. HIDE DEF h, k
<1>4. n \in Nat
  BY <1>1, <1>2, CardAssumption
<1>5. RoundHalfUp(n, 10000) = (2 * n + 10000) \div 20000
  BY <1>4 DEF RoundHalfUp, Magnitude
<1>6. (h + FeeTolerance + 1) * 20000 <= 2 * n + 10000
  BY <1>1, <1>2, CardAssumption
<1>. HIDE DEF n
<1>7. h + FeeTolerance + 1 <= (2 * n + 10000) \div 20000 /\ (2 * n + 10000) \div 20000 \in Int
  BY <1>1, <1>4, <1>6, CardAssumption, AtMostQuotient, QuotientBounds
<1>8. SkewedFee(gross, bps) \in Int /\ h + FeeTolerance + 1 <= SkewedFee(gross, bps)
  BY <1>3, <1>5, <1>7
<1>. HIDE DEF HonestFee
<1>. QED
  BY <1>1, <1>8, CardAssumption DEF Within, Magnitude, h

(***************************************************************************)
(* What else the records of a plan say.                                    *)
(***************************************************************************)

\* The lines and the credits that the plan has; all orders are there.
LEMMA GivenPresence ==
    ASSUME NEW p, Given(p)
    PROVE  /\ \A o \in Orders : o \in facts.present
           /\ \A l \in Lines : l \in facts.present <=> l \in PlannedLines(p)
           /\ \A b \in Banks : b \in facts.present <=>
                 \/ \E d \in Days(p) : b = DayCredit(d)
                 \/ \E o \in Orphaned(p) : b = OrphanCredit(OrphanRank(p, o))
<1>1. facts.present = Orders \cup PlannedLines(p) \cup {DayCredit(d) : d \in Days(p)}
                         \cup {OrphanCredit(OrphanRank(p, o)) : o \in Orphaned(p)}
  BY DEF Given, GeneratedFacts
<1>2. PlannedLines(p) \subseteq Lines
  BY DEF PlannedLines
<1>3. /\ \A d \in Days(p) : DayCredit(d) \in Banks
      /\ \A o \in Orphaned(p) : OrphanCredit(OrphanRank(p, o)) \in Banks
  BY DEF Given, Drawn
<1>4. /\ \A o \in Orders : o \notin Lines /\ o \notin Banks
      /\ \A l \in Lines : l \notin Banks
  BY EntityAssumption
<1>. QED
  BY <1>1, <1>2, <1>3, <1>4

LEMMA GivenRecords ==
    ASSUME NEW p, Given(p)
    PROVE  /\ \A o \in Orders : batch.gross[o] = p.gross[o]
           /\ \A l \in PlannedLines(p) :
                 /\ batch.gross[l] = LineGross(p, l) /\ batch.net[l] = LineNet(p, l)
                 /\ batch.settledOn[l] = LineDay(p, l)
                 /\ facts.kind[l] = IF IsStray(p, l) THEN StrayKind(DefectOf(p, l)) ELSE "payment"
                 /\ facts.fee[l] = LineFee(p, l) /\ facts.tax[l] = LineTax(p, l)
           /\ \A l \in Lines : facts.instrument[l] \in Instruments
           /\ facts.start = p.start /\ facts.end = p.end
           /\ facts.manifest = Manifest(p) /\ facts.truth = TrueLinks(p)
<1>1. PlannedLines(p) \subseteq Lines /\ Orders \cap Lines = {}
  BY EntityAssumption DEF PlannedLines
<1>2. /\ batch.gross = [e \in Orders \cup Lines |->
                          IF e \in Orders THEN p.gross[e]
                          ELSE IF e \in PlannedLines(p) THEN LineGross(p, e) ELSE 0]
      /\ batch.net = [l \in Lines |-> IF l \in PlannedLines(p) THEN LineNet(p, l) ELSE 0]
      /\ batch.settledOn = [l \in Lines |-> IF l \in PlannedLines(p) THEN LineDay(p, l) ELSE Nowhere]
  BY DEF Given, GeneratedBatch
<1>3. /\ facts.kind = [l \in Lines |-> IF l \in PlannedLines(p) /\ IsStray(p, l)
                                       THEN StrayKind(DefectOf(p, l)) ELSE "payment"]
      /\ facts.fee = [l \in Lines |-> IF l \in PlannedLines(p) THEN LineFee(p, l) ELSE 0]
      /\ facts.tax = [l \in Lines |-> IF l \in PlannedLines(p) THEN LineTax(p, l) ELSE 0]
      /\ facts.instrument = [l \in Lines |-> CHOOSE i \in Instruments : TRUE]
  BY DEF Given, GeneratedFacts
<1>4. /\ facts.start = p.start /\ facts.end = p.end
      /\ facts.manifest = Manifest(p) /\ facts.truth = TrueLinks(p)
  BY DEF Given, GeneratedFacts
<1>5. (CHOOSE i \in Instruments : TRUE) \in Instruments
  BY PlanAssumption
<1>6. \A l \in PlannedLines(p) :
          /\ batch.gross[l] = LineGross(p, l) /\ batch.net[l] = LineNet(p, l)
          /\ batch.settledOn[l] = LineDay(p, l)
  BY <1>1, <1>2
<1>7. \A l \in PlannedLines(p) :
          /\ facts.kind[l] = IF IsStray(p, l) THEN StrayKind(DefectOf(p, l)) ELSE "payment"
          /\ facts.fee[l] = LineFee(p, l) /\ facts.tax[l] = LineTax(p, l)
  BY <1>1, <1>3
<1>8. \A o \in Orders : batch.gross[o] = p.gross[o]
  BY <1>2
<1>9. \A l \in Lines : facts.instrument[l] \in Instruments
  BY <1>3, <1>5
<1>. QED
  BY <1>4, <1>6, <1>7, <1>8, <1>9

\* The payments are the lines that no defect has added to an order.
LEMMA GivenPayments ==
    ASSUME NEW p, Given(p), NEW l \in Lines
    PROVE  /\ l \in Present(Lines) <=> l \in PlannedLines(p)
           /\ l \in Payments <=> l \in PlannedLines(p) /\ ~ IsStray(p, l)
<1>1. l \in Present(Lines) <=> l \in PlannedLines(p)
  BY GivenPresence DEF Present
<1>2. ASSUME l \in PlannedLines(p), IsStray(p, l) PROVE facts.kind[l] # "payment"
  <2>1. facts.kind[l] = StrayKind(DefectOf(p, l)) /\ DefectOf(p, l) \in StrayDefects
    BY <1>2, GivenRecords DEF IsStray
  <2>. QED
    BY <2>1 DEF StrayKind, StrayDefects
<1>3. ASSUME l \in PlannedLines(p), ~ IsStray(p, l) PROVE facts.kind[l] = "payment"
  BY <1>3, GivenRecords
<1>. QED
  BY <1>1, <1>2, <1>3 DEF Payments

\* A payment is late just when it is to miss the period.
LEMMA GivenDays ==
    ASSUME NEW p, Given(p), NEW l \in PlannedLines(p)
    PROVE  /\ Late(l) <=> DefectOf(p, l) = "period_boundary_timing"
           /\ LineDay(p, l) \in Nat /\ facts.start <= LineDay(p, l)
<1>1. Owner(l) \in Orders
  BY LineIds DEF PlannedLines
<1>2. /\ p.day[Owner(l)] \in p.start..p.end /\ p.extra[Owner(l)] \in Int
      /\ DefectOf(p, l) = "period_boundary_timing" => p.extra[Owner(l)] > 0
  BY <1>1 DEF Given, Drawn, DrawnFor, DefectOf
<1>3. p.start \in Nat /\ p.end \in Nat
  BY DEF Given, Drawn
<1>4. batch.settledOn[l] = LineDay(p, l) /\ facts.end = p.end /\ facts.start = p.start
  BY GivenRecords
<1>5. CASE DefectOf(p, l) = "period_boundary_timing"
  <2>1. LineDay(p, l) = p.end + p.extra[Owner(l)]
    BY <1>5 DEF LineDay
  <2>2. p.start <= p.end
    BY <1>2, <1>3
  <2>. QED
    BY <1>2, <1>3, <1>4, <1>5, <2>1, <2>2 DEF Late
<1>6. CASE DefectOf(p, l) # "period_boundary_timing"
  <2>1. LineDay(p, l) = p.day[Owner(l)]
    BY <1>6 DEF LineDay
  <2>. QED
    BY <1>2, <1>3, <1>4, <1>6, <2>1 DEF Late
<1>. QED
  BY <1>5, <1>6

\* The line of an order is its first one, unless the payment is in two parts.
LEMMA LinesOfPayment ==
    ASSUME NEW p, Given(p), NEW o \in Orders
    PROVE  /\ PaymentLines(o) = {l \in PlannedLines(p) : LinePayId(p, l) = o}
           /\ \A l \in PaymentLines(o) : Owner(l) = o /\ ~ IsStray(p, l)
           /\ \A l, m \in PaymentLines(o) : l # m => p.defect[o] = "partial_settlement"
           /\ p.defect[o] = "partial_settlement" =>
                 \E l, m \in Lines : l # m /\ PaymentLines(o) = {l, m}
<1>1. PlannedLines(p) \subseteq Lines /\ o # NoKey
  BY PlanAssumption DEF PlannedLines
<1>2. PaymentLines(o) = {l \in PlannedLines(p) : LinePayId(p, l) = o}
  BY <1>1, GivenKeys DEF PaymentLines
<1>3. \A l \in PaymentLines(o) : Owner(l) = o /\ ~ IsStray(p, l) /\ l \in PlannedLines(p)
  BY <1>1, <1>2 DEF LinePayId
<1>4. ASSUME NEW l \in PaymentLines(o), NEW m \in PaymentLines(o), l # m
      PROVE  p.defect[o] = "partial_settlement"
  <2>1. /\ l \in Lines /\ m \in Lines /\ Owner(l) = o /\ Owner(m) = o
        /\ ~ IsStray(p, l) /\ ~ IsStray(p, m)
        /\ l \in PlannedLines(p) /\ m \in PlannedLines(p)
    BY <1>1, <1>3
  <2>2. IsSecond(l) \/ IsSecond(m)
    BY <1>4, <2>1, LineIds
  <2>3. ASSUME NEW k \in PlannedLines(p), IsSecond(k), ~ IsStray(p, k)
        PROVE  DefectOf(p, k) = "partial_settlement"
    BY <2>3 DEF PlannedLines, IsStray
  <2>. QED
    BY <2>1, <2>2, <2>3 DEF DefectOf
<1>5. ASSUME p.defect[o] = "partial_settlement"
      PROVE  \E l, m \in Lines : l # m /\ PaymentLines(o) = {l, m}
  <2>. DEFINE l == 10 * o
              m == 10 * o + 1
  <2>1. o \in Nat
    BY EntityAssumption DEF Entities
  <2>2. l \in Lines /\ m \in Lines
    BY PlanAssumption
  <2>3. l # m /\ Owner(l) = o /\ Owner(m) = o /\ ~ IsSecond(l) /\ IsSecond(m)
    BY <2>1 DEF Owner, IsSecond
  <2>4. l \in PlannedLines(p) /\ m \in PlannedLines(p)
    BY <1>5, <2>2, <2>3 DEF PlannedLines, DefectOf
  <2>5. LinePayId(p, l) = o /\ LinePayId(p, m) = o
    BY <1>5, <2>3 DEF LinePayId, DefectOf, IsStray, StrayDefects
  <2>6. \A k \in PaymentLines(o) : k = l \/ k = m
    <3>. SUFFICES ASSUME NEW k \in PaymentLines(o) PROVE k = l \/ k = m
      OBVIOUS
    <3>1. k \in Lines /\ Owner(k) = o
      BY <1>1, <1>3
    <3>. QED
      BY <3>1, LineIds
  <2>7. l \in PaymentLines(o) /\ m \in PaymentLines(o)
    BY <1>2, <2>4, <2>5
  <2>. HIDE DEF l, m
  <2>8. PaymentLines(o) = {l, m}
    BY <2>6, <2>7
  <2>. QED
    BY <2>2, <2>3, <2>8
<1>. QED
  BY <1>2, <1>3, <1>4, <1>5

(***************************************************************************)
(* Where the cascade has put the payments and the credits of a plan.       *)
(***************************************************************************)

\* A payment, its order and its other part are in one group, and in no other.
LEMMA GroupOfPayment ==
    ASSUME Typed, Whole, Paired, Undivided, tier = "done",
           NEW p, Given(p), NEW l \in PlannedLines(p), LinePayId(p, l) # NoKey
    PROVE  /\ Owner(l) \in Orders /\ l \in PaymentLines(Owner(l)) /\ OwnOrderTie(l)
           /\ \E g \in live :
                 /\ GroupOf(l) = {g} /\ Owner(l) \in members[g] /\ l \in members[g]
                 /\ OwnLines(Owner(l), g) = PaymentLines(Owner(l))
<1>. DEFINE o == Owner(l)
<1>1. l \in Lines /\ o \in Orders
  BY LineIds DEF PlannedLines
<1>2. LinePayId(p, l) = o /\ o # NoKey
  BY DEF LinePayId
<1>3. batch.linePid[l] = o /\ batch.orderPid[o] = o
  BY <1>1, <1>2, GivenKeys
<1>4. o \in PayIds
  BY <1>1, <1>2, <1>3 DEF Typed, TypeOK, BatchType
<1>5. l \in PaymentLines(o)
  BY <1>1, <1>3 DEF PaymentLines
<1>6. CandidateOrders(o) = {o}
  BY <1>1, GivenKeys DEF CandidateOrders
<1>7. grade[<<"T1", o>>] # "none"
  BY <1>1, <1>4, <1>5, <1>6 DEF Paired, Claimed
<1>8. PICK g \in live : CandidateOrders(o) \cup PaymentLines(o) \subseteq members[g]
  BY <1>4, <1>7 DEF Whole, OrdersKept
<1>9. Holders(l) = {g}
  BY <1>5, <1>8 DEF Holders, Whole, NoSharedMember
<1>10. GroupOf(l) = {g}
  BY <1>9 DEF GroupOf
<1>11. OwnLines(o, g) = PaymentLines(o)
  <2>1. \A k \in Lines : batch.linePid[k] = facts.payId[k]
    BY GivenKeys
  <2>. QED
    BY <1>2, <1>3, <1>8, <2>1 DEF OwnLines, LinesIn, PaymentLines
<1>12. facts.payId[l] = o
  BY <1>1, <1>2, GivenKeys
<1>13. OwnOrderTie(l)
  BY <1>1, <1>2, <1>3, <1>6, <1>8, <1>10, <1>12 DEF OwnOrderTie
<1>. QED
  BY <1>1, <1>5, <1>6, <1>8, <1>10, <1>11, <1>13

\* What has no payment id stands beside no order of its own.
LEMMA NoPayIdNoTie ==
    ASSUME NEW p, Given(p), NEW l \in PlannedLines(p), LinePayId(p, l) = NoKey
    PROVE  ~ OwnOrderTie(l)
<1>1. l \in Lines
  BY DEF PlannedLines
<1>. QED
  BY <1>1, GivenKeys DEF OwnOrderTie

\* A day is a UTR, of the lines that its credit pays.
LEMMA LinesOfDay ==
    ASSUME TypeOK, NEW p, Given(p), NEW d \in Days(p)
    PROVE  /\ d \in Utrs /\ LinesOfUtr(d) = Pending(p, d) /\ Pending(p, d) # {}
           /\ batch.credit[DayCredit(d)] = SumOfNets(Pending(p, d))
<1>1. PaidLines(p) \subseteq Lines /\ PaidLines(p) \subseteq PlannedLines(p)
  BY DEF PaidLines, PlannedLines
<1>2. PICK l \in PaidLines(p) : d = LineDay(p, l)
  BY DEF Days
<1>3. d # NoKey
  <2>1. Owner(l) \in Orders
    BY <1>1, LineIds
  <2>2. d = p.day[Owner(l)]
    BY <1>2, DaysOfPlan DEF Given
  <2>. QED
    BY <2>1, <2>2 DEF Given, Drawn, DrawnFor
<1>4. d \in Utrs
  BY <1>1, <1>2, <1>3, GivenKeys DEF TypeOK, BatchType
<1>5. LinesOfUtr(d) = Pending(p, d)
  BY <1>1, <1>3, GivenKeys DEF LinesOfUtr, Pending
<1>6. l \in Pending(p, d)
  BY <1>2 DEF Pending
<1>7. batch.credit[DayCredit(d)] = DayCreditOf(p, d)
  <2>. DEFINE isDay(b) == \E e \in Days(p) : b = DayCredit(e)
              day(b) == CHOOSE e \in Days(p) : b = DayCredit(e)
              asks(b) == {o \in Orphaned(p) : b = OrphanCredit(OrphanRank(p, o))}
  <2>1. batch.credit = [b \in Banks |-> IF isDay(b) THEN DayCreditOf(p, day(b))
                                       ELSE SumFunction([o \in asks(b) |-> p.extra[o]])]
    BY DEF Given, GeneratedBatch
  <2>2. DayCredit(d) \in Banks /\ isDay(DayCredit(d))
    BY GivenKeys
  <2>3. day(DayCredit(d)) = d
    <3>1. \A e \in Days(p) : e \in Nat
      BY DaysOfPlan DEF Given
    <3>2. \A e \in Days(p) : DayCredit(d) = DayCredit(e) => d = e
      BY <3>1 DEF DayCredit
    <3>. QED
      BY <2>2, <3>2
  <2>. HIDE DEF isDay, day, asks
  <2>. QED
    BY <2>1, <2>2, <2>3
<1>8. DayCreditOf(p, d) = SumOfNets(Pending(p, d))
  <2>1. \A k \in Pending(p, d) : batch.net[k] = LineNet(p, k)
    BY <1>1, GivenRecords DEF Pending
  <2>2. [k \in Pending(p, d) |-> LineNet(p, k)] = [k \in Pending(p, d) |-> batch.net[k]]
    BY <2>1
  <2>. QED
    BY <2>2 DEF DayCreditOf, SumOfNets
<1>. QED
  BY <1>4, <1>5, <1>6, <1>7, <1>8

\* A credit with the UTR of its day, and no other with it, is in a group with
\* the lines that it pays.
LEMMA GroupOfCredit ==
    ASSUME Typed, Whole, Paired, Disputed, Undivided, tier = "done",
           NEW p, Given(p), NEW d \in Days(p), d \notin Victims(p),
           ~ AmbiguousUtr(batch.bankUtr[DayCredit(d)])
    PROVE  \E g \in live : DayCredit(d) \in members[g] /\ Pending(p, d) \subseteq members[g]
<1>. DEFINE b == DayCredit(d)
<1>1. b \in Banks /\ batch.bankUtr[b] = d
  BY GivenKeys, DayUtrs DEF Given
<1>2. /\ d \in Utrs /\ LinesOfUtr(d) = Pending(p, d) /\ Pending(p, d) # {}
      /\ batch.credit[b] = SumOfNets(Pending(p, d))
  BY LinesOfDay DEF Typed
<1>. HIDE DEF b
<1>3. BanksOfUtr(d) = {b}
  <2>1. ASSUME NEW c \in BanksOfUtr(d) PROVE c = b
    BY <1>1, <1>2 DEF Disputed, BanksOfUtr, b
  <2>. QED
    BY <1>1, <2>1 DEF BanksOfUtr
<1>4. Evidence(b, d)
  BY <1>2, <1>3 DEF Evidence
<1>5. tie[b] = Pending(p, d)
  BY <1>1, <1>2, <1>4 DEF Undivided, Paired, Accounted
<1>. QED
  BY <1>1, <1>2, <1>5 DEF Whole, BanksKept, b

\* A group with a credit that no UTR accounts for bears the label of T3.
LEMMA UnpaidIsInferred ==
    ASSUME Typed, Evidenced, Agreeing, Uniform, NEW g \in live, NEW b \in BanksIn(g),
           NEW l \in LinesIn(g), batch.lineUtr[l] = NoKey
    PROVE  grade[g] = "T3"
<1>1. g \in Groups
  BY DEF Typed, TypeOK
<1>. SUFFICES ASSUME grade[g] # "T3" PROVE FALSE
  OBVIOUS
<1>2. PICK u \in Utrs : Evidence(b, u)
  BY <1>1 DEF Evidenced, Marked
<1>3. batch.bankUtr[b] = u /\ u # NoKey
  BY <1>2, KeyAssumption DEF Evidence, BanksOfUtr
<1>. QED
  BY <1>1, <1>3 DEF Agreeing, SameUtr

\* So does one with a credit that bears no UTR, or one that another bears.
LEMMA UnmatchedIsInferred ==
    ASSUME Typed, Evidenced, NEW b \in Banks, ~ \E u \in Utrs : BanksOfUtr(u) = {b},
           b \in Grouped(Banks)
    PROVE  \E g \in live : grade[g] = "T3" /\ b \in members[g]
<1>1. PICK g \in live : b \in BanksIn(g)
  BY DEF Grouped, Holders, BanksIn, Present
<1>2. g \in Groups
  BY DEF Typed, TypeOK
<1>3. grade[g] = "T3"
  BY <1>1, <1>2 DEF Evidenced, Marked, Evidence
<1>. QED
  BY <1>1, <1>3 DEF BanksIn

(***************************************************************************)
(* Every defect is detected, or hidden by an inference.                    *)
(***************************************************************************)

\* What the classifier raises, and the fee verdicts that it reads.
Alarms == LineItems \cup BankItems \cup OrderItems \cup FeeItems \cup TieItems

Verdicts ==
    \A l \in Payments :
        fees[l] = Verdict(default_rate_card(facts.start), facts.instrument[l], batch.gross[l],
                          facts.fee[l], facts.tax[l], batch.settledOn[l])

\* The state in which the batch of plan p is classified.
Classifiable(p) ==
    /\ Typed /\ Evidenced /\ Formed /\ Whole /\ Paired /\ Disputed /\ Agreeing
    /\ Undivided /\ tier = "done"
    /\ Given(p) /\ Verdicts

Inferred(e) == \E g \in live : grade[g] = "T3" /\ e \in members[g]

LEMMA ManifestOfPlan ==
    ASSUME NEW p, NEW m \in Manifest(p)
    PROVE  \/ \E l \in PlannedLines(p) :
                 /\ m = <<DefectOf(p, l), l>>
                 /\ \/ DefectOf(p, l) \in Unpaid \cup {"amount_mismatch", "fee_variance",
                                             "partial_settlement", "ambiguous_multi_candidate"}
                    \/ IsStray(p, l)
           \/ \E o \in Orders : p.defect[o] = "missing_in_gateway" /\ m = <<p.defect[o], o>>
           \/ \E d \in Victims(p) : m = <<"duplicate_utr", DayCredit(d)>>
           \/ \E o \in Orphaned(p) : m = <<p.defect[o], OrphanCredit(OrphanRank(p, o))>>
  BY DEF Manifest

\* A line that a defect has added shows the defect by its type.
LEMMA StrayIsRaised ==
    ASSUME NEW p, Given(p), NEW l \in PlannedLines(p), IsStray(p, l)
    PROVE  <<DefectOf(p, l), l>> \in Alarms
<1>1. l \in Lines /\ l \in Present(Lines) \ Payments
  BY GivenPayments DEF PlannedLines
<1>2. StrayCategory(facts.kind[l]) = DefectOf(p, l)
  <2>1. facts.kind[l] = StrayKind(DefectOf(p, l)) /\ DefectOf(p, l) \in StrayDefects
    BY GivenRecords DEF IsStray
  <2>. QED
    BY <2>1 DEF StrayKind, StrayCategory, StrayDefects
<1>. QED
  BY <1>1, <1>2 DEF Alarms, LineItems

LEMMA LateIsRaised ==
    ASSUME NEW p, Given(p), NEW l \in PlannedLines(p),
           DefectOf(p, l) = "period_boundary_timing"
    PROVE  <<DefectOf(p, l), l>> \in Alarms
<1>1. l \in Payments /\ Late(l)
  BY GivenPayments, GivenDays DEF PlannedLines, IsStray, StrayDefects
<1>. QED
  BY <1>1 DEF Alarms, LineItems

LEMMA UntiedIsRaised ==
    ASSUME NEW p, Given(p), NEW l \in PlannedLines(p),
           DefectOf(p, l) = "ambiguous_multi_candidate"
    PROVE  <<DefectOf(p, l), l>> \in Alarms
<1>1. l \in Payments /\ ~ Late(l)
  BY GivenPayments, GivenDays DEF PlannedLines, IsStray, StrayDefects
<1>2. ~ OwnOrderTie(l)
  BY NoPayIdNoTie DEF LinePayId
<1>3. l \in Unresolved \ WithOrder
  BY <1>1, <1>2 DEF Unresolved, WithOrder
<1>. QED
  BY <1>3 DEF Alarms, LineItems

\* A fee is out of tolerance when the generator has skewed it.
LEMMA SkewIsRaised ==
    ASSUME NEW p, Classifiable(p), NEW l \in PlannedLines(p),
           DefectOf(p, l) = "fee_variance"
    PROVE  <<DefectOf(p, l), l>> \in Alarms
<1>. DEFINE o == Owner(l)
            gross == p.gross[o]
            bps == p.extra[o]
<1>0. Given(p) /\ Drawn(p)
  BY DEF Classifiable, Given
<1>1. l \in Payments /\ l \in Lines
  BY <1>0, GivenPayments DEF PlannedLines, IsStray, StrayDefects
<1>2. o \in Orders
  BY <1>1, LineIds
<1>3. /\ gross \in 0..CardLimit /\ bps \in Int
      /\ gross * bps >= 10000 * FeeTolerance + 5000
  BY <1>0, <1>2 DEF Drawn, DrawnFor, DefectOf
<1>4. LineGross(p, l) = gross
  BY DEF LineGross, IsStray, StrayDefects
<1>5. LineFee(p, l) = SkewedFee(gross, bps) /\ LineTax(p, l) = HonestTax(gross)
  BY <1>4 DEF LineFee, LineTax, IsStray, StrayDefects
<1>6. fees[l] = Verdict(default_rate_card(facts.start), facts.instrument[l], gross,
                        SkewedFee(gross, bps), HonestTax(gross), LineDay(p, l))
  BY <1>0, <1>1, <1>4, <1>5, GivenRecords DEF Classifiable, Verdicts
<1>7. /\ facts.start \in Nat /\ facts.instrument[l] \in Instruments
      /\ LineDay(p, l) \in Nat /\ facts.start <= LineDay(p, l)
  BY <1>0, <1>1, GivenRecords, GivenDays DEF Drawn
<1>. HIDE DEF gross, bps
<1>8. gross \in Nat
  BY <1>3, CardAssumption
<1>9. HonestTax(gross) \in Int /\ SkewedFee(gross, bps) \in Int
  BY <1>3, <1>8, HonestType, SkewShows
<1>10. fees[l].within = Within((SkewedFee(gross, bps) + HonestTax(gross))
                                  - (HonestFee(gross) + HonestTax(gross)))
  BY <1>3, <1>6, <1>7, <1>9, VerdictOfCard
<1>11. ~ fees[l].within
  BY <1>3, <1>8, <1>10, SkewShows
<1>. QED
  BY <1>1, <1>11 DEF Alarms, FeeItems

\* A payment without a credit is in a group without one, or T3 has found one.
LEMMA UnpaidIsRaised ==
    ASSUME NEW p, Classifiable(p), NEW l \in PlannedLines(p),
           DefectOf(p, l) = "missing_in_bank"
    PROVE  <<DefectOf(p, l), l>> \in Alarms \/ Inferred(l)
<1>0. Given(p)
  BY DEF Classifiable
<1>1. l \in Payments /\ ~ Late(l) /\ l \in Lines
  BY <1>0, GivenPayments, GivenDays DEF PlannedLines, IsStray, StrayDefects
<1>2. LinePayId(p, l) # NoKey
  <2>1. Owner(l) \in Orders
    BY <1>1, LineIds
  <2>. QED
    BY <2>1, PlanAssumption DEF LinePayId, IsStray, StrayDefects
<1>3. /\ OwnOrderTie(l)
      /\ \E g \in live : GroupOf(l) = {g} /\ l \in members[g]
  BY <1>2, GroupOfPayment DEF Classifiable
<1>4. PICK g \in live : GroupOf(l) = {g} /\ l \in members[g]
  BY <1>3
<1>5. batch.lineUtr[l] = NoKey
  <2>1. l \notin PaidLines(p)
    BY DEF PaidLines, Unpaid
  <2>. QED
    BY <1>0, <1>1, <2>1, GivenKeys
<1>6. CASE BankTie(l)
  <2>1. PICK b \in BanksIn(g) : TRUE
    BY <1>4, <1>6 DEF BankTie
  <2>2. l \in LinesIn(g)
    BY <1>1, <1>4 DEF LinesIn
  <2>3. grade[g] = "T3"
    BY <1>5, <2>1, <2>2, UnpaidIsInferred DEF Classifiable, Undivided
  <2>. QED
    BY <1>4, <2>3 DEF Inferred
<1>7. CASE ~ BankTie(l)
  <2>1. l \in WithOrder
    BY <1>1, <1>3, <1>7 DEF Unresolved, WithOrder
  <2>2. ~ AmbiguousUtr(batch.lineUtr[l])
    BY <1>5, NoKeyIsUndisputed DEF Classifiable, Typed
  <2>. QED
    BY <2>1, <2>2 DEF Alarms, LineItems
<1>. QED
  BY <1>6, <1>7

\* A drift of the amount, or a second part, shows beside the order.
LEMMA TieIsRaised ==
    ASSUME NEW p, Classifiable(p), NEW l \in PlannedLines(p),
           DefectOf(p, l) \in {"amount_mismatch", "partial_settlement"}
    PROVE  <<DefectOf(p, l), l>> \in Alarms
<1>. DEFINE o == Owner(l)
<1>0. Given(p) /\ Drawn(p)
  BY DEF Classifiable, Given
<1>1. l \in Lines /\ o \in Orders /\ p.defect[o] = DefectOf(p, l)
  BY LineIds DEF PlannedLines, DefectOf
<1>2. LinePayId(p, l) # NoKey
  BY <1>1, PlanAssumption DEF LinePayId, IsStray, StrayDefects
<1>3. PICK g \in live : /\ o \in members[g] /\ l \in PaymentLines(o)
                        /\ OwnLines(o, g) = PaymentLines(o)
  BY <1>2, GroupOfPayment DEF Classifiable
<1>. DEFINE t == <<o, g>>
<1>4. t \in Ties
  BY <1>1, <1>3 DEF Ties
<1>5. CASE DefectOf(p, l) = "partial_settlement"
  <2>1. PICK a, b \in Lines : a # b /\ PaymentLines(o) = {a, b}
    BY <1>0, <1>1, <1>5, LinesOfPayment
  <2>2. Cardinality(OwnLines(o, g)) > 1
    <3>1. IsFiniteSet({a}) /\ Cardinality({a}) = 1 /\ b \notin {a}
      BY <2>1, FS_Singleton
    <3>2. Cardinality({a} \cup {b}) = 1 + 1
      BY <3>1, FS_AddElement
    <3>3. OwnLines(o, g) = {a} \cup {b}
      BY <1>3, <2>1
    <3>. QED
      BY <3>2, <3>3
  <2>3. t \in {u \in Ties : Cardinality(OwnLines(u[1], u[2])) > 1}
    BY <1>4, <2>2
  <2>4. <<"partial_settlement", l>> \in {<<"partial_settlement", k>> : k \in OwnLines(t[1], t[2])}
    BY <1>3
  <2>. QED
    BY <1>5, <2>3, <2>4 DEF Alarms, TieItems
<1>6. CASE DefectOf(p, l) = "amount_mismatch"
  <2>1. OwnLines(o, g) = {l}
    <3>1. \A k \in PaymentLines(o) : k = l
      BY <1>0, <1>1, <1>3, <1>6, LinesOfPayment
    <3>. QED
      BY <1>3, <3>1
  <2>2. /\ p.gross[o] \in Int /\ p.extra[o] \in Int /\ Magnitude(p.extra[o]) > Tolerance
    BY <1>0, <1>1, <1>6, CardAssumption DEF Drawn, DrawnFor
  <2>3. batch.gross[l] = p.gross[o] + p.extra[o] /\ batch.gross[o] = p.gross[o]
    <3>1. LineGross(p, l) = p.gross[o] + p.extra[o]
      BY <1>6 DEF LineGross, IsStray, StrayDefects
    <3>. QED
      BY <1>0, <1>1, <3>1, GivenRecords
  <2>4. GrossGap(o, g) = Magnitude(batch.gross[o] - batch.gross[l])
    <3>1. batch.gross[l] \in Int
      BY <2>2, <2>3
    <3>2. [k \in OwnLines(o, g) |-> batch.gross[k]] = [k \in {l} |-> batch.gross[l]]
      BY <2>1
    <3>3. SumFunction([k \in {l} |-> batch.gross[l]]) = batch.gross[l]
      BY <3>1, SumOfOne
    <3>. QED
      BY <3>2, <3>3 DEF GrossGap
  <2>5. GrossGap(o, g) > Tolerance
    <3>1. batch.gross[o] - batch.gross[l] = -p.extra[o]
      BY <2>2, <2>3
    <3>2. Magnitude(-p.extra[o]) = Magnitude(p.extra[o])
      BY <2>2 DEF Magnitude
    <3>. QED
      BY <2>2, <2>4, <3>1, <3>2
  <2>6. Min(OwnLines(o, g)) = l
    <3>1. IsFiniteSet({l}) /\ {l} \subseteq Nat
      BY <1>1, LineIds, FS_Singleton
    <3>. QED
      BY <2>1, <3>1, MinIsSmallest
  <2>7. t \in {u \in Ties : GrossGap(u[1], u[2]) > Tolerance} /\ Min(OwnLines(t[1], t[2])) = l
    BY <1>4, <2>5, <2>6
  <2>. QED
    BY <1>6, <2>7 DEF Alarms, TieItems
<1>. QED
  BY <1>5, <1>6

\* A payment that the gateway has not seen brings its order into no group.
LEMMA UnseenIsRaised ==
    ASSUME NEW p, Classifiable(p), NEW o \in Orders, p.defect[o] = "missing_in_gateway"
    PROVE  <<"missing_in_gateway", o>> \in Alarms
<1>0. Given(p)
  BY DEF Classifiable
<1>1. batch.orderPid[o] = o /\ o \in Present(Orders)
  BY <1>0, GivenKeys, GivenPresence DEF Present
<1>2. PaymentLines(o) = {}
  <2>. SUFFICES ASSUME NEW l \in PaymentLines(o) PROVE FALSE
    OBVIOUS
  <2>1. l \in PlannedLines(p) /\ DefectOf(p, l) = "missing_in_gateway"
    BY <1>0, LinesOfPayment DEF DefectOf
  <2>. QED
    BY <2>1 DEF PlannedLines, StrayDefects
<1>3. \A g \in live : o \notin members[g]
  BY <1>1, <1>2 DEF Classifiable, Formed, Accompanied, Typed, TypeOK
<1>4. o \notin Grouped(Orders)
  BY <1>3 DEF Grouped, Holders
<1>. QED
  BY <1>1, <1>4 DEF Alarms, OrderItems

\* A credit whose UTR is another day's shares it with the credit of that day.
LEMMA VictimIsDisputed ==
    ASSUME NEW p, Classifiable(p), NEW d \in Victims(p)
    PROVE  /\ DayCredit(d) \in Present(Banks) /\ AmbiguousUtr(batch.bankUtr[DayCredit(d)])
           /\ ~ \E u \in Utrs : BanksOfUtr(u) = {DayCredit(d)}
<1>0. Given(p) /\ Drawn(p)
  BY DEF Classifiable, Given
<1>. DEFINE e == DayUtr(p, d)
<1>1. d \in Days(p) /\ e \in Days(p) \ Victims(p) /\ e # d
  <2>1. PICK i \in VictimIndices(p) : TRUE
    BY DEF Victims
  <2>2. Days(p) # {}
    BY <1>0, <2>1, VictimsApart, FS_EmptySet
  <2>3. d \in Days(p)
    BY <1>0, <2>2, DayUtrs
  <2>. QED
    BY <1>0, <2>3, DayUtrs
<1>2. DayUtr(p, e) = e
  BY <1>0, <1>1, DayUtrs
<1>3. /\ DayCredit(d) \in Banks /\ DayCredit(e) \in Banks
      /\ batch.bankUtr[DayCredit(d)] = e /\ batch.bankUtr[DayCredit(e)] = e
  BY <1>0, <1>1, <1>2, GivenKeys
<1>. HIDE DEF e
<1>4. DayCredit(d) # DayCredit(e)
  <2>1. d \in Nat /\ e \in Nat
    BY <1>0, <1>1, DaysOfPlan
  <2>. QED
    BY <1>1, <2>1 DEF DayCredit
<1>5. e \in Utrs /\ LinesOfUtr(e) # {}
  BY <1>0, <1>1, LinesOfDay DEF Classifiable, Typed
<1>6. AmbiguousUtr(e)
  BY <1>3, <1>4, <1>5 DEF Classifiable, Disputed
<1>7. DayCredit(d) \in Present(Banks)
  BY <1>0, <1>1, <1>3, GivenPresence DEF Present
<1>. QED
  BY <1>3, <1>4, <1>6, <1>7 DEF BanksOfUtr

LEMMA VictimIsRaised ==
    ASSUME NEW p, Classifiable(p), NEW d \in Victims(p)
    PROVE  <<"duplicate_utr", DayCredit(d)>> \in Alarms \/ Inferred(DayCredit(d))
<1>1. CASE DayCredit(d) \in Grouped(Banks)
  BY <1>1, VictimIsDisputed, UnmatchedIsInferred DEF Classifiable, Inferred, Present
<1>2. CASE DayCredit(d) \notin Grouped(Banks)
  BY <1>2, VictimIsDisputed DEF Alarms, BankItems
<1>. QED
  BY <1>1, <1>2

\* A credit that pays nothing bears no UTR.
LEMMA OrphanHasNoUtr ==
    ASSUME NEW p, Given(p), NEW o \in Orphaned(p)
    PROVE  LET b == OrphanCredit(OrphanRank(p, o))
           IN b \in Present(Banks) /\ batch.bankUtr[b] = NoKey
<1>. DEFINE k == OrphanRank(p, o)
            b == OrphanCredit(k)
<1>1. b \in Banks /\ b \in Present(Banks)
  BY GivenPresence DEF Given, Drawn, Present
<1>2. k \in Nat
  <2>1. {q \in Orphaned(p) : q < o} \subseteq Entities
    BY DEF Orphaned, Entities
  <2>2. IsFiniteSet({q \in Orphaned(p) : q < o})
    BY <2>1, EntityAssumption, FS_Subset
  <2>. QED
    BY <2>2, FS_CardinalityType DEF OrphanRank
<1>. HIDE DEF k
<1>3. ASSUME NEW d \in Days(p), b = DayCredit(d) PROVE FALSE
  <2>1. d \in Nat /\ DayCredit(d) < OrphanCredit(0)
    BY DaysOfPlan DEF Given, Drawn
  <2>. QED
    BY <1>2, <1>3, <2>1 DEF DayCredit, OrphanCredit
<1>4. batch.bankUtr[b] = NoKey
  BY <1>1, <1>3, GivenKeys
<1>. QED
  BY <1>1, <1>4 DEF k

LEMMA OrphanIsRaised ==
    ASSUME NEW p, Classifiable(p), NEW o \in Orphaned(p)
    PROVE  \/ <<p.defect[o], OrphanCredit(OrphanRank(p, o))>> \in Alarms
           \/ Inferred(OrphanCredit(OrphanRank(p, o)))
<1>. DEFINE b == OrphanCredit(OrphanRank(p, o))
<1>1. b \in Present(Banks) /\ b \in Banks /\ batch.bankUtr[b] = NoKey
  BY OrphanHasNoUtr DEF Classifiable, Present
<1>2. p.defect[o] = "orphan_bank_credit"
  BY DEF Orphaned
<1>. HIDE DEF b
<1>3. ~ \E u \in Utrs : BanksOfUtr(u) = {b}
  BY <1>1, KeyAssumption DEF BanksOfUtr
<1>4. CASE b \in Grouped(Banks)
  BY <1>1, <1>3, <1>4, UnmatchedIsInferred DEF Classifiable, Inferred, b
<1>5. CASE b \notin Grouped(Banks)
  <2>1. ~ AmbiguousUtr(batch.bankUtr[b])
    BY <1>1, NoKeyIsUndisputed DEF Classifiable, Typed
  <2>. QED
    BY <1>1, <1>2, <1>5, <2>1 DEF Alarms, BankItems, b
<1>. QED
  BY <1>4, <1>5

LEMMA NoneIsMissed ==
    ASSUME NEW p, Classifiable(p), NEW m \in facts.manifest, m \notin Alarms
    PROVE  Inferred(m[2])
<1>0. m \in Manifest(p) /\ Given(p)
  BY GivenRecords DEF Classifiable
<1>1. ASSUME NEW l \in PlannedLines(p), m = <<DefectOf(p, l), l>>,
             \/ DefectOf(p, l) \in Unpaid \cup {"amount_mismatch", "fee_variance",
                                        "partial_settlement", "ambiguous_multi_candidate"}
             \/ IsStray(p, l)
      PROVE  Inferred(m[2])
  BY <1>0, <1>1, StrayIsRaised, LateIsRaised, UntiedIsRaised, SkewIsRaised, UnpaidIsRaised,
     TieIsRaised DEF Unpaid
<1>2. ASSUME NEW o \in Orders, p.defect[o] = "missing_in_gateway", m = <<p.defect[o], o>>
      PROVE  Inferred(m[2])
  BY <1>2, UnseenIsRaised
<1>3. ASSUME NEW d \in Victims(p), m = <<"duplicate_utr", DayCredit(d)>>
      PROVE  Inferred(m[2])
  BY <1>3, VictimIsRaised
<1>4. ASSUME NEW o \in Orphaned(p), m = <<p.defect[o], OrphanCredit(OrphanRank(p, o))>>
      PROVE  Inferred(m[2])
  BY <1>4, OrphanIsRaised
<1>. QED
  BY <1>0, <1>1, <1>2, <1>3, <1>4, ManifestOfPlan

(***************************************************************************)
(* Every alarm has a cause.                                                *)
(***************************************************************************)

\* The lines that the author has noted a defect of.
NotedLines(p) ==
    {l \in PlannedLines(p) :
        \/ DefectOf(p, l) \in Unpaid \cup {"amount_mismatch", "fee_variance",
                                  "partial_settlement", "ambiguous_multi_candidate"}
        \/ IsStray(p, l)}

LEMMA NotedIsCause ==
    ASSUME NEW p, Given(p), NEW l \in NotedLines(p)
    PROVE  l \in Entities /\ Doubtful(l)
<1>1. l \in Lines
  BY DEF NotedLines, PlannedLines
<1>2. <<DefectOf(p, l), l>> \in Manifest(p)
  BY DEF NotedLines, Manifest
<1>. QED
  BY <1>1, <1>2, GivenRecords DEF Doubtful, Entities

\* A line without a note is the honest record of its order.
LEMMA CleanLine ==
    ASSUME NEW p, Given(p), NEW l \in PlannedLines(p), l \notin NotedLines(p)
    PROVE  /\ Owner(l) \in Orders /\ p.defect[Owner(l)] # "partial_settlement"
           /\ LinePayId(p, l) = Owner(l) /\ Owner(l) # NoKey
           /\ l \in Payments /\ ~ Late(l)
           /\ l \in PaidLines(p)
           /\ LineGross(p, l) = p.gross[Owner(l)]
           /\ LineFee(p, l) = HonestFee(p.gross[Owner(l)])
           /\ LineTax(p, l) = HonestTax(p.gross[Owner(l)])
<1>1. /\ ~ IsStray(p, l)
      /\ DefectOf(p, l) \notin {"missing_in_bank", "period_boundary_timing", "amount_mismatch",
                                "fee_variance", "partial_settlement", "ambiguous_multi_candidate"}
  BY DEF NotedLines, Unpaid
<1>2. l \in Lines /\ Owner(l) \in Orders /\ Owner(l) # NoKey
  BY LineIds, PlanAssumption DEF PlannedLines
<1>3. LinePayId(p, l) = Owner(l) /\ LineGross(p, l) = p.gross[Owner(l)]
  BY <1>1 DEF LinePayId, LineGross
<1>4. l \in PaidLines(p)
  BY <1>1 DEF PaidLines, Unpaid
<1>5. l \in Payments /\ ~ Late(l)
  BY <1>1, <1>2, GivenPayments, GivenDays
<1>6. LineFee(p, l) = HonestFee(LineGross(p, l)) /\ LineTax(p, l) = HonestTax(LineGross(p, l))
  BY <1>1 DEF LineFee, LineTax
<1>. QED
  BY <1>1, <1>2, <1>3, <1>4, <1>5, <1>6 DEF DefectOf

\* A credit that is in no group with the lines it pays has a wrong UTR, or one
\* in dispute.
LEMMA SplitDayIsDoubtful ==
    ASSUME NEW p, Classifiable(p), NEW d \in Days(p),
           ~ \E g \in live : DayCredit(d) \in members[g] /\ Pending(p, d) \subseteq members[g]
    PROVE  DayCredit(d) \in Entities /\ Doubtful(DayCredit(d))
<1>0. Given(p)
  BY DEF Classifiable
<1>1. DayCredit(d) \in Banks
  BY <1>0, GivenKeys
<1>2. CASE d \in Victims(p)
  <2>1. <<"duplicate_utr", DayCredit(d)>> \in Manifest(p)
    BY <1>2 DEF Manifest
  <2>. QED
    BY <1>0, <1>1, <2>1, GivenRecords DEF Doubtful, Entities
<1>3. CASE d \notin Victims(p)
  <2>1. AmbiguousUtr(batch.bankUtr[DayCredit(d)])
    BY <1>0, <1>3, GroupOfCredit DEF Classifiable
  <2>. QED
    BY <1>1, <2>1 DEF Doubtful, Entities
<1>. QED
  BY <1>2, <1>3

\* An alarm about a line: the line is noted, or its credit is doubtful.
LEMMA LineAlarmIsCaused ==
    ASSUME NEW p, Classifiable(p), NEW i \in LineItems
    PROVE  Caused(i)
<1>0. Given(p)
  BY DEF Classifiable
<1>1. PICK l \in Present(Lines) :
          /\ i[2] = l
          /\ l \in Payments /\ ~ Late(l) => l \in Unresolved
  BY DEF LineItems, WithOrder, Unresolved, Payments
<1>2. l \in Lines /\ l \in PlannedLines(p)
  BY <1>0, GivenPayments DEF Present
<1>3. CASE l \in NotedLines(p)
  BY <1>0, <1>1, <1>3, NotedIsCause DEF Caused
<1>4. CASE l \notin NotedLines(p)
  <2>1. /\ LinePayId(p, l) # NoKey /\ l \in PaidLines(p) /\ l \in Unresolved
    BY <1>0, <1>1, <1>2, <1>4, CleanLine
  <2>2. /\ OwnOrderTie(l)
        /\ \E g \in live : GroupOf(l) = {g} /\ l \in members[g]
    BY <1>2, <2>1, GroupOfPayment DEF Classifiable
  <2>3. ~ BankTie(l)
    BY <2>1, <2>2 DEF Unresolved
  <2>. DEFINE d == LineDay(p, l)
              b == DayCredit(d)
  <2>4. d \in Days(p) /\ l \in Pending(p, d)
    BY <2>1 DEF Days, Pending
  <2>. HIDE DEF d
  <2>5. ASSUME NEW g \in live, b \in members[g], Pending(p, d) \subseteq members[g]
        PROVE  FALSE
    <3>1. PICK h \in live : GroupOf(l) = {h} /\ l \in members[h]
      BY <2>2
    <3>2. g = h
      BY <2>4, <2>5, <3>1 DEF Classifiable, Whole, NoSharedMember
    <3>3. b \in BanksIn(g)
      BY <1>0, <2>4, <2>5, GivenKeys DEF BanksIn
    <3>. QED
      BY <2>3, <3>1, <3>2, <3>3 DEF BankTie
  <2>6. b \in Entities /\ Doubtful(b)
    BY <2>4, <2>5, SplitDayIsDoubtful
  <2>7. {b, l} \in facts.truth
    <3>1. {l, b} \in TrueLinks(p)
      BY <2>4 DEF TrueLinks
    <3>2. {l, b} = {b, l}
      OBVIOUS
    <3>. QED
      BY <1>0, <3>1, <3>2, GivenRecords
  <2>. QED
    BY <1>1, <2>6, <2>7 DEF Caused
<1>. QED
  BY <1>3, <1>4

LEMMA BankAlarmIsCaused ==
    ASSUME NEW p, Classifiable(p), NEW i \in BankItems
    PROVE  Caused(i)
<1>0. Given(p)
  BY DEF Classifiable
<1>1. PICK b \in Present(Banks) \ Grouped(Banks) : i[2] = b
  BY DEF BankItems
<1>2. \A g \in live : b \notin members[g]
  BY <1>1 DEF Grouped, Holders
<1>3. CASE \E d \in Days(p) : b = DayCredit(d)
  BY <1>1, <1>2, <1>3, SplitDayIsDoubtful DEF Caused
<1>4. CASE \E o \in Orphaned(p) : b = OrphanCredit(OrphanRank(p, o))
  <2>1. PICK o \in Orphaned(p) : b = OrphanCredit(OrphanRank(p, o))
    BY <1>4
  <2>2. <<p.defect[o], b>> \in Manifest(p)
    BY <2>1 DEF Manifest
  <2>3. b \in Entities /\ Doubtful(b)
    BY <1>0, <1>1, <2>2, GivenRecords DEF Doubtful, Entities, Present
  <2>. QED
    BY <1>1, <2>3 DEF Caused
<1>. QED
  BY <1>0, <1>1, <1>3, <1>4, GivenPresence DEF Present

\* An order that no group holds has no line, or one without its payment id.
LEMMA OrderAlarmIsCaused ==
    ASSUME NEW p, Classifiable(p), NEW i \in OrderItems
    PROVE  Caused(i)
<1>0. Given(p)
  BY DEF Classifiable
<1>1. PICK o \in Present(Orders) \ Grouped(Orders) : i[2] = o
  BY DEF OrderItems
<1>2. o \in Orders /\ \A g \in live : o \notin members[g]
  BY <1>1 DEF Grouped, Holders, Present
<1>3. PaymentLines(o) = {}
  <2>. SUFFICES ASSUME NEW l \in PaymentLines(o) PROVE FALSE
    OBVIOUS
  <2>1. l \in PlannedLines(p) /\ LinePayId(p, l) = o /\ Owner(l) = o
    BY <1>0, <1>2, LinesOfPayment
  <2>. QED
    BY <1>2, <2>1, GroupOfPayment, PlanAssumption DEF Classifiable
<1>. DEFINE l == 10 * o
<1>4. o \in Nat
  BY <1>2, EntityAssumption DEF Entities
<1>5. l \in Lines
  BY <1>2, PlanAssumption
<1>6. Owner(l) = o /\ ~ IsSecond(l)
  BY <1>4 DEF Owner, IsSecond
<1>. HIDE DEF l
<1>7. CASE p.defect[o] = "missing_in_gateway"
  <2>1. <<p.defect[o], o>> \in Manifest(p)
    BY <1>2, <1>7 DEF Manifest
  <2>2. o \in Entities /\ Doubtful(o)
    BY <1>0, <1>2, <2>1, GivenRecords DEF Doubtful, Entities
  <2>. QED
    BY <1>1, <2>2 DEF Caused
<1>8. CASE p.defect[o] # "missing_in_gateway"
  <2>1. l \in PlannedLines(p) /\ ~ IsStray(p, l)
    BY <1>5, <1>6, <1>8 DEF PlannedLines, DefectOf, IsStray
  <2>2. LinePayId(p, l) # o
    BY <1>0, <1>2, <1>3, <2>1, LinesOfPayment
  <2>3. DefectOf(p, l) = "ambiguous_multi_candidate"
    BY <1>6, <2>1, <2>2 DEF LinePayId
  <2>4. l \in Entities /\ Doubtful(l)
    BY <1>0, <2>1, <2>3, NotedIsCause DEF NotedLines
  <2>5. {l, o} \in facts.truth
    <3>1. {Owner(l), l} \in TrueLinks(p)
      BY <2>1 DEF TrueLinks
    <3>2. {Owner(l), l} = {l, o}
      BY <1>6
    <3>. QED
      BY <1>0, <3>1, <3>2, GivenRecords
  <2>. QED
    BY <1>1, <2>4, <2>5 DEF Caused
<1>. QED
  BY <1>7, <1>8

LEMMA FeeAlarmIsCaused ==
    ASSUME NEW p, Classifiable(p), NEW i \in FeeItems
    PROVE  Caused(i)
<1>0. Given(p) /\ Drawn(p)
  BY DEF Classifiable, Given
<1>1. PICK l \in Payments : i[2] = l /\ ~ fees[l].within
  BY DEF FeeItems
<1>2. l \in Lines /\ l \in PlannedLines(p)
  BY <1>0, GivenPayments DEF Payments, Present
<1>3. CASE l \in NotedLines(p)
  BY <1>0, <1>1, <1>3, NotedIsCause DEF Caused
<1>4. CASE l \notin NotedLines(p)
  <2>. DEFINE gross == p.gross[Owner(l)]
  <2>1. /\ Owner(l) \in Orders
        /\ LineGross(p, l) = gross /\ LineFee(p, l) = HonestFee(gross)
        /\ LineTax(p, l) = HonestTax(gross)
    BY <1>0, <1>2, <1>4, CleanLine
  <2>2. gross \in 0..CardLimit
    BY <1>0, <2>1 DEF Drawn, DrawnFor
  <2>3. fees[l] = Verdict(default_rate_card(facts.start), facts.instrument[l], gross,
                          HonestFee(gross), HonestTax(gross), LineDay(p, l))
    BY <1>0, <1>1, <1>2, <2>1, GivenRecords DEF Classifiable, Verdicts
  <2>4. /\ facts.start \in Nat /\ facts.instrument[l] \in Instruments
        /\ LineDay(p, l) \in Nat /\ facts.start <= LineDay(p, l)
    BY <1>0, <1>2, GivenRecords, GivenDays DEF Drawn
  <2>. HIDE DEF gross
  <2>5. gross \in Nat
    BY <2>2, CardAssumption
  <2>6. HonestFee(gross) \in Int /\ HonestTax(gross) \in Int
    BY <2>5, HonestType
  <2>7. fees[l].within
    BY <2>2, <2>3, <2>4, <2>5, <2>6, VerdictOfCard, HonestIsWithin
  <2>. QED
    BY <1>1, <2>7
<1>. QED
  BY <1>3, <1>4

LEMMA TieAlarmIsCaused ==
    ASSUME NEW p, Classifiable(p), NEW i \in TieItems
    PROVE  Caused(i)
<1>0. Given(p) /\ Drawn(p)
  BY DEF Classifiable, Given
<1>1. PICK t \in Ties :
          /\ i[2] \in OwnLines(t[1], t[2])
          /\ \/ GrossGap(t[1], t[2]) > Tolerance
             \/ Cardinality(OwnLines(t[1], t[2])) > 1
  <2>1. \A t \in Ties : Min(OwnLines(t[1], t[2])) \in OwnLines(t[1], t[2])
    <3>. SUFFICES ASSUME NEW t \in Ties PROVE Min(OwnLines(t[1], t[2])) \in OwnLines(t[1], t[2])
      OBVIOUS
    <3>1. OwnLines(t[1], t[2]) # {} /\ OwnLines(t[1], t[2]) \subseteq Lines
      BY DEF Ties, OwnLines, LinesIn
    <3>2. IsFiniteSet(OwnLines(t[1], t[2])) /\ OwnLines(t[1], t[2]) \subseteq Nat
      BY <3>1, EntityAssumption, FS_Subset DEF Entities
    <3>. QED
      BY <3>1, <3>2, MinIsSmallest
  <2>. QED
    BY <2>1 DEF TieItems
<1>. DEFINE o == t[1]
            g == t[2]
            l == i[2]
<1>2. o \in Orders /\ l \in OwnLines(o, g)
  BY <1>1 DEF Ties
<1>3. OwnLines(o, g) \subseteq PaymentLines(o)
  <2>. SUFFICES ASSUME NEW k \in OwnLines(o, g) PROVE k \in PaymentLines(o)
    OBVIOUS
  <2>1. k \in Lines /\ facts.payId[k] = batch.orderPid[o] /\ batch.orderPid[o] = o
    BY <1>0, <1>2, GivenKeys DEF OwnLines, LinesIn
  <2>2. batch.linePid[k] = o
    BY <1>0, <2>1, GivenKeys
  <2>. QED
    BY <2>1, <2>2 DEF PaymentLines
<1>4. l \in PlannedLines(p) /\ Owner(l) = o /\ l \in Lines
  BY <1>0, <1>2, <1>3, LinesOfPayment DEF PaymentLines
<1>5. CASE l \in NotedLines(p)
  BY <1>0, <1>5, NotedIsCause DEF Caused
<1>6. CASE l \notin NotedLines(p)
  <2>1. /\ p.defect[o] # "partial_settlement" /\ LineGross(p, l) = p.gross[o]
    BY <1>0, <1>4, <1>6, CleanLine
  <2>2. OwnLines(o, g) = {l}
    <3>1. \A k \in PaymentLines(o) : k = l
      BY <1>0, <1>2, <1>3, <2>1, LinesOfPayment
    <3>. QED
      BY <1>2, <1>3, <3>1
  <2>. HIDE DEF l
  <2>3. Cardinality(OwnLines(o, g)) = 1
    BY <2>2, FS_Singleton
  <2>4. batch.gross[o] = p.gross[o] /\ batch.gross[l] = p.gross[o] /\ p.gross[o] \in Int
    BY <1>0, <1>2, <1>4, <2>1, GivenRecords, CardAssumption DEF Drawn, DrawnFor
  <2>5. GrossGap(o, g) = 0
    <3>1. [k \in OwnLines(o, g) |-> batch.gross[k]] = [k \in {l} |-> p.gross[o]]
      BY <2>2, <2>4
    <3>2. SumFunction([k \in {l} |-> p.gross[o]]) = p.gross[o]
      BY <2>4, SumOfOne
    <3>. QED
      BY <2>4, <3>1, <3>2 DEF GrossGap, Magnitude
  <2>. QED
    BY <1>1, <2>3, <2>5, ToleranceAssumption
<1>. QED
  BY <1>5, <1>6

LEMMA EachIsCaused ==
    ASSUME NEW p, Classifiable(p), NEW i \in Alarms
    PROVE  Caused(i)
  BY LineAlarmIsCaused, BankAlarmIsCaused, OrderAlarmIsCaused, FeeAlarmIsCaused,
     TieAlarmIsCaused DEF Alarms

(***************************************************************************)
(* The accuracy of a run.                                                  *)
(***************************************************************************)

\* The verdicts are there when the batch is classified, and then, unless a
\* payment is divided, what is missed is hidden by an inference and what is
\* raised has a cause.
Verified == stage = "CLASSIFY_EXCEPTIONS" => Verdicts

Accurate ==
    /\ stage \in {"PERSIST", "COMMIT", "METRICS", "AWAIT_REVIEW"}
    /\ facts.authored /\ Undivided
    => (\A m \in Missed : Inferred(m[2])) /\ (\A i \in items : Caused(i))

LEMMA ExactInit == ReconcileInit => Verified /\ Accurate
  BY DEF ReconcileInit, Verified, Accurate

LEMMA NextVerified == Verified /\ [ReconcileNext]_<<vars, pipeline>> => Verified'
<1>. SUFFICES ASSUME Verified, [ReconcileNext]_<<vars, pipeline>>, stage' = "CLASSIFY_EXCEPTIONS"
              PROVE  Verdicts'
  BY DEF Verified
<1>1. CASE VerifyFees
  <2>1. /\ UNCHANGED <<batch, facts>>
        /\ fees' = [l \in Lines |->
                      IF l \notin Payments THEN NotVerified
                      ELSE Verdict(default_rate_card(facts.start), facts.instrument[l],
                                   batch.gross[l], facts.fee[l], facts.tax[l],
                                   batch.settledOn[l])]
    BY <1>1 DEF VerifyFees, vars
  <2>2. Payments' = Payments /\ Payments \subseteq Lines
    BY <2>1 DEF Payments, Present
  <2>. QED
    BY <2>1, <2>2 DEF Verdicts
<1>2. CASE Finished \/ UNCHANGED <<vars, pipeline>>
  <2>1. stage = "CLASSIFY_EXCEPTIONS" /\ UNCHANGED <<batch, facts, fees>>
    BY <1>2 DEF Finished, vars, pipeline
  <2>2. Payments' = Payments
    BY <2>1 DEF Payments, Present
  <2>. QED
    BY <2>1, <2>2 DEF Verified, Verdicts
<1>. QED
  BY <1>1, <1>2 DEF ReconcileNext, Match, pipeline, Classify, PersistGroups, PersistRefused,
                    Commit, CommitRefused, Measure

\* What the accuracy reads stays as it is from the classifier on.
LEMMA SameAccuracy ==
    ASSUME UNCHANGED <<vars, facts>>
    PROVE  /\ Undivided' = Undivided
           /\ \A e : Inferred(e)' = Inferred(e)
           /\ \A i : Caused(i)' = Caused(i)
<1>1. UNCHANGED <<batch, tie, live, grade, members, refused>>
  BY DEF vars
<1>2. \A e : Doubtful(e)' = Doubtful(e)
  BY <1>1 DEF Doubtful, AmbiguousUtr
<1>3. \A i : Caused(i)' = Caused(i)
  BY <1>2 DEF Caused
<1>4. \A e : Inferred(e)' = Inferred(e)
  BY <1>1 DEF Inferred
<1>5. Undivided' = Undivided
  BY <1>1, SameDivision
<1>. QED
  BY <1>3, <1>4, <1>5

LEMMA NextAccurate ==
    /\ Typed /\ Evidenced /\ Formed /\ Whole /\ Paired /\ Disputed /\ Agreeing
    /\ Kept /\ Verified /\ Accurate /\ [ReconcileNext]_<<vars, pipeline>>
    => Accurate'
<1>. SUFFICES ASSUME Typed, Evidenced, Formed, Whole, Paired, Disputed, Agreeing,
                     Kept, Verified, Accurate, [ReconcileNext]_<<vars, pipeline>>
              PROVE  Accurate'
  OBVIOUS
<1>1. ASSUME stage' \notin {"PERSIST", "COMMIT", "METRICS", "AWAIT_REVIEW"} PROVE Accurate'
  BY <1>1 DEF Accurate
<1>2. ASSUME stage \in {"PERSIST", "COMMIT", "METRICS", "AWAIT_REVIEW"},
             UNCHANGED <<vars, facts, items>>
      PROVE  Accurate'
  BY <1>2, SameAccuracy DEF Accurate, Missed
<1>3. CASE Match \/ VerifyFees \/ PersistRefused \/ CommitRefused
  BY <1>1, <1>3 DEF Match, pipeline, VerifyFees, PersistRefused, CommitRefused
<1>4. CASE Classify
  <2>1. /\ stage = "CLASSIFY_EXCEPTIONS" /\ items' = Alarms /\ UNCHANGED <<vars, facts>>
    BY <1>4 DEF Classify, Alarms
  <2>. SUFFICES ASSUME facts.authored, Undivided
                PROVE  /\ \A m \in facts.manifest \ Alarms : Inferred(m[2])
                       /\ \A i \in Alarms : Caused(i)
    BY <2>1, SameAccuracy DEF Accurate, Missed
  <2>2. PICK p \in Plans : Given(p)
    BY AuthoredIsGenerated DEF Kept
  <2>3. Classifiable(p)
    BY <2>1, <2>2 DEF Classifiable, Verified, Kept, Staged
  <2>. QED
    BY <2>3, NoneIsMissed, EachIsCaused
<1>5. CASE PersistGroups \/ Commit \/ Measure
  BY <1>2, <1>5 DEF PersistGroups, Commit, Measure
<1>6. CASE Finished \/ UNCHANGED <<vars, pipeline>>
  <2>1. UNCHANGED <<vars, pipeline>>
    BY <1>6 DEF Finished
  <2>2. stage' = stage /\ UNCHANGED <<vars, facts, items>>
    BY <2>1 DEF pipeline
  <2>. QED
    BY <1>1, <1>2, <2>2
<1>. QED
  BY <1>3, <1>4, <1>5, <1>6 DEF ReconcileNext

Exact ==
    /\ Typed /\ Evidenced /\ Formed /\ Whole /\ Paired /\ Disputed /\ Agreeing
    /\ Kept /\ Verified /\ Accurate

LEMMA ExactInvariant == ReconcileSpec => []Exact
<1>1. ReconcileInit => Exact
  BY PipelineInit, TypedInit, EvidencedInit, FormedInit, WholeInit, PairedInit, DisputedInit,
     AgreeingInit, KeptInit, ExactInit DEF Exact
<1>2. Exact /\ [ReconcileNext]_<<vars, pipeline>> => Exact'
  BY PipelineStep, NextTyped, NextEvidenced, NextFormed, NextWhole, NextPaired, NextDisputed,
     NextAgreeing, NextKept, NextVerified, NextAccurate DEF Exact
<1>. QED
  BY <1>1, <1>2, PTL DEF ReconcileSpec

\* Where no credit is matched with some parts of a payment only, every defect of
\* a synthetic batch is detected, or its record was matched by the inference.
THEOREM DefectsDetected == ReconcileSpec => [](Together => MissedOnlyByInference)
<1>1. Exact => (Together => MissedOnlyByInference)
  <2>. SUFFICES ASSUME Exact, Together, Done, facts.authored
                PROVE  \A m \in Missed : Inferred(m[2])
    BY DEF MissedOnlyByInference, Inferred
  <2>1. Uniform
    BY AuthoredIsGenerated, GivenIsUniform DEF Exact, Kept
  <2>. QED
    BY <2>1 DEF Exact, Accurate, Undivided, Done
<1>. QED
  BY <1>1, ExactInvariant, PTL

\* There, too, no alarm is raised without a defect or a disputed UTR.
THEOREM AlarmsCaused == ReconcileSpec => [](Together => EveryAlarmHasCause)
<1>1. Exact => (Together => EveryAlarmHasCause)
  <2>. SUFFICES ASSUME Exact, Together, Done, facts.authored
                PROVE  \A i \in items : Caused(i)
    BY DEF EveryAlarmHasCause
  <2>1. Uniform
    BY AuthoredIsGenerated, GivenIsUniform DEF Exact, Kept
  <2>. QED
    BY <2>1 DEF Exact, Accurate, Undivided, Done
<1>. QED
  BY <1>1, ExactInvariant, PTL

=============================================================================
