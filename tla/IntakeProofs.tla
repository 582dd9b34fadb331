----------------------------- MODULE IntakeProofs -----------------------------
(***************************************************************************)
(* Proofs about the way of files into a run: for any files with any rows,  *)
(* any number of drops and of deliveries of the task.                      *)
(***************************************************************************)
EXTENDS Intake, FiniteSetTheorems, SequenceTheorems, WellFoundedInduction, TLAPS

(***************************************************************************)
(* Mapping and transform.                                                  *)
(***************************************************************************)

LEMMA SourceFields ==
    /\ Fields["orders"] =
          {"order_id", "invoice_no", "customer_ref", "gross", "currency", "payment_id",
           "order_status", "created_at"}
    /\ Fields["gateway_settlement"] =
          {"settlement_id", "payment_id", "order_ref", "line_type", "gross", "fee", "tax",
           "net", "instrument", "settled_on", "utr"}
    /\ Fields["bank_statement"] =
          {"value_date", "narration", "utr_extracted", "credit", "debit", "balance"}
    /\ Required["orders"] =
          {"order_id", "gross", "payment_id", "order_status", "created_at"}
    /\ Required["gateway_settlement"] =
          {"settlement_id", "line_type", "gross", "fee", "tax", "net", "settled_on"}
    /\ Required["bank_statement"] = {"value_date", "narration", "credit", "debit"}
  BY DEF Fields, Required, Sources

LEMMA RequiredFields == \A s \in Sources : Required[s] \subseteq Fields[s]
  BY SourceFields DEF Sources

\* A finite set of numbers has a greatest one: one with nothing above it.
LEMMA GreatestExists ==
    ASSUME NEW S, IsFiniteSet(S), S # {}
    PROVE  S \subseteq Nat => \E x \in S : \A y \in S : x >= y
<1>. SUFFICES ASSUME S \subseteq Nat PROVE \E x \in S : \A y \in S : x >= y
  OBVIOUS
<1>. DEFINE Beyond(x) == {y \in S : y > x}
            T == {Beyond(x) : x \in S}
            L == StrictSubsetOrdering(S)
<1>1. IsWellFoundedOn(L, SUBSET S)
  BY FS_StrictSubsetOrderingWellFounded, FS_FiniteSubsetsOfFinite
<1>2. T \subseteq SUBSET S /\ T # {}
  <2>1. PICK x \in S : TRUE
    OBVIOUS
  <2>2. Beyond(x) \in T
    BY <2>1
  <2>3. \A n \in T : n \subseteq S
    <3>1. \A z \in S : Beyond(z) \subseteq S
      OBVIOUS
    <3>. HIDE DEF Beyond
    <3>. QED
      BY <3>1
  <2>. QED
    BY <2>2, <2>3
<1>3. PICK m \in T : \A n \in T : <<n, m>> \notin L
  <2>. HIDE DEF T, L
  <2>. QED
    BY <1>1, <1>2, WFMin
<1>4. PICK x \in S : m = Beyond(x)
  BY <1>3
<1>5. ASSUME NEW y \in Beyond(x) PROVE FALSE
  <2>1. y \in S /\ y \in Nat /\ x \in Nat /\ y > x
    OBVIOUS
  <2>2. \A z \in S : z \in Nat
    OBVIOUS
  <2>3. Beyond(y) \subseteq Beyond(x) /\ y \notin Beyond(y)
    <3>1. ASSUME NEW z \in S, z > y PROVE z > x
      BY <2>1, <2>2, <3>1
    <3>2. ~ (y > y)
      BY <2>1
    <3>. QED
      BY <3>1, <3>2
  <2>4. <<Beyond(y), Beyond(x)>> \in L
    BY <2>1, <2>3 DEF StrictSubsetOrdering
  <2>. QED
    BY <1>3, <1>4, <2>1, <2>4
<1>6. ASSUME NEW y \in S PROVE x >= y
  <2>1. x \in Nat /\ y \in Nat /\ ~ (y > x)
    BY <1>5
  <2>. QED
    BY <2>1
<1>. QED
  BY <1>6

\* Max of FiniteSetsExt is the greatest element.
LEMMA MaxIsGreatest ==
    ASSUME NEW S, IsFiniteSet(S), S # {}
    PROVE  S \subseteq Nat => Max(S) \in S /\ \A x \in S : Max(S) >= x
  BY GreatestExists DEF Max

\* The columns of a file and its rows.
LEMMA FileFacts ==
    ASSUME NEW f \in Files
    PROVE  /\ SourceOf(f) \in Sources /\ SourceOf(f) = Content[f].source
           /\ Content[f].columns \in Seq(STRING \X {"exact", "synonym", "unknown"})
           /\ Content[f].rows \in Seq(Seq(Int))
           /\ \A i \in DOMAIN Content[f].rows :
                 Content[f].rows[i] \in Seq(Int) /\ Len(Content[f].rows[i]) = Len(Content[f].columns)
<1>1. /\ Content[f].source \in Sources
      /\ Content[f].columns \in Seq(STRING \X {"exact", "synonym", "unknown"})
      /\ Content[f].rows \in Seq(Seq(Int))
      /\ \A row \in Range(Content[f].rows) : Len(row) = Len(Content[f].columns)
  BY ContentAssumption DEF Files
<1>2. \A i \in DOMAIN Content[f].rows :
         Content[f].rows[i] \in Seq(Int) /\ Content[f].rows[i] \in Range(Content[f].rows)
  BY <1>1 DEF Range
<1>. QED
  BY <1>1, <1>2 DEF SourceOf

\* A field that is mapped is mapped to a column the file has.
LEMMA ColumnExists ==
    ASSUME NEW f \in Files, NEW x \in Range(Proposed(Content[f]))
    PROVE  ColumnOf(Content[f], x) \in 1..Len(Content[f].columns)
<1>. DEFINE C == Content[f].columns
            P == Proposed(Content[f])
            S == {i \in DOMAIN P : P[i] = x}
<1>1. DOMAIN P \subseteq 1..Len(C)
  BY FileFacts DEF Proposed
<1>2. S # {}
  BY DEF Range
<1>3. Len(C) \in Nat
  BY FileFacts
<1>4. IsFiniteSet(S) /\ S \subseteq Nat /\ S \subseteq 1..Len(C)
  <2>. HIDE DEF P, C
  <2>1. IsFiniteSet(1..Len(C))
    BY <1>3, FS_Interval
  <2>2. S \subseteq 1..Len(C)
    BY <1>1
  <2>3. 1..Len(C) \subseteq Nat
    BY <1>3
  <2>4. IsFiniteSet(S)
    BY <2>1, <2>2, FS_Subset
  <2>. QED
    BY <2>2, <2>3, <2>4
<1>. HIDE DEF S
<1>5. Max(S) \in S
  BY <1>2, <1>4, MaxIsGreatest
<1>6. ColumnOf(Content[f], x) = Max(S)
  BY DEF ColumnOf, S
<1>. QED
  BY <1>4, <1>5, <1>6

\* A mapped row is a record of its source.
LEMMA RowTyped ==
    ASSUME NEW f \in Files, NEW i \in DOMAIN Content[f].rows
    PROVE  Mapped(Content[f], Content[f].rows[i]) \in [Fields[SourceOf(f)] -> Int]
<1>. DEFINE row == Content[f].rows[i]
<1>1. row \in Seq(Int) /\ Len(row) = Len(Content[f].columns)
  BY FileFacts
<1>2. \A x \in Range(Proposed(Content[f])) : row[ColumnOf(Content[f], x)] \in Int
  <2>1. \A k \in 1..Len(row) : row[k] \in Int
    BY <1>1
  <2>. HIDE DEF row
  <2>. QED
    BY <1>1, <2>1, ColumnExists
<1>3. Blank \in Int
  BY DEF Blank
<1>. HIDE DEF row
<1>4. Mapped(Content[f], row) \in [Fields[Content[f].source] -> Int]
  BY <1>2, <1>3 DEF Mapped
<1>. QED
  BY <1>4 DEF row, SourceOf

\* What a transform lets through and its table refuses is what the transform
\* does not look at.
LEMMA RaisesIsSlips ==
    ASSUME NEW s \in Sources, NEW m \in [Fields[s] -> Int]
    PROVE  Raises(s, m) <=> Slips(s, m)
<1>. SUFFICES ASSUME ~ Refused(s, m), ~ Overflows(s, m)
              PROVE  ~ Fits(s, m) <=> \/ s = "orders" /\ m["currency"] = Junk
                                      \/ s = "bank_statement" /\ m["balance"] = Junk
  BY DEF Raises, Slips, Fits
<1>1. CASE s = "orders"
  <2>1. m["gross"] \in Int
    BY <1>1, SourceFields
  <2>2. ~ Unparsed(m, {"gross", "created_at"}) /\ ~ (m["gross"] < 0)
    BY <1>1 DEF Refused, OrderRefused
  <2>3. Unparsed(m, {"currency", "created_at"}) <=> m["currency"] = Junk
    BY <2>2 DEF Unparsed
  <2>4. m["gross"] >= 0
    BY <2>1, <2>2
  <2>. QED
    BY <1>1, <2>3, <2>4 DEF Fits
<1>2. CASE s = "gateway_settlement"
  BY <1>2 DEF Refused, SettlementRefused, Fits
<1>3. CASE s = "bank_statement"
  <2>1. /\ ~ Unparsed(m, {"credit", "debit"}) /\ (m["credit"] = 0 \/ m["debit"] = 0)
        /\ m["balance"] # Junk => m["value_date"] # Junk
    BY <1>3 DEF Refused, BankRefused
  <2>2. Unparsed(m, {"value_date", "credit", "debit", "balance"}) <=> m["balance"] = Junk
    BY <2>1 DEF Unparsed
  <2>. QED
    BY <1>3, <2>1, <2>2 DEF Fits
<1>. QED
  BY <1>1, <1>2, <1>3 DEF Sources

\* Of a file that lacks a required column nothing is loaded.
LEMMA LackingLoadsNothing ==
    ASSUME NEW f \in Files, UnmappedRequired(Content[f]) # {}
    PROVE  LoadedRows(Content[f]) = {}
<1>1. PICK x \in Required[SourceOf(f)] : x \notin Range(Proposed(Content[f]))
  BY DEF UnmappedRequired, SourceOf
<1>2. x \in Fields[SourceOf(f)]
  BY FileFacts, RequiredFields
<1>3. \A row : Mapped(Content[f], row)[x] = Blank
  BY <1>1, <1>2 DEF Mapped, SourceOf
<1>4. \A row : Refused(SourceOf(f), Mapped(Content[f], row))
  BY <1>1, <1>3 DEF Refused, Lacks
<1>. QED
  BY <1>4 DEF LoadedRows, SourceOf

\* The sizes of the sets of required columns.
LEMMA RequiredSizes ==
    /\ \A s \in Sources : IsFiniteSet(Required[s])
    /\ Cardinality(Required["orders"]) = 5
    /\ Cardinality(Required["gateway_settlement"]) = 7
    /\ Cardinality(Required["bank_statement"]) = 4
<1>. DEFINE A1 == {"order_id"}
            A2 == A1 \cup {"gross"}
            A3 == A2 \cup {"payment_id"}
            A4 == A3 \cup {"order_status"}
            A5 == A4 \cup {"created_at"}
            B1 == {"settlement_id"}
            B2 == B1 \cup {"line_type"}
            B3 == B2 \cup {"gross"}
            B4 == B3 \cup {"fee"}
            B5 == B4 \cup {"tax"}
            B6 == B5 \cup {"net"}
            B7 == B6 \cup {"settled_on"}
            C1 == {"value_date"}
            C2 == C1 \cup {"narration"}
            C3 == C2 \cup {"credit"}
            C4 == C3 \cup {"debit"}
<1>1. /\ Required["orders"] = A5 /\ Required["gateway_settlement"] = B7
      /\ Required["bank_statement"] = C4
  BY SourceFields
<1>2. /\ "gross" \notin A1 /\ "payment_id" \notin A2 /\ "order_status" \notin A3
      /\ "created_at" \notin A4
      /\ "line_type" \notin B1 /\ "gross" \notin B2 /\ "fee" \notin B3 /\ "tax" \notin B4
      /\ "net" \notin B5 /\ "settled_on" \notin B6
      /\ "narration" \notin C1 /\ "credit" \notin C2 /\ "debit" \notin C3
  OBVIOUS
<1>3. /\ IsFiniteSet(A1) /\ Cardinality(A1) = 1 /\ IsFiniteSet(B1) /\ Cardinality(B1) = 1
      /\ IsFiniteSet(C1) /\ Cardinality(C1) = 1
  BY FS_Singleton
<1>4. \A S, x : IsFiniteSet(S) /\ x \notin S =>
         IsFiniteSet(S \cup {x}) /\ Cardinality(S \cup {x}) = Cardinality(S) + 1
  BY FS_AddElement
<1>. HIDE DEF A1, B1, C1
<1>5. IsFiniteSet(A2) /\ Cardinality(A2) = 2 /\ IsFiniteSet(B2) /\ Cardinality(B2) = 2
      /\ IsFiniteSet(C2) /\ Cardinality(C2) = 2
  BY <1>2, <1>3, <1>4
<1>. HIDE DEF A2, B2, C2
<1>6. IsFiniteSet(A3) /\ Cardinality(A3) = 3 /\ IsFiniteSet(B3) /\ Cardinality(B3) = 3
      /\ IsFiniteSet(C3) /\ Cardinality(C3) = 3
  BY <1>2, <1>4, <1>5
<1>. HIDE DEF A3, B3, C3
<1>7. IsFiniteSet(A4) /\ Cardinality(A4) = 4 /\ IsFiniteSet(B4) /\ Cardinality(B4) = 4
      /\ IsFiniteSet(C4) /\ Cardinality(C4) = 4
  BY <1>2, <1>4, <1>6
<1>. HIDE DEF A4, B4, C4
<1>8. IsFiniteSet(A5) /\ Cardinality(A5) = 5 /\ IsFiniteSet(B5) /\ Cardinality(B5) = 5
  BY <1>2, <1>4, <1>7
<1>. HIDE DEF A5, B5
<1>9. IsFiniteSet(B6) /\ Cardinality(B6) = 6
  BY <1>2, <1>4, <1>8
<1>. HIDE DEF B6
<1>10. IsFiniteSet(B7) /\ Cardinality(B7) = 7
  BY <1>2, <1>4, <1>9, SMTT(30)
<1>. QED
  BY <1>1, <1>7, <1>8, <1>10 DEF Sources

\* A mapping that lacks a column blocks, but for one column of settlements.
LEMMA UnblockedLacks ==
    ASSUME NEW f \in Files, ~ Blocking(Content[f]), UnmappedRequired(Content[f]) # {}
    PROVE  SourceOf(f) = "gateway_settlement" /\ Cardinality(UnmappedRequired(Content[f])) = 1
<1>. DEFINE R == Required[SourceOf(f)]
            U == UnmappedRequired(Content[f])
            s == SourceOf(f)
<1>1. s \in Sources /\ U \subseteq R /\ U # {}
  BY FileFacts DEF UnmappedRequired, SourceOf
<1>2. IsFiniteSet(R) /\ Cardinality(R) = IF s = "orders" THEN 5 ELSE
                                          IF s = "bank_statement" THEN 4 ELSE 7
  BY <1>1, RequiredSizes DEF Sources
<1>3. ~ (100 * Cardinality(R \ U) < 85 * Cardinality(R))
  BY <1>1 DEF Blocking, SourceOf
<1>. HIDE DEF R, U, s
<1>4. /\ IsFiniteSet(U) /\ IsFiniteSet(R \ U) /\ Cardinality(U) \in Nat /\ Cardinality(R \ U) \in Nat
      /\ Cardinality(R \ U) + Cardinality(U) = Cardinality(R)
  <2>1. IsFiniteSet(U) /\ IsFiniteSet(R \ U)
    BY <1>1, <1>2, FS_Subset
  <2>2. U \cup (R \ U) = R /\ U \cap (R \ U) = {}
    BY <1>1
  <2>3. Cardinality(U \cup (R \ U)) =
           Cardinality(U) + Cardinality(R \ U) - Cardinality(U \cap (R \ U))
    BY <2>1, FS_Union
  <2>4. Cardinality({}) = 0
    BY FS_EmptySet
  <2>5. Cardinality(U) \in Nat /\ Cardinality(R \ U) \in Nat
    BY <2>1, FS_CardinalityType
  <2>6. Cardinality(R) = Cardinality(U) + Cardinality(R \ U) - Cardinality({})
    BY <2>2, <2>3
  <2>7. Cardinality(R \ U) + Cardinality(U) = Cardinality(R)
    BY <2>4, <2>5, <2>6
  <2>. QED
    BY <2>1, <2>5, <2>7
<1>5. Cardinality(U) # 0
  BY <1>1, <1>4, FS_EmptySet
<1>6. s = "gateway_settlement" /\ Cardinality(U) = 1
  <2>1. s = "gateway_settlement" \/ s = "orders" \/ s = "bank_statement"
    BY <1>1 DEF Sources
  <2>. QED
    BY <1>2, <1>3, <1>4, <1>5, <2>1
<1>. QED
  BY <1>6 DEF U, s

(***************************************************************************)
(* The invariant.                                                          *)
(***************************************************************************)

\* The run has a file of every source or of none.
Whole == \A s \in Sources : run[s] # NoFile <=> Created

\* What a delivery works on, and that nothing is stored before there is a run.
Stored ==
    /\ \A d \in Deliveries : task[d] # "waiting" => Created
    /\ \A d \in Deliveries : task[d] = "waiting" => todo[d] = Sources
    /\ \A s \in Sources :
          \/ records[s] = {}
          \/ Created /\ records[s] = LoadedRows(Content[run[s]])
    /\ \A d \in Deliveries, s \in Sources :
          s \notin todo[d] => records[s] = LoadedRows(Content[run[s]])
    /\ \A d \in Deliveries : task[d] = "ingested" => todo[d] = {}

\* A delivery that has yet to ingest a file has reported nothing of it.
Reported ==
    \A d \in Deliveries, s \in Sources : s \in todo[d] => summaries[d][s] = NoSummary

\* What the page counts as confirmed is.
Answered ==
    \A s \in Sources \ overtaken :
        /\ confirming[s] # NoFile => confirming[s] = previews[s]
        /\ confirmed[s] => \E f \in mappings : Header(f) = Header(previews[s])

\* Of a file with a row that ends the task nothing is stored, and what ended
\* a delivery is such a row of a file it had yet to ingest.
Ended ==
    /\ \A s \in Sources :
          records[s] # {} => \A m \in Range(RowsOf[run[s]]) : ~ Raises(s, m)
    /\ \A d \in Deliveries : task[d] = "raised" =>
          \E s \in todo[d] : \E m \in Range(RowsOf[run[s]]) : Raises(s, m)

Typed == TypeOK /\ Whole /\ Stored /\ Reported

(***************************************************************************)
(* What one delivery makes of one file.                                    *)
(***************************************************************************)

\* The rows that a delivery lets through are those the evaluation measures.
LEMMA Ingests ==
    ASSUME Typed, NEW d \in Deliveries, NEW s \in Sources, IngestRows(d, s)
    PROVE  /\ Created /\ run[s] \in Files /\ SourceOf(run[s]) = s
           /\ records' = [records EXCEPT ![s] = LoadedRows(Content[run[s]])]
           /\ LoadedRows(Content[run[s]]) \subseteq [Fields[s] -> Int]
           /\ \E valid \in [total : Nat, inserted : Nat, duplicates : Nat, errors : Nat] :
                 /\ summaries' = [summaries EXCEPT ![d][s] = valid]
                 /\ valid.total = valid.inserted + valid.duplicates + valid.errors
                 /\ valid.inserted = Cardinality(LoadedRows(Content[run[s]]) \ records[s])
<1>. DEFINE f == run[s]
            rows == Content[f].rows
            mapped == RowsOf[f]
            drafts == {i \in DOMAIN mapped : ~ Refused(s, mapped[i])}
            valid == {mapped[i] : i \in drafts}
            fresh == New(s, valid)
            loaded == LoadedRows(Content[f])
<1>1. Created /\ f \in Files /\ SourceOf(f) = s
  <2>1. Created
    BY DEF IngestRows, Typed, Stored
  <2>2. f # NoFile /\ f \in Files \cup {NoFile}
    BY <2>1 DEF Typed, Whole, TypeOK
  <2>. QED
    BY <2>1, <2>2 DEF Typed, TypeOK
<1>2. rows \in Seq(Seq(Int)) /\ Content[f].source = s
  BY <1>1, FileFacts
<1>3. DOMAIN rows = 1..Len(rows) /\ Len(rows) \in Nat
  BY <1>2, LenProperties
<1>4. /\ DOMAIN mapped = DOMAIN rows
      /\ \A i \in DOMAIN rows : mapped[i] = Mapped(Content[f], rows[i])
      /\ \A i \in DOMAIN rows : mapped[i] \in [Fields[s] -> Int]
  BY <1>1, RowTyped DEF RowsOf
<1>5. mapped = [i \in 1..Len(rows) |-> mapped[i]]
  BY <1>1, <1>3 DEF RowsOf
<1>6. Len(mapped) = Len(rows)
  <2>. HIDE DEF mapped, rows
  <2>1. mapped \in Seq([Fields[s] -> Int])
    BY <1>3, <1>4, <1>5
  <2>2. DOMAIN mapped = 1..Len(mapped) /\ Len(mapped) \in Nat
    BY <2>1, LenProperties
  <2>. QED
    BY <1>3, <1>4, <2>2
<1>7. \A i \in DOMAIN rows : ~ Raises(s, mapped[i])
  BY <1>4 DEF IngestRows, Range
<1>8. valid = loaded
  <2>1. ASSUME NEW i \in drafts
        PROVE  mapped[i] \in loaded
    <3>1. i \in DOMAIN rows /\ ~ Refused(s, mapped[i]) /\ ~ Raises(s, mapped[i])
      BY <1>4, <1>7
    <3>2. s = "bank_statement" => mapped[i]["balance"] # Junk
      <4>1. mapped[i] \in [Fields[s] -> Int] /\ ~ Slips(s, mapped[i])
        BY <1>4, <3>1, RaisesIsSlips
      <4>. QED
        BY <3>1, <4>1 DEF Slips
    <3>3. rows[i] \in Range(rows) /\ mapped[i] = Mapped(Content[f], rows[i])
      BY <1>4, <3>1 DEF Range
    <3>. HIDE DEF mapped, rows, drafts
    <3>4. mapped[i] \in {Mapped(Content[f], row) : row \in Range(Content[f].rows)}
      BY <3>3 DEF rows
    <3>. QED
      BY <1>2, <3>1, <3>2, <3>4 DEF LoadedRows
  <2>2. ASSUME NEW m \in loaded
        PROVE  m \in valid
    <3>1. PICK i \in DOMAIN rows : m = Mapped(Content[f], rows[i])
      BY <2>2 DEF LoadedRows, Range
    <3>2. ~ Refused(s, m)
      BY <1>2, <2>2 DEF LoadedRows
    <3>. QED
      BY <1>4, <3>1, <3>2
  <2>. QED
    BY <2>1, <2>2
<1>9. \A m \in loaded : m \in [Fields[s] -> Int]
  BY <1>4, <1>8
<1>10. /\ records' = [records EXCEPT ![s] = records[s] \cup fresh]
       /\ summaries' = [summaries EXCEPT ![d][s] =
              [total |-> Len(mapped), inserted |-> Cardinality(fresh),
               duplicates |-> Cardinality(drafts) - Cardinality(fresh),
               errors |-> Len(mapped) - Cardinality(drafts)]]
  BY DEF IngestRows
<1>11. drafts \subseteq 1..Len(rows) /\ IsFiniteSet(drafts) /\ Cardinality(drafts) \in Nat
       /\ Cardinality(drafts) <= Len(rows)
  <2>1. drafts \subseteq 1..Len(rows)
    BY <1>3, <1>4
  <2>. HIDE DEF drafts, rows
  <2>2. IsFiniteSet(1..Len(rows)) /\ Cardinality(1..Len(rows)) = Len(rows)
    <3>1. IsFiniteSet(1..Len(rows)) /\ Cardinality(1..Len(rows)) =
             IF 1 > Len(rows) THEN 0 ELSE Len(rows) - 1 + 1
      BY <1>3, FS_Interval
    <3>. QED
      BY <1>3, <3>1
  <2>3. IsFiniteSet(drafts) /\ Cardinality(drafts) <= Cardinality(1..Len(rows))
    BY <2>1, <2>2, FS_Subset
  <2>. QED
    BY <2>1, <2>2, <2>3, FS_CardinalityType
<1>12. IsFiniteSet(valid) /\ Cardinality(valid) <= Cardinality(drafts)
  <2>. DEFINE g == [i \in drafts |-> mapped[i]]
  <2>1. g \in Surjection(drafts, valid)
    <3>. HIDE DEF drafts, mapped
    <3>. QED
      BY DEF Surjection
  <2>. HIDE DEF g, drafts, valid
  <2>. QED
    BY <1>11, <2>1, FS_Surjection
<1>13. IsFiniteSet(fresh) /\ Cardinality(fresh) \in Nat /\ Cardinality(fresh) <= Cardinality(drafts)
  <2>1. fresh \subseteq valid
    BY DEF New
  <2>. HIDE DEF fresh, valid, drafts
  <2>2. IsFiniteSet(fresh) /\ Cardinality(fresh) <= Cardinality(valid)
    BY <1>12, <2>1, FS_Subset
  <2>3. Cardinality(fresh) \in Nat /\ Cardinality(valid) \in Nat
    BY <1>12, <2>2, FS_CardinalityType
  <2>. QED
    BY <1>11, <1>12, <2>2, <2>3
<1>14. fresh = loaded \ records[s]
  BY <1>8 DEF New
<1>15. records[s] \cup fresh = loaded
  <2>1. records[s] = {} \/ records[s] = loaded
    BY DEF Typed, Stored
  <2>. QED
    BY <1>14, <2>1
<1>. HIDE DEF mapped, drafts, valid, fresh, loaded, rows
<1>16. \E r \in [total : Nat, inserted : Nat, duplicates : Nat, errors : Nat] :
          /\ summaries' = [summaries EXCEPT ![d][s] = r]
          /\ r.total = r.inserted + r.duplicates + r.errors
          /\ r.inserted = Cardinality(fresh)
  <2>. DEFINE r == [total |-> Len(mapped), inserted |-> Cardinality(fresh),
                    duplicates |-> Cardinality(drafts) - Cardinality(fresh),
                    errors |-> Len(mapped) - Cardinality(drafts)]
  <2>1. r \in [total : Nat, inserted : Nat, duplicates : Nat, errors : Nat]
    BY <1>3, <1>6, <1>11, <1>13
  <2>2. r.total = r.inserted + r.duplicates + r.errors
    BY <1>3, <1>6, <1>11, <1>13
  <2>3. r.inserted = Cardinality(fresh) /\ summaries' = [summaries EXCEPT ![d][s] = r]
    BY <1>10
  <2>. HIDE DEF r
  <2>. QED
    BY <2>1, <2>2, <2>3
<1>17. records' = [records EXCEPT ![s] = loaded]
  BY <1>10, <1>15
<1>. QED
  BY <1>1, <1>9, <1>14, <1>16, <1>17 DEF loaded

(***************************************************************************)
(* The invariant is kept, part by part.                                    *)
(***************************************************************************)

LEMMA InitTyped == Init => Typed /\ Ended /\ Answered /\ InsertedOnce
<1>. SUFFICES ASSUME Init
              PROVE  Typed /\ Ended /\ Answered /\ InsertedOnce
  OBVIOUS
<1>1. TypeOK
  <2>1. drops \in 0..MaxDrops
    BY BoundAssumption DEF Init
  <2>2. summaries \in [Deliveries -> [Sources ->
           [total : Nat, inserted : Nat, duplicates : Nat, errors : Nat]]]
    BY DEF Init, NoSummary
  <2>. QED
    BY <2>1, <2>2 DEF Init, TypeOK
<1>2. Typed
  BY <1>1 DEF Init, Typed, Whole, Stored, Reported, Created, Sources
<1>3. Ended /\ Answered
  BY DEF Init, Ended, Answered
<1>4. \A d \in Deliveries, s \in Sources :
         /\ summaries[d][s].total = 0 /\ summaries[d][s].inserted = 0
         /\ summaries[d][s].duplicates = 0 /\ summaries[d][s].errors = 0
         /\ records[s] = {}
  BY DEF Init, NoSummary
<1>5. InsertedOnce
  <2>1. Cardinality({}) = 0
    BY FS_EmptySet
  <2>2. \A s \in Sources : Cardinality(records[s]) = 0
    BY <1>4, <2>1, DeliveryAssumption
  <2>3. PICK d \in Deliveries : TRUE
    BY DeliveryAssumption
  <2>4. ASSUME NEW e \in Deliveries, NEW s \in Sources
        PROVE  summaries[e][s].total = summaries[e][s].inserted + summaries[e][s].duplicates
                                         + summaries[e][s].errors
    BY <1>4
  <2>5. \A e \in Deliveries, s \in Sources : summaries[e][s].inserted = 0
    BY <1>4
  <2>. QED
    BY <2>2, <2>3, <2>4, <2>5 DEF InsertedOnce
<1>. QED
  BY <1>2, <1>3, <1>5

\* The steps of the page leave the task's work alone, and the other way round.
Page == \/ \E f \in Files : Drop(f) \/ Previewed(f)
        \/ \E s \in Sources : Confirm(s) \/ Confirmed(s) \/ ConfirmFails(s)

Work == \E d \in Deliveries :
            \/ Take(d) \/ Ingested(d) \/ Die(d)
            \/ \E s \in Sources : IngestRaises(d, s)

LEMMA PageLeaves == ASSUME Page PROVE work' = work /\ run' = run
  BY DEF Page, Drop, Previewed, Confirm, Confirmed, ConfirmFails, work

LEMMA WorkLeaves ==
    ASSUME Work
    PROVE  page' = page /\ mappings' = mappings /\ run' = run /\ records' = records /\ todo' = todo
           /\ summaries' = summaries
  BY DEF Work, Take, Ingested, Die, IngestRaises

LEMMA NextTypeOK ==
    ASSUME Typed, Next
    PROVE  TypeOK'
<1>. TypeOK
  BY DEF Typed
<1>0. /\ loading \in [Sources -> BOOLEAN] /\ failed \in [Sources -> BOOLEAN]
      /\ confirmed \in [Sources -> BOOLEAN]
      /\ previews \in [Sources -> Files \cup {NoFile}]
      /\ confirming \in [Sources -> Files \cup {NoFile}]
      /\ run \in [Sources -> Files \cup {NoFile}]
      /\ \A s \in Sources :
            /\ previews[s] # NoFile => SourceOf(previews[s]) = s /\ RowsOf[previews[s]] # <<>>
            /\ confirming[s] # NoFile => SourceOf(confirming[s]) = s /\ RowsOf[confirming[s]] # <<>>
            /\ run[s] # NoFile => SourceOf(run[s]) = s /\ RowsOf[run[s]] # <<>>
  BY DEF TypeOK
<1>1. ASSUME NEW f \in Files, Drop(f) PROVE TypeOK'
  <2>. DEFINE src == SourceOf(f)
  <2>1. src \in Sources
    BY FileFacts
  <2>2. drops' \in 0..MaxDrops
    BY <1>1, BoundAssumption DEF Drop, TypeOK
  <2>3. /\ loading' = [loading EXCEPT ![src] = TRUE] /\ failed' = [failed EXCEPT ![src] = FALSE]
        /\ confirmed' = [confirmed EXCEPT ![src] = FALSE]
        /\ previews' = previews /\ confirming' = confirming /\ run' = run /\ mappings' = mappings
        /\ overtaken' = overtaken /\ work' = work /\ asked' = asked \cup {f}
    BY <1>1 DEF Drop
  <2>. HIDE DEF src
  <2>4. /\ loading' \in [Sources -> BOOLEAN] /\ failed' \in [Sources -> BOOLEAN]
        /\ confirmed' \in [Sources -> BOOLEAN]
    BY <1>0, <2>1, <2>3
  <2>. QED
    BY <2>2, <2>3, <2>4 DEF TypeOK, work
<1>2. ASSUME NEW f \in Files, Previewed(f) PROVE TypeOK'
  <2>. DEFINE src == SourceOf(f)
  <2>1. src \in Sources
    BY FileFacts
  <2>2. /\ loading' = [loading EXCEPT ![src] = FALSE] /\ confirmed' = confirmed
        /\ confirming' = confirming /\ run' = run /\ mappings' = mappings
        /\ drops' = drops /\ work' = work /\ asked' \subseteq asked
        /\ overtaken' \subseteq overtaken \cup {src}
    BY <1>2 DEF Previewed
  <2>3. \/ /\ previews' = [previews EXCEPT ![src] = NoFile]
           /\ failed' = [failed EXCEPT ![src] = TRUE]
        \/ /\ previews' = [previews EXCEPT ![src] = f] /\ failed' = failed
           /\ RowsOf[f] # <<>>
    BY <1>2 DEF Previewed
  <2>4. SourceOf(f) = src
    OBVIOUS
  <2>. HIDE DEF src
  <2>5. loading' \in [Sources -> BOOLEAN] /\ confirmed' \in [Sources -> BOOLEAN]
    BY <1>0, <2>1, <2>2
  <2>6. failed' \in [Sources -> BOOLEAN]
    BY <1>0, <2>1, <2>3
  <2>7. previews' \in [Sources -> Files \cup {NoFile}]
    BY <1>0, <2>1, <2>3
  <2>8. ASSUME NEW s \in Sources, previews'[s] # NoFile
        PROVE  SourceOf(previews'[s]) = s /\ RowsOf[previews'[s]] # <<>>
    BY <1>0, <2>1, <2>3, <2>4, <2>8
  <2>. QED
    BY <2>1, <2>2, <2>5, <2>6, <2>7, <2>8 DEF TypeOK, work
<1>3. ASSUME NEW s \in Sources, Confirm(s) PROVE TypeOK'
  <2>1. /\ confirming' = [confirming EXCEPT ![s] = previews[s]]
        /\ failed' = [failed EXCEPT ![s] = FALSE]
        /\ previews' = previews /\ loading' = loading /\ confirmed' = confirmed
        /\ asked' = asked /\ drops' = drops /\ overtaken' = overtaken /\ mappings' = mappings
        /\ run' = run /\ work' = work
    BY <1>3 DEF Confirm
  <2>2. failed' \in [Sources -> BOOLEAN] /\ confirming' \in [Sources -> Files \cup {NoFile}]
    BY <1>0, <2>1
  <2>3. ASSUME NEW z \in Sources, confirming'[z] # NoFile
        PROVE  SourceOf(confirming'[z]) = z /\ RowsOf[confirming'[z]] # <<>>
    BY <1>0, <2>1, <2>3
  <2>. QED
    BY <2>1, <2>2, <2>3 DEF TypeOK, work
<1>4. ASSUME NEW s \in Sources, Confirmed(s) PROVE TypeOK'
  <2>1. confirming[s] \in Files
    BY <1>4 DEF Confirmed, TypeOK
  <2>2. /\ previews' = previews /\ run' = run /\ asked' = asked
        /\ overtaken' = overtaken /\ work' = work /\ drops' = drops
        /\ mappings' \subseteq mappings \cup {confirming[s]}
        /\ confirming' = [confirming EXCEPT ![s] = NoFile]
        /\ loading' = loading /\ failed' = failed
        /\ confirmed' = [confirmed EXCEPT ![s] = TRUE]
    BY <1>4 DEF Confirmed
  <2>3. /\ confirmed' \in [Sources -> BOOLEAN] /\ confirming' \in [Sources -> Files \cup {NoFile}]
        /\ \A z \in Sources : confirming'[z] = NoFile \/ confirming'[z] = confirming[z]
    BY <1>0, <2>2
  <2>. QED
    BY <2>1, <2>2, <2>3 DEF TypeOK, work
<1>5. ASSUME NEW s \in Sources, ConfirmFails(s) PROVE TypeOK'
  BY <1>5 DEF ConfirmFails, TypeOK, work
<1>6. CASE Start
  BY <1>6, BoundAssumption DEF Start, TypeOK, work
<1>7. ASSUME NEW d \in Deliveries, NEW s \in Sources, IngestRows(d, s) PROVE TypeOK'
  <2>1. /\ page' = page /\ mappings' = mappings /\ run' = run /\ task' = task
        /\ todo' = [todo EXCEPT ![d] = todo[d] \ {s}]
    BY <1>7 DEF IngestRows
  <2>2. /\ records' = [records EXCEPT ![s] = LoadedRows(Content[run[s]])]
        /\ LoadedRows(Content[run[s]]) \subseteq [Fields[s] -> Int]
    BY <1>7, Ingests
  <2>3. PICK r \in [total : Nat, inserted : Nat, duplicates : Nat, errors : Nat] :
           /\ summaries' = [summaries EXCEPT ![d][s] = r]
           /\ r.total = r.inserted + r.duplicates + r.errors
           /\ r.inserted = Cardinality(LoadedRows(Content[run[s]]) \ records[s])
    BY <1>7, Ingests
  <2>4. summaries' \in [Deliveries -> [Sources ->
           [total : Nat, inserted : Nat, duplicates : Nat, errors : Nat]]]
    BY <2>3 DEF TypeOK
  <2>5. /\ records' = [z \in Sources |-> records'[z]]
        /\ \A z \in Sources : records'[z] \subseteq [Fields[z] -> Int]
    <3>. DEFINE L == LoadedRows(Content[run[s]])
    <3>1. records = [z \in Sources |-> records[z]] /\ \A z \in Sources : records[z] \subseteq [Fields[z] -> Int]
      BY DEF TypeOK
    <3>2. records' = [records EXCEPT ![s] = L] /\ L \subseteq [Fields[s] -> Int]
      BY <2>2
    <3>. HIDE DEF L
    <3>3. \A z \in Sources : records'[z] = IF z = s THEN L ELSE records[z]
      BY <3>1, <3>2
    <3>. QED
      BY <3>1, <3>2, <3>3
  <2>6. todo' \in [Deliveries -> SUBSET Sources]
    BY <2>1 DEF TypeOK
  <2>. QED
    BY <2>1, <2>4, <2>5, <2>6 DEF TypeOK, page
<1>8. CASE Work
  <2>1. task' \in [Deliveries -> {"waiting", "ingesting", "ingested", "raised", "died"}]
    BY <1>8 DEF Work, Take, Ingested, Die, IngestRaises, TypeOK
  <2>. QED
    BY <1>8, <2>1, WorkLeaves DEF TypeOK, page
<1>. QED
  BY <1>1, <1>2, <1>3, <1>4, <1>5, <1>6, <1>7, <1>8 DEF Next, Work

LEMMA NextStored ==
    ASSUME Typed, TypeOK', Next
    PROVE  Whole' /\ Stored' /\ Reported'
<1>. TypeOK /\ Whole /\ Stored /\ Reported
  BY DEF Typed
<1>1. CASE Page
  BY <1>1, PageLeaves DEF work, Whole, Stored, Reported, Created
<1>2. CASE Start
  <2>1. /\ ~ Created /\ run' = previews /\ work' = work
        /\ \A s \in Sources : previews[s] # NoFile
    BY <1>2 DEF Start, Ready
  <2>2. "orders" \in Sources
    BY DEF Sources
  <2>3. Whole' /\ Created'
    BY <2>1, <2>2 DEF Whole, Created
  <2>4. /\ \A d \in Deliveries : task[d] = "waiting" /\ todo[d] = Sources
        /\ \A s \in Sources : records[s] = {}
    BY <2>1 DEF Stored
  <2>5. Stored'
    BY <2>1, <2>3, <2>4 DEF Stored, work
  <2>6. Reported'
    BY <2>1 DEF Reported, work
  <2>. QED
    BY <2>3, <2>5, <2>6
<1>3. ASSUME NEW d \in Deliveries, NEW s \in Sources, IngestRows(d, s)
      PROVE  Whole' /\ Stored' /\ Reported'
  <2>. DEFINE L == LoadedRows(Content[run[s]])
  <2>1. /\ run' = run /\ task' = task /\ task[d] = "ingesting"
        /\ todo' = [todo EXCEPT ![d] = todo[d] \ {s}]
    BY <1>3 DEF IngestRows
  <2>2. Created /\ records' = [records EXCEPT ![s] = L]
    BY <1>3, Ingests
  <2>3. PICK r \in [total : Nat, inserted : Nat, duplicates : Nat, errors : Nat] :
           /\ summaries' = [summaries EXCEPT ![d][s] = r]
           /\ r.total = r.inserted + r.duplicates + r.errors
           /\ r.inserted = Cardinality(L \ records[s])
    BY <1>3, Ingests
  <2>. HIDE DEF L
  <2>4. \A z \in Sources : records'[z] = IF z = s THEN L ELSE records[z]
    BY <2>2 DEF TypeOK
  <2>5. /\ \A e \in Deliveries : todo'[e] \subseteq todo[e] /\ (e # d => todo'[e] = todo[e])
        /\ todo'[d] = todo[d] \ {s}
    BY <2>1 DEF TypeOK
  <2>6. Whole' /\ Created'
    BY <2>1, <2>2 DEF Whole, Created
  <2>7. ASSUME NEW z \in Sources, z # s
        PROVE  records'[z] = records[z]
    BY <2>4, <2>7
  <2>8. records'[s] = LoadedRows(Content[run'[s]])
    BY <2>1, <2>4 DEF L
  <2>9. \A z \in Sources : records'[z] = {} \/ (Created' /\ records'[z] = LoadedRows(Content[run'[z]]))
    BY <2>1, <2>6, <2>7, <2>8 DEF Stored
  <2>10. \A e \in Deliveries, z \in Sources :
            z \notin todo'[e] => records'[z] = LoadedRows(Content[run'[z]])
    BY <2>1, <2>5, <2>7, <2>8 DEF Stored
  <2>11. \A e \in Deliveries :
            /\ task'[e] # "waiting" => Created'
            /\ task'[e] = "waiting" => todo'[e] = Sources
            /\ task'[e] = "ingested" => todo'[e] = {}
    BY <2>1, <2>5, <2>6 DEF Stored
  <2>12. Stored'
    BY <2>9, <2>10, <2>11 DEF Stored
  <2>13. \A e \in Deliveries, z \in Sources :
            z \in todo'[e] => z \in todo[e] /\ summaries'[e][z] = summaries[e][z]
    BY <2>3, <2>5 DEF TypeOK
  <2>14. Reported'
    BY <2>13 DEF Reported
  <2>. QED
    BY <2>6, <2>12, <2>14
<1>4. CASE Work
  <2>1. /\ run' = run /\ records' = records /\ todo' = todo /\ summaries' = summaries
    BY <1>4, WorkLeaves
  <2>2. \A d \in Deliveries :
           /\ task'[d] = "waiting" => task[d] = "waiting"
           /\ task'[d] # "waiting" => task[d] # "waiting" \/ Created
           /\ task'[d] = "ingested" => task[d] = "ingested" \/ todo[d] = {}
    BY <1>4, SMTT(30) DEF Work, Take, Ingested, Die, IngestRaises, TypeOK
  <2>. QED
    BY <2>1, <2>2 DEF Whole, Stored, Reported, Created
<1>. QED
  BY <1>1, <1>2, <1>3, <1>4 DEF Next, Page, Work

LEMMA NextEnded ==
    ASSUME Typed, Ended, Next
    PROVE  Ended'
<1>. TypeOK /\ Stored
  BY DEF Typed
<1>1. CASE Page
  BY <1>1, PageLeaves DEF Ended, work
<1>2. CASE Start
  <2>1. ~ Created /\ work' = work
    BY <1>2 DEF Start
  <2>2. /\ \A s \in Sources : records'[s] = {}
        /\ \A d \in Deliveries : task'[d] # "raised"
    BY <2>1 DEF Stored, work
  <2>. QED
    BY <2>2 DEF Ended
<1>3. ASSUME NEW d \in Deliveries, NEW s \in Sources, IngestRows(d, s)
      PROVE  Ended'
  <2>. DEFINE Ends(z) == \E m \in Range(RowsOf[run[z]]) : Raises(z, m)
  <2>1. /\ run' = run /\ task' = task /\ task[d] = "ingesting"
        /\ todo' = [todo EXCEPT ![d] = todo[d] \ {s}]
        /\ ~ Ends(s)
    BY <1>3 DEF IngestRows
  <2>2. \A z \in Sources : z # s => records'[z] = records[z]
    <3>. DEFINE L == LoadedRows(Content[run[s]])
    <3>1. records' = [records EXCEPT ![s] = L]
      BY <1>3, Ingests
    <3>. HIDE DEF L
    <3>. QED
      BY <3>1 DEF TypeOK
  <2>3. \A e \in Deliveries : e # d => todo'[e] = todo[e]
    BY <2>1 DEF TypeOK
  <2>4. \A z \in Sources : records'[z] # {} => ~ Ends(z)
    BY <2>1, <2>2 DEF Ended
  <2>5. \A e \in Deliveries : task[e] = "raised" => \E z \in todo[e] : Ends(z)
    BY DEF Ended
  <2>. HIDE DEF Ends
  <2>6. \A e \in Deliveries : task'[e] = "raised" => \E z \in todo'[e] : Ends(z)
    BY <2>1, <2>3, <2>5
  <2>. QED
    BY <2>1, <2>4, <2>6 DEF Ended, Ends
<1>4. CASE Work
  <2>1. run' = run /\ records' = records /\ todo' = todo
    BY <1>4, WorkLeaves
  <2>2. ASSUME NEW d \in Deliveries, task'[d] = "raised", task[d] # "raised"
        PROVE  \E s \in todo[d] : \E m \in Range(RowsOf[run[s]]) : Raises(s, m)
    BY <1>4, <2>2 DEF Work, Take, Ingested, Die, IngestRaises, TypeOK
  <2>. QED
    BY <2>1, <2>2 DEF Ended
<1>. QED
  BY <1>1, <1>2, <1>3, <1>4 DEF Next, Page, Work

LEMMA NextInserted ==
    ASSUME Typed, InsertedOnce, Next
    PROVE  InsertedOnce'
<1>1. CASE records' = records /\ summaries' = summaries
  BY <1>1 DEF InsertedOnce
<1>2. ASSUME NEW d \in Deliveries, NEW s \in Sources, IngestRows(d, s)
      PROVE  InsertedOnce'
  <2>. DEFINE L == LoadedRows(Content[run[s]])
  <2>1. records' = [records EXCEPT ![s] = L]
    BY <1>2, Ingests
  <2>2. PICK r \in [total : Nat, inserted : Nat, duplicates : Nat, errors : Nat] :
           /\ summaries' = [summaries EXCEPT ![d][s] = r]
           /\ r.total = r.inserted + r.duplicates + r.errors
           /\ r.inserted = Cardinality(L \ records[s])
    BY <1>2, Ingests
  <2>3. records[s] = {} \/ records[s] = L
    BY DEF Typed, Stored
  <2>4. summaries[d][s].inserted = 0
    BY <1>2 DEF IngestRows, Typed, Reported, NoSummary
  <2>. HIDE DEF L
  <2>5. /\ \A z \in Sources : records'[z] = IF z = s THEN L ELSE records[z]
        /\ \A e \in Deliveries, z \in Sources :
              summaries'[e][z] = IF e = d /\ z = s THEN r ELSE summaries[e][z]
    BY <2>1, <2>2 DEF Typed, TypeOK
  <2>6. Cardinality({}) = 0
    BY FS_EmptySet
  <2>7. PICK f \in Deliveries :
           /\ summaries[f][s].inserted = Cardinality(records[s])
           /\ \A e \in Deliveries \ {f} : summaries[e][s].inserted = 0
    BY DEF InsertedOnce
  <2>8. \E g \in Deliveries :
           /\ summaries'[g][s].inserted = Cardinality(records'[s])
           /\ \A e \in Deliveries \ {g} : summaries'[e][s].inserted = 0
    <3>1. CASE records[s] = {}
      <4>1. \A e \in Deliveries : summaries[e][s].inserted = 0
        BY <2>6, <2>7, <3>1
      <4>2. L \ records[s] = L
        BY <3>1
      <4>3. summaries'[d][s].inserted = Cardinality(records'[s])
        BY <2>2, <2>5, <4>2, ZenonT(30)
      <4>. QED
        BY <2>5, <4>1, <4>3
    <3>2. CASE records[s] = L
      <4>1. L \ records[s] = {}
        BY <3>2
      <4>2. r.inserted = 0
        BY <2>2, <2>6, <4>1
      <4>3. \A e \in Deliveries : summaries'[e][s].inserted = summaries[e][s].inserted
        BY <2>4, <2>5, <4>2
      <4>. QED
        BY <2>5, <2>7, <3>2, <4>3
    <3>. QED
      BY <2>3, <3>1, <3>2
  <2>9. ASSUME NEW z \in Sources, z # s
        PROVE  records'[z] = records[z] /\ \A e \in Deliveries : summaries'[e][z] = summaries[e][z]
    BY <2>5, <2>9
  <2>10. \A z \in Sources : \E g \in Deliveries :
            /\ summaries'[g][z].inserted = Cardinality(records'[z])
            /\ \A e \in Deliveries \ {g} : summaries'[e][z].inserted = 0
    BY <2>8, <2>9 DEF InsertedOnce
  <2>11. ASSUME NEW e \in Deliveries, NEW z \in Sources
         PROVE  summaries'[e][z].total = summaries'[e][z].inserted + summaries'[e][z].duplicates
                                         + summaries'[e][z].errors
    BY <2>2, <2>5 DEF InsertedOnce
  <2>. QED
    BY <2>10, <2>11 DEF InsertedOnce
<1>3. CASE Page \/ Work \/ Start
  BY <1>1, <1>3, PageLeaves, WorkLeaves DEF Start, work
<1>. QED
  BY <1>2, <1>3 DEF Next, Page, Work

\* A header whose mapping is stored stays so.
LEMMA HeadersStay ==
    ASSUME Typed, Next, NEW h, \E f \in mappings : Header(f) = h
    PROVE  \E f \in mappings' : Header(f) = h
<1>1. CASE mappings' = mappings
  BY <1>1
<1>2. ASSUME NEW s \in Sources, Confirmed(s)
      PROVE  \E f \in mappings' : Header(f) = h
  <2>1. mappings' = {f \in mappings : Header(f) # Header(confirming[s])} \cup {confirming[s]}
    BY <1>2 DEF Confirmed
  <2>2. PICK f \in mappings : Header(f) = h
    OBVIOUS
  <2>. QED
    BY <2>1, <2>2
<1>. QED
  BY <1>1, <1>2 DEF Next, Drop, Previewed, Confirm, ConfirmFails, Start, Take, Ingested, Die,
     IngestRows, IngestRaises

LEMMA NextAnswered ==
    ASSUME Typed, Answered, Next
    PROVE  Answered'
<1>. /\ loading \in [Sources -> BOOLEAN] /\ failed \in [Sources -> BOOLEAN]
     /\ confirmed \in [Sources -> BOOLEAN]
     /\ previews \in [Sources -> Files \cup {NoFile}]
     /\ confirming \in [Sources -> Files \cup {NoFile}]
  BY DEF Typed, TypeOK
<1>. SUFFICES ASSUME NEW z \in Sources, z \notin overtaken'
              PROVE  /\ confirming'[z] # NoFile => confirming'[z] = previews'[z]
                     /\ confirmed'[z] => \E g \in mappings' : Header(g) = Header(previews'[z])
  BY DEF Answered
<1>1. z \notin overtaken
  BY DEF Next, Drop, Previewed, Confirm, Confirmed, ConfirmFails, Start, Take, Ingested, Die,
     IngestRows, IngestRaises, page
<1>2. /\ confirming[z] # NoFile => confirming[z] = previews[z]
      /\ confirmed[z] => \E g \in mappings : Header(g) = Header(previews[z])
  BY <1>1 DEF Answered
<1>3. ASSUME confirming'[z] \in {confirming[z], NoFile}, previews'[z] = previews[z],
             confirmed'[z] => confirmed[z]
      PROVE  /\ confirming'[z] # NoFile => confirming'[z] = previews'[z]
             /\ confirmed'[z] => \E g \in mappings' : Header(g) = Header(previews'[z])
  BY <1>2, <1>3, HeadersStay
<1>4. ASSUME NEW f \in Files, Drop(f)
      PROVE  confirming'[z] = confirming[z] /\ previews'[z] = previews[z] /\ (confirmed'[z] => confirmed[z])
  <2>1. /\ confirmed' = [confirmed EXCEPT ![SourceOf(f)] = FALSE]
        /\ confirming' = confirming /\ previews' = previews
    BY <1>4 DEF Drop
  <2>. QED
    BY <2>1
<1>5. ASSUME NEW f \in Files, Previewed(f)
      PROVE  /\ confirming'[z] # NoFile => confirming'[z] = previews'[z]
             /\ confirmed'[z] => \E g \in mappings' : Header(g) = Header(previews'[z])
  <2>1. CASE z = SourceOf(f)
    <3>1. ~ confirmed[z] /\ confirming[z] = NoFile
      BY <1>5, <2>1 DEF Previewed
    <3>. QED
      BY <1>5, <3>1 DEF Previewed
  <2>2. CASE z # SourceOf(f)
    <3>1. previews'[z] = previews[z] /\ confirming' = confirming /\ confirmed' = confirmed
      BY <1>5, <2>2 DEF Previewed
    <3>. QED
      BY <1>3, <3>1
  <2>. QED
    BY <2>1, <2>2
<1>6. ASSUME NEW s \in Sources, Confirm(s)
      PROVE  /\ confirming'[z] # NoFile => confirming'[z] = previews'[z]
             /\ confirmed'[z] => \E g \in mappings' : Header(g) = Header(previews'[z])
  <2>1. /\ confirming' = [confirming EXCEPT ![s] = previews[s]]
        /\ previews' = previews /\ confirmed' = confirmed /\ mappings' = mappings
    BY <1>6 DEF Confirm
  <2>. QED
    BY <1>2, <2>1
<1>7. ASSUME NEW s \in Sources, Confirmed(s)
      PROVE  /\ confirming'[z] # NoFile => confirming'[z] = previews'[z]
             /\ confirmed'[z] => \E g \in mappings' : Header(g) = Header(previews'[z])
  <2>1. /\ confirming' = [confirming EXCEPT ![s] = NoFile]
        /\ previews' = previews /\ confirmed' = [confirmed EXCEPT ![s] = TRUE]
        /\ confirming[s] \in mappings' /\ confirming[s] # NoFile
    BY <1>7 DEF Confirmed
  <2>2. CASE z = s
    BY <1>2, <2>1, <2>2
  <2>3. CASE z # s
    BY <1>3, <2>1, <2>3
  <2>. QED
    BY <2>2, <2>3
<1>8. ASSUME NEW s \in Sources, ConfirmFails(s)
      PROVE  confirming'[z] \in {confirming[z], NoFile} /\ previews' = previews /\ confirmed' = confirmed
  BY <1>8 DEF ConfirmFails
<1>9. CASE Start
  BY <1>9 DEF Start
<1>10. ASSUME page' = page
       PROVE  confirming' = confirming /\ previews' = previews /\ confirmed' = confirmed
  BY <1>10 DEF page
<1>11. CASE Work \/ \E d \in Deliveries, s \in Sources : IngestRows(d, s)
  <2>1. page' = page
    BY <1>11, WorkLeaves DEF IngestRows
  <2>. QED
    BY <1>3, <1>10, <2>1
<1>. QED
  BY <1>3, <1>4, <1>5, <1>6, <1>7, <1>8, <1>9, <1>11 DEF Next, Work

LEMMA NextBlocking ==
    ASSUME Typed, Answered, BlockingIsConfirmed, Next
    PROVE  BlockingIsConfirmed'
<1>. SUFFICES ASSUME NEW s \in Sources, run'[s] # NoFile, run'[s] \in BelowThreshold,
                     s \notin overtaken'
              PROVE  \E f \in mappings' : Header(f) = Header(run'[s])
  BY DEF BlockingIsConfirmed
<1>1. s \notin overtaken
  BY DEF Next, Drop, Previewed, Confirm, Confirmed, ConfirmFails, Start, Take, Ingested, Die,
     IngestRows, IngestRaises, page
<1>2. CASE Start
  <2>1. run' = previews /\ Ready(s) /\ mappings' = mappings
    BY <1>2 DEF Start
  <2>2. confirmed[s]
    BY <2>1 DEF Ready
  <2>. QED
    BY <1>1, <2>1, <2>2 DEF Answered
<1>3. CASE run' = run
  BY <1>1, <1>3, HeadersStay DEF BlockingIsConfirmed
<1>. QED
  BY <1>2, <1>3 DEF Next, Drop, Previewed, Confirm, Confirmed, ConfirmFails, Take, Ingested, Die,
     IngestRows, IngestRaises

(***************************************************************************)
(* The theorems.                                                           *)
(***************************************************************************)

IInv == Typed /\ Ended /\ InsertedOnce /\ Answered /\ BlockingIsConfirmed

LEMMA InitIInv == Init => IInv
<1>1. Init => BlockingIsConfirmed
  BY DEF Init, BlockingIsConfirmed
<1>. QED
  BY <1>1, InitTyped DEF IInv

LEMMA NextIInv == IInv /\ [Next]_vars => IInv'
<1>. SUFFICES ASSUME IInv, [Next]_vars
              PROVE  IInv'
  OBVIOUS
<1>1. CASE Next
  <2>1. Typed'
    BY <1>1, NextTypeOK, NextStored DEF IInv, Typed
  <2>. QED
    BY <1>1, <2>1, NextEnded, NextInserted, NextAnswered, NextBlocking DEF IInv
<1>2. CASE UNCHANGED vars
  <2>1. Typed'
    BY <1>2 DEF vars, page, work, IInv, Typed, TypeOK, Whole, Stored, Reported, Created
  <2>2. Ended' /\ InsertedOnce' /\ Answered' /\ BlockingIsConfirmed'
    BY <1>2 DEF vars, page, work, IInv, Ended, InsertedOnce, Answered, BlockingIsConfirmed
  <2>. QED
    BY <2>1, <2>2 DEF IInv
<1>. QED
  BY <1>1, <1>2

\* Every variable has its type: a preview, a confirmation and a run hold files
\* of their own source that have rows, and no report counts below zero.
THEOREM TypeCorrect == Spec => []TypeOK
<1>1. IInv => TypeOK
  BY DEF IInv, Typed
<1>. QED
  BY <1>1, InitIInv, NextIInv, PTL DEF Spec

LEMMA CoversTables == IInv => TransformsCoverTables
<1>. SUFFICES ASSUME IInv PROVE TransformsCoverTables
  OBVIOUS
<1>1. ASSUME NEW s \in Sources, run[s] # NoFile, NEW m \in Range(RowsOf[run[s]])
      PROVE  Raises(s, m) <=> Slips(s, m)
  <2>1. run[s] \in Files /\ SourceOf(run[s]) = s
    BY <1>1 DEF IInv, Typed, TypeOK
  <2>2. m \in [Fields[s] -> Int]
    BY <2>1, RowTyped DEF RowsOf, Range
  <2>. QED
    BY <2>2, RaisesIsSlips
<1>2. ASSUME NEW d \in Deliveries, task[d] = "raised"
      PROVE  \E s \in todo[d] : \E m \in Range(RowsOf[run[s]]) : Slips(s, m)
  <2>1. PICK s \in todo[d] : \E m \in Range(RowsOf[run[s]]) : Raises(s, m)
    BY <1>2 DEF IInv, Ended
  <2>2. s \in Sources /\ run[s] # NoFile
    BY <1>2, <2>1 DEF IInv, Typed, TypeOK, Stored, Whole
  <2>. QED
    BY <1>1, <2>1, <2>2
<1>3. ASSUME NEW s \in Sources, run[s] # NoFile, NEW m \in Range(RowsOf[run[s]]), Slips(s, m)
      PROVE  records[s] = {}
  BY <1>1, <1>3 DEF IInv, Ended
<1>4. ASSUME NEW d \in Deliveries, task[d] = "ingested", NEW s \in Sources
      PROVE  records[s] = LoadedRows(Content[run[s]])
  BY <1>4 DEF IInv, Typed, Stored
<1>. QED
  BY <1>2, <1>3, <1>4 DEF TransformsCoverTables

\* A delivery ends by a row it sends only for what the transforms do not look
\* at; of such a file nothing is stored, and of the files of a delivery that
\* has ingested them what the evaluation loads.
THEOREM CoverCorrect == Spec => []TransformsCoverTables
  BY CoversTables, InitIInv, NextIInv, PTL DEF Spec

\* The rows of a file are reported as inserted by one delivery only, however
\* often and in whatever order the task is delivered.
THEOREM InsertedCorrect == Spec => []InsertedOnce
<1>1. IInv => InsertedOnce
  BY DEF IInv
<1>. QED
  BY <1>1, InitIInv, NextIInv, PTL DEF Spec

\* A file below the threshold comes into a run with its header confirmed.
THEOREM BlockingCorrect == Spec => []BlockingIsConfirmed
<1>1. IInv => BlockingIsConfirmed
  BY DEF IInv
<1>. QED
  BY <1>1, InitIInv, NextIInv, PTL DEF Spec

LEMMA UsableUnasked == IInv => UnaskedIsUsable
<1>. SUFFICES ASSUME IInv, NEW s \in Sources
              PROVE  /\ Ready(s) /\ ~ confirmed[s] /\ Lacking[previews[s]] # {} =>
                           s = "gateway_settlement" /\ Cardinality(Lacking[previews[s]]) = 1
                     /\ run[s] # NoFile /\ Lacking[run[s]] # {} => records[s] = {}
  BY DEF UnaskedIsUsable
<1>1. /\ previews[s] # NoFile => previews[s] \in Files /\ SourceOf(previews[s]) = s
      /\ run[s] # NoFile => run[s] \in Files /\ SourceOf(run[s]) = s
  BY DEF IInv, Typed, TypeOK
<1>2. \A f \in Files : Lacking[f] = UnmappedRequired(Content[f])
  BY DEF Lacking
<1>3. ASSUME Ready(s), ~ confirmed[s], Lacking[previews[s]] # {}
      PROVE  s = "gateway_settlement" /\ Cardinality(Lacking[previews[s]]) = 1
  <2>1. previews[s] \in Files /\ SourceOf(previews[s]) = s /\ ~ Blocking(Content[previews[s]])
    BY <1>1, <1>3 DEF Ready, BelowThreshold
  <2>. QED
    BY <1>2, <1>3, <2>1, UnblockedLacks
<1>4. ASSUME run[s] # NoFile, Lacking[run[s]] # {}
      PROVE  records[s] = {}
  BY <1>1, <1>2, <1>4, LackingLoadsNothing DEF IInv, Typed, Stored
<1>. QED
  BY <1>3, <1>4

\* A file that is ready without a question lacks no required column, but for
\* one of the settlements; of a file that lacks one nothing is stored.
THEOREM UnaskedCorrect == Spec => []UnaskedIsUsable
  BY UsableUnasked, InitIInv, NextIInv, PTL DEF Spec

===============================================================================
