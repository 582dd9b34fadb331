-------------------------------- MODULE Ingest --------------------------------
(***************************************************************************)
(* What an uploaded file becomes: the mapping proposed for its columns and *)
(* the record each row is turned into, or why it is not.  A file is        *)
(*   [source |-> ..., columns |-> <<<<field, how>>, ...>>,                 *)
(*    rows |-> <<<<cell, ...>>, ...>>]                                     *)
(* where a column spells its field exactly, by a synonym of the table or   *)
(* in no way that is known.  Cells are integers: a value of its field,     *)
(* Blank, or Junk, which is not what the field asks for: no number, date   *)
(* or, of a currency, more than three letters.  Equal values are taken to  *)
(* be spelt alike, so a row's hash is the row itself.                      *)
(***************************************************************************)
EXTENDS Integers, Sequences, FiniteSetsExt, Functions

CONSTANT Limit  \* the least amount with more digits than its column, 10^16

ASSUME LimitAssumption == Limit \in Nat \ {0}

Sources == {"orders", "gateway_settlement", "bank_statement"}

Blank == -1000
Junk == -1001

Fields == [s \in Sources |->
    CASE s = "orders" ->
        {"order_id", "invoice_no", "customer_ref", "gross", "currency", "payment_id",
         "order_status", "created_at"}
    [] s = "gateway_settlement" ->
        {"settlement_id", "payment_id", "order_ref", "line_type", "gross", "fee", "tax",
         "net", "instrument", "settled_on", "utr"}
    [] OTHER ->
        {"value_date", "narration", "utr_extracted", "credit", "debit", "balance"}]

Required == [s \in Sources |->
    CASE s = "orders" ->
        {"order_id", "gross", "payment_id", "order_status", "created_at"}
    [] s = "gateway_settlement" ->
        {"settlement_id", "line_type", "gross", "fee", "tax", "net", "settled_on"}
    [] OTHER -> {"value_date", "narration", "credit", "debit"}]

\* LINE_TYPES, payment first, and INSTRUMENTS.
LineTypes == 1..5
Payment == 1
InstrumentCodes == 1..6

\* The columns that are Numeric(20, 4).
Amounts == [s \in Sources |->
    CASE s = "orders" -> {"gross"}
      [] s = "gateway_settlement" -> {"gross", "fee", "tax", "net"}
      [] OTHER -> {"credit", "debit", "balance"}]

----------------------------------------------------------------------------
\* mapping.py

\* propose_mapping: column -> field, where the column is one it knows.
Proposed(f) ==
    [i \in {j \in DOMAIN f.columns : f.columns[j][2] # "unknown"} |-> f.columns[i][1]]

UnmappedRequired(f) == Required[f.source] \ Range(Proposed(f))

\* Mutant: a threshold of 80, which four of five fields reach.
Mut_Blocking(f) ==
    LET required == Required[f.source]
    IN /\ UnmappedRequired(f) # {}
       /\ 100 * Cardinality(required \ UnmappedRequired(f)) < 80 * Cardinality(required)

\* What the preview of a file says of it: a required field is left unmapped
\* and fewer than 85 of 100 required ones are mapped.
Blocking(f) ==
    LET required == Required[f.source]
    IN /\ UnmappedRequired(f) # {}
       /\ 100 * Cardinality(required \ UnmappedRequired(f)) < 85 * Cardinality(required)

----------------------------------------------------------------------------
\* service.py, apply_mapping, and ingest_transform.py

\* Of two columns mapped to one field the later one counts.
ColumnOf(f, x) == Max({i \in DOMAIN Proposed(f) : Proposed(f)[i] = x})

Mapped(f, row) ==
    [x \in Fields[f.source] |->
        IF x \in Range(Proposed(f)) THEN row[ColumnOf(f, x)] ELSE Blank]

Unparsed(m, fields) == \E x \in fields : m[x] = Junk

\* _require
Lacks(s, m) == \E x \in Required[s] : m[x] = Blank

OrderRefused(m) ==
    \/ Unparsed(m, {"gross", "created_at"})
    \/ m["gross"] < 0

SettlementRefused(m) ==
    \/ m["line_type"] \notin LineTypes
    \/ m["instrument"] \notin InstrumentCodes \cup {Blank}
    \/ Unparsed(m, {"gross", "fee", "tax", "net", "settled_on"})
    \/ m["line_type"] = Payment /\ m["net"] # m["gross"] - m["fee"] - m["tax"]

\* Mutant: a row may be both a credit and a debit.
Mut_BankRefused(m) ==
    \/ Unparsed(m, {"credit", "debit"})
    \/ m["balance"] # Junk /\ m["value_date"] = Junk

\* The date is looked at last.
BankRefused(m) ==
    \/ Unparsed(m, {"credit", "debit"})
    \/ m["credit"] # 0 /\ m["debit"] # 0
    \/ m["balance"] # Junk /\ m["value_date"] = Junk

\* RowValidationError: the row is left out and the others go on.
Refused(s, m) ==
    \/ Lacks(s, m)
    \/ s = "orders" /\ OrderRefused(m)
    \/ s = "gateway_settlement" /\ SettlementRefused(m)
    \/ s = "bank_statement" /\ BankRefused(m)

Overflows(s, m) ==
    \E x \in Amounts[s] : m[x] \notin {Blank, Junk} /\ m[x] \notin (1 - Limit)..(Limit - 1)

\* models_records.py: the columns and constraints of the three tables.
Fits(s, m) ==
    /\ ~ Overflows(s, m)
    /\ CASE s = "orders" -> m["gross"] >= 0 /\ ~ Unparsed(m, {"currency", "created_at"})
         [] s = "gateway_settlement" ->
               /\ m["line_type"] \in LineTypes
               /\ m["instrument"] \in InstrumentCodes \cup {Blank}
               /\ ~ Unparsed(m, {"gross", "fee", "tax", "net", "settled_on"})
               /\ m["line_type"] = Payment => m["net"] = m["gross"] - m["fee"] - m["tax"]
         [] OTHER -> /\ ~ Unparsed(m, {"value_date", "credit", "debit", "balance"})
                     /\ m["credit"] = 0 \/ m["debit"] = 0

\* What no handler expects and ends the task: the error of the database for a
\* row that its table refuses, or the MoneyError of a balance.
Raises(s, m) == ~ Refused(s, m) /\ ~ Fits(s, m)

\* load_batch_from_directory: the rows that the evaluation measures.  It leaves
\* out a row for any exception of its transform.
LoadedRows(f) ==
    {m \in {Mapped(f, row) : row \in Range(f.rows)} :
        /\ ~ Refused(f.source, m)
        /\ f.source = "bank_statement" => m["balance"] # Junk}

=============================================================================
