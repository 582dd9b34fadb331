------------------------------- MODULE MCIntake -------------------------------
(***************************************************************************)
(* Files of each source: whole ones with rows that repeat or break a rule, *)
(* orders and settlements that lack one or two of the required columns,    *)
(* rows that end the task, a statement without rows.                       *)
(***************************************************************************)
EXTENDS Intake

\* A file whose columns are the given fields, all spelt in the same way; a
\* cell not named in a row is 0.
File(source, fields, how, rows) ==
    [source |-> source,
     columns |-> [i \in DOMAIN fields |-> <<fields[i], how>>],
     rows |-> [r \in DOMAIN rows |->
        [i \in DOMAIN fields |->
            IF fields[i] \in DOMAIN rows[r] THEN rows[r][fields[i]] ELSE 0]]]

OrderColumns ==
    <<"order_id", "gross", "payment_id", "order_status", "created_at", "currency">>
LineColumns ==
    <<"settlement_id", "line_type", "gross", "net", "settled_on", "fee", "tax", "instrument">>
BankColumns ==
    <<"utr_extracted", "value_date", "narration", "credit", "debit", "utr_extracted",
      "balance">>

Lines == <<
    [line_type |-> 1, gross |-> 10, fee |-> 2, tax |-> 1, net |-> 7, instrument |-> 1],
    [line_type |-> 1, gross |-> 10, fee |-> 2, tax |-> 1, net |-> 8, instrument |-> 1],
    [line_type |-> 2, gross |-> 4, net |-> -4, instrument |-> Blank]>>

\* The same file with the columns i..j unknown to the mapper.
Unknown(f, i, j) ==
    [f EXCEPT !.columns = [k \in DOMAIN @ |-> IF k \in i..j THEN <<"", "unknown">> ELSE @[k]]]

Settlement == File("gateway_settlement", LineColumns, "synonym", Lines)

MCContent == <<
    Unknown(File("orders", OrderColumns, "synonym", <<[order_id |-> 1]>>), 4, 4),
    File("orders", OrderColumns, "exact",
         <<[order_id |-> 1], [order_id |-> 1], [order_id |-> 2, payment_id |-> Blank]>>),
    File("orders", OrderColumns, "exact", <<[order_id |-> 1], [currency |-> Junk]>>),
    Settlement, Unknown(Settlement, 7, 7), Unknown(Settlement, 6, 7),
    File("bank_statement", BankColumns, "exact",
         <<[credit |-> 5], [credit |-> 5, debit |-> 5], [credit |-> 5, balance |-> Blank]>>),
    File("bank_statement", BankColumns, "synonym", <<[credit |-> 5, balance |-> Junk]>>),
    File("bank_statement", BankColumns, "synonym", <<[credit |-> 5], [credit |-> 100]>>),
    File("bank_statement", BankColumns, "exact", <<>>)>>
=============================================================================
