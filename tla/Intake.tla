-------------------------------- MODULE Intake --------------------------------
(***************************************************************************)
(* Three files on their way into a run: the page where they are dropped,   *)
(* previewed and confirmed (MappingReview.vue), the ingest routes behind   *)
(* it, and the deliveries of the run's task, each of which reads the files *)
(* and stores their rows.  Answers reach the page in any order.            *)
(***************************************************************************)
EXTENDS Ingest

CONSTANTS
    Content,        \* the files that may be dropped, a sequence of records
    Deliveries,     \* of the run's task, by the workers
    MaxDrops        \* bound: files dropped on the page

ASSUME ContentAssumption ==
    \A f \in DOMAIN Content :
        /\ Content[f].source \in Sources
        /\ Content[f].columns \in Seq(STRING \X {"exact", "synonym", "unknown"})
        /\ Content[f].rows \in Seq(Seq(Int))
        /\ \A row \in Range(Content[f].rows) : Len(row) = Len(Content[f].columns)
ASSUME DeliveryAssumption == Deliveries # {}
ASSUME BoundAssumption == MaxDrops \in Nat

Files == DOMAIN Content
NoFile == 0

SourceOf(f) == Content[f].source
\* What a stored mapping is found by: source_type and header_fingerprint.
Header(f) == <<SourceOf(f), Content[f].columns>>

Lacking == [f \in Files |-> UnmappedRequired(Content[f])]
BelowThreshold == {f \in Files : Blocking(Content[f])}

\* The rows of a file as they come out of apply_mapping.
RowsOf == [f \in Files |->
    [i \in DOMAIN Content[f].rows |-> Mapped(Content[f], Content[f].rows[i])]]

VARIABLES
    previews,   \* source -> file whose preview is shown
    loading,    \* source -> a preview is on its way
    failed,     \* source -> an error is shown
    confirmed,  \* source -> the mapping counts as confirmed
    confirming, \* source -> file whose mapping is being confirmed
    asked,      \* previews on their way
    drops,      \* files dropped so far
    mappings,   \* schema_mapping: files whose mapping is stored
    run,        \* source -> file, once the run is created
    todo,       \* delivery -> sources it has yet to ingest
    task,       \* delivery -> how it stands
    records,    \* source -> rows stored for the run, by their hash
    summaries,  \* delivery -> source -> what ingest_rows returned
    overtaken   \* history: sources whose preview came beside a confirmation

page == <<previews, loading, failed, confirmed, confirming, asked, drops, overtaken>>
work == <<todo, task, records, summaries>>
vars == <<page, mappings, run, work>>

NoSummary == [total |-> 0, inserted |-> 0, duplicates |-> 0, errors |-> 0]

Init ==
    /\ previews = [s \in Sources |-> NoFile]
    /\ loading = [s \in Sources |-> FALSE]
    /\ failed = loading /\ confirmed = loading
    /\ confirming = previews /\ run = previews
    /\ asked = {} /\ mappings = {} /\ overtaken = {}
    /\ drops = 0
    /\ todo = [d \in Deliveries |-> Sources]
    /\ task = [d \in Deliveries |-> "waiting"]
    /\ records = [s \in Sources |-> {}]
    /\ summaries = [d \in Deliveries |-> [s \in Sources |-> NoSummary]]

Created == run["orders"] # NoFile

----------------------------------------------------------------------------
\* MappingReview.vue

\* loadFile
Drop(f) ==
    /\ ~ Created /\ drops < MaxDrops
    /\ drops' = drops + 1
    /\ loading' = [loading EXCEPT ![SourceOf(f)] = TRUE]
    /\ failed' = [failed EXCEPT ![SourceOf(f)] = FALSE]
    /\ confirmed' = [confirmed EXCEPT ![SourceOf(f)] = FALSE]
    /\ asked' = asked \cup {f}
    /\ UNCHANGED <<previews, confirming, overtaken, mappings, run, work>>

\* Mutant: a file without rows is shown like any other.
Mut_Previewed(f) ==
    /\ f \in asked
    /\ asked' = asked \ {f}
    /\ loading' = [loading EXCEPT ![SourceOf(f)] = FALSE]
    /\ previews' = [previews EXCEPT ![SourceOf(f)] = f]
    /\ UNCHANGED <<failed, confirmed, confirming, drops, overtaken, mappings, run, work>>

\* A preview, or the refusal of a file without rows, arrives; no request is
\* told from a later one of the same source.
Previewed(f) ==
    /\ f \in asked
    /\ asked' = asked \ {f}
    /\ loading' = [loading EXCEPT ![SourceOf(f)] = FALSE]
    /\ IF RowsOf[f] = <<>>
       THEN /\ previews' = [previews EXCEPT ![SourceOf(f)] = NoFile]
            /\ failed' = [failed EXCEPT ![SourceOf(f)] = TRUE]
       ELSE /\ previews' = [previews EXCEPT ![SourceOf(f)] = f]
            /\ UNCHANGED failed
    /\ overtaken' = overtaken \cup
           {s \in {SourceOf(f)} : confirmed[s] \/ confirming[s] # NoFile}
    /\ UNCHANGED <<confirmed, confirming, drops, mappings, run, work>>

\* The button is shown beside a preview and disabled while one is under way.
Confirm(s) ==
    /\ ~ Created
    /\ previews[s] # NoFile /\ ~ loading[s] /\ ~ confirmed[s]
    /\ confirming[s] = NoFile
    /\ confirming' = [confirming EXCEPT ![s] = previews[s]]
    /\ failed' = [failed EXCEPT ![s] = FALSE]
    /\ UNCHANGED <<previews, loading, confirmed, asked, drops, overtaken, mappings, run,
                   work>>

\* confirm_mapping stores the mapping for the header; the answer counts for
\* whatever the page shows by now.
Confirmed(s) ==
    /\ confirming[s] # NoFile
    /\ mappings' = {f \in mappings : Header(f) # Header(confirming[s])}
                   \cup {confirming[s]}
    /\ confirmed' = [confirmed EXCEPT ![s] = TRUE]
    /\ confirming' = [confirming EXCEPT ![s] = NoFile]
    /\ UNCHANGED <<previews, loading, failed, asked, drops, overtaken, run, work>>

ConfirmFails(s) ==
    /\ confirming[s] # NoFile
    /\ failed' = [failed EXCEPT ![s] = TRUE]
    /\ confirming' = [confirming EXCEPT ![s] = NoFile]
    /\ UNCHANGED <<previews, loading, confirmed, asked, drops, overtaken, mappings, run,
                   work>>

\* Mutant: a preview is ready when nothing failed.
Mut_Ready(s) == ~ loading[s] /\ ~ failed[s] /\ previews[s] # NoFile

\* stateOf: a mapping that does not block needs no confirmation.
Ready(s) ==
    /\ ~ loading[s] /\ ~ failed[s] /\ previews[s] # NoFile
    /\ confirmed[s] \/ previews[s] \notin BelowThreshold

\* startRun and create_run, which records the file of each source.  The page is
\* left, and what it still waits for is not followed any further.
Start ==
    /\ ~ Created /\ \A s \in Sources : Ready(s)
    /\ run' = previews
    /\ previews' = [s \in Sources |-> NoFile]
    /\ loading' = [s \in Sources |-> FALSE]
    /\ failed' = loading' /\ confirmed' = loading'
    /\ confirming' = previews' /\ asked' = {} /\ drops' = 0
    /\ UNCHANGED <<overtaken, mappings, work>>

----------------------------------------------------------------------------
\* run_reconciliation

\* The files are read and their mappings proposed anew, from the headers.
Take(d) ==
    /\ Created /\ task[d] = "waiting"
    /\ task' = [task EXCEPT ![d] = "ingesting"]
    /\ UNCHANGED <<page, mappings, run, todo, records, summaries>>

\* Mutant: rows stored before count as inserted.
Mut_New(s, valid) == valid

\* ON CONFLICT (run_id, row_hash) DO NOTHING.
New(s, valid) == valid \ records[s]

\* ingest_rows and the commit of one file, in no order that a query states.
IngestRows(d, s) ==
    LET mapped == RowsOf[run[s]]
        drafts == {i \in DOMAIN mapped : ~ Refused(s, mapped[i])}
        fresh == New(s, {mapped[i] : i \in drafts})
    IN
    /\ task[d] = "ingesting" /\ s \in todo[d]
    /\ \A m \in Range(mapped) : ~ Raises(s, m)
    /\ todo' = [todo EXCEPT ![d] = @ \ {s}]
    /\ records' = [records EXCEPT ![s] = @ \cup fresh]
    /\ summaries' = [summaries EXCEPT ![d][s] =
           [total |-> Len(mapped), inserted |-> Cardinality(fresh),
            duplicates |-> Cardinality(drafts) - Cardinality(fresh),
            errors |-> Len(mapped) - Cardinality(drafts)]]
    /\ UNCHANGED <<page, mappings, run, task>>

\* A row that no handler expects ends the task and rolls its file back.
IngestRaises(d, s) ==
    /\ task[d] = "ingesting" /\ s \in todo[d]
    /\ \E m \in Range(RowsOf[run[s]]) : Raises(s, m)
    /\ task' = [task EXCEPT ![d] = "raised"]
    /\ UNCHANGED <<page, mappings, run, todo, records, summaries>>

\* VALIDATE
Ingested(d) ==
    /\ task[d] = "ingesting" /\ todo[d] = {}
    /\ task' = [task EXCEPT ![d] = "ingested"]
    /\ UNCHANGED <<page, mappings, run, todo, records, summaries>>

\* The worker dies between two commits; another delivery starts from the top.
Die(d) ==
    /\ task[d] = "ingesting"
    /\ task' = [task EXCEPT ![d] = "died"]
    /\ UNCHANGED <<page, mappings, run, todo, records, summaries>>

Next ==
    \/ \E f \in Files : Drop(f) \/ Previewed(f)
    \/ \E s \in Sources : Confirm(s) \/ Confirmed(s) \/ ConfirmFails(s)
    \/ Start
    \/ \E d \in Deliveries :
          \/ Take(d) \/ Ingested(d) \/ Die(d)
          \/ \E s \in Sources : IngestRows(d, s) \/ IngestRaises(d, s)

Spec == Init /\ [][Next]_vars

----------------------------------------------------------------------------
(* Properties.                                                             *)

\* Every variable has its type.
TypeOK ==
    /\ {previews, confirming, run} \subseteq [Sources -> Files \cup {NoFile}]
    /\ \A s \in Sources : \A f \in {previews[s], confirming[s], run[s]} :
          f # NoFile => SourceOf(f) = s /\ RowsOf[f] # <<>>
    /\ {loading, failed, confirmed} \subseteq [Sources -> BOOLEAN]
    /\ asked \cup mappings \subseteq Files /\ overtaken \subseteq Sources
    /\ drops \in 0..MaxDrops
    /\ todo \in [Deliveries -> SUBSET Sources]
    /\ task \in [Deliveries -> {"waiting", "ingesting", "ingested", "raised", "died"}]
    /\ records = [s \in Sources |-> records[s]]
    /\ \A s \in Sources : records[s] \subseteq [Fields[s] -> Int]
    /\ summaries \in [Deliveries -> [Sources ->
           [total : Nat, inserted : Nat, duplicates : Nat, errors : Nat]]]

\* What passes a transform although its table has no room for it.
Slips(s, m) ==
    /\ ~ Refused(s, m)
    /\ \/ s = "orders" /\ m["currency"] = Junk
       \/ s = "bank_statement" /\ m["balance"] = Junk
       \/ Overflows(s, m)

\* ingest_transform.py:92 mirrors a CHECK of its table, so that no row "fails as an
\* opaque constraint-violation error"; so do the other transforms.  A task is
\* ended by a row it sends only for what they do not look at: a currency of more than three
\* letters, a balance that is no number, an amount of too many digits.  Of a file
\* with such a row nothing is stored; and once a delivery has ingested the files,
\* the run has stored what the evaluation would have measured of them
\* (load_batch.py:1-7).
TransformsCoverTables ==
    /\ \A d \in Deliveries : task[d] = "raised" =>
          \E s \in todo[d] : \E m \in Range(RowsOf[run[s]]) : Slips(s, m)
    /\ \A s \in Sources :
          run[s] # NoFile /\ (\E m \in Range(RowsOf[run[s]]) : Slips(s, m)) => records[s] = {}
    /\ (\E d \in Deliveries : task[d] = "ingested") =>
           \A s \in Sources : records[s] = LoadedRows(Content[run[s]])

\* The rows of a file are inserted by one delivery, which reports them all; the
\* others report none of them, and every row of the file is accounted for in
\* each report.
InsertedOnce ==
    /\ \A s \in Sources : \E d \in Deliveries :
          /\ summaries[d][s].inserted = Cardinality(records[s])
          /\ \A e \in Deliveries \ {d} : summaries[e][s].inserted = 0
    /\ \A d \in Deliveries, s \in Sources :
          LET r == summaries[d][s] IN r.total = r.inserted + r.duplicates + r.errors

\* A file below the threshold comes into a run only with its header confirmed,
\* unless the preview of another one arrived during or after a confirmation.
BlockingIsConfirmed ==
    \A s \in Sources : run[s] # NoFile /\ run[s] \in BelowThreshold /\ s \notin overtaken =>
        \E f \in mappings : Header(f) = Header(run[s])

\* MappingReview.vue:70, "A non-blocking mapping is already usable".  That is so
\* but for one file: settlements lack one of seven required columns, which is
\* above the threshold.  Such a file is ready without a question, and the run
\* stores nothing of it; nor does it of one that was confirmed.
UnaskedIsUsable ==
    \A s \in Sources :
        /\ Ready(s) /\ ~ confirmed[s] /\ Lacking[previews[s]] # {} =>
              s = "gateway_settlement" /\ Cardinality(Lacking[previews[s]]) = 1
        /\ run[s] # NoFile /\ Lacking[run[s]] # {} => records[s] = {}

=============================================================================
