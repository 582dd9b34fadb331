# Milaan, verified: TLA+ models, checks and proofs

Milaan reconciles the orders, gateway settlement lines and bank credits of a
merchant: a FastAPI backend accepts uploads and creates runs, a Celery worker
drives each run through a state machine over PostgreSQL, and reviewers decide
what the matching left open. This directory models that program in TLA+,
checks the models with TLC and proves theorems about them with TLAPS.

Paths below are relative to the repository; `milaan/` stands for `src/milaan/`.

## 1. The system

| Part | Code | State it keeps | Operations |
|---|---|---|---|
| Matching cascade | `milaan/domain/matching/` | match groups with members, allocated amounts and a tier label; `line_to_group`, `used_line_ids` | `match_t1`, `match_t2`, `match_t3`, `run_t1_t2_t3` |
| Audit log | `milaan/adapters/audit/audit_log.py`, `milaan/domain/audit_hash.py` | `audit_log` rows and the sequence behind `id` | `append_entry`, `verify_chain` |
| Run lifecycle | `milaan/app/api/runs.py`, `milaan/app/tasks/`, `milaan/app/orchestrator/` | `recon_run` (status, orchestrator_state, metrics), `data_source_file`, record tables, the Celery queue, the worker's local result | `create_run`, `cancel_run`, `run_reconciliation`, `Orchestrator.run` |
| Exception review | `milaan/app/api/exceptions.py` | `exception_item` rows and their locks | approve, reject, escalate, bulk approve |
| Integrity triggers | `migrations/versions/0002_c5_allocation_integrity.py` | none of their own | `uniq_active_member`, `trg_allocation_balances`, REVOKE on `audit_log` |
| Classifier, fees, money | `milaan/domain/exception_classifier.py`, `fee_verification.py`, `money.py` | none (pure) | `classify_exceptions`, `verify_fees`, rounding |
| Ingest | `milaan/adapters/ingest/`, `milaan/domain/ingest_transform.py`, `milaan/app/api/ingest.py`, `frontend/src/views/MappingReview.vue` | the page's previews and confirmations, `schema_mapping`, record tables | preview, confirm a mapping, transform and insert rows |
| LLM adapter | `milaan/adapters/llm/` | the reply cache on disk, the hypotheses and explanations of a run | `complete` in three modes with retry, `triage_exception`, `explain_exception` |
| Baseline, scoring, synthetic data | `milaan/domain/matching/baseline.py`, `scoring.py`, `milaan/adapters/synthetic/`, `milaan/eval/` | none (pure) | `naive_match`, `links_from_groups`, `score`, `generate`, the pathology table |
| Frontend stores | `frontend/src/stores/` | lists, the selected item, what is being decided | load, select, decide |

How they interact: the page previews and confirms the mapping of each file;
`create_run` commits a row and then sends a message; the worker receives it,
reads the files, proposes their mappings anew and inserts their rows, calls the
cascade, the fee check and the classifier on what it loaded, asks the LLM
adapter about each exception and writes groups and exceptions in one commit,
which the triggers may refuse. Every transition, cancel request and review
decision calls `append_entry` in the transaction of its caller. The cancel
request is itself an audit entry, which the worker polls.

What is hard about it:

- *Concurrency.* API handlers and the worker write to one run at the same
  time; identical requests overlap; reviewers decide one item at once; two
  bulk approvals lock rows in any order; the workers of several runs share the
  files of the reply cache. No handler takes a lock before it reads.
- *Failure.* A process may die between two commits, between a commit and the
  message that should follow it, or between opening and writing a cache entry;
  the LLM may be absent or answer out of schema in the middle of a loop; a row
  may raise what no handler expects; transactions roll back after drawing ids.
- *Ordering.* A message may be delivered twice; answers reach the page in any
  order; the order of ids in the audit log is not the order of commits; in the
  cascade the outcome of an iteration depends on merges made by earlier ones,
  which its snapshot does not show.
- *Bounds and numbers.* T3 searches subsets under a candidate cap, a size cap and
  a budget, of which only the budget makes it refuse; fees are rounded twice and
  compared at a tolerance of two paise.

What makes each part correct: groups are disjoint, balance, and keep both the
bank evidence and the order tie; T3 infers only what is unique; the database
accepts what the cascade returns; a record about which no exception is raised
is reconciled in truth; rows are stored once, and the transforms refuse what
their tables would; a replay repeats the live run and keeps only answers that
were given; the trail is a chain and its verification is exact; a run's trail is
its state machine, its results are whole, there when it is shown as finished, and
final; a status is what the trail says, and what a reviewer is told is so.

Not all of that is so: section 3 says where the code falls short of it.

## 2. The modules

| Module | What it is |
|---|---|
| `Cascade` | the three tiers, one action per loop iteration |
| `MCCascade` | batches for it |
| `CascadeProofs` | theorems about `Cascade` |
| `Fees` | rounding, rate card bands and the verdict on a fee (pure) |
| `Reconcile` | `Cascade` and `Fees` composed with the classifier, PERSIST under the triggers, the metrics and the baseline |
| `Synthetic` | the batches that `generate()` makes with their notes of the truth, and the scoring of `Reconcile` against them |
| `MCReconcile` | plans for `Synthetic`, and uploads |
| `ReconcileProofs` | theorems about `Reconcile`, from those about `Cascade` |
| `SyntheticProofs` | theorems about `Synthetic`, from those about `Reconcile` and `Cascade` |
| `AuditTrail` | what the audit log promises: a trail per run that grows at its end |
| `AuditChain` | `append_entry` statement by statement in concurrent transactions, `verify_chain`, and the refinement of `AuditTrail` |
| `MCAuditChain` | instances |
| `AuditChainProofs` | theorems about `AuditChain` |
| `RunLifecycle` | requests, queue, task and orchestrator |
| `MCRunLifecycle` | instances, symmetry, a view |
| `RunLifecycleProofs` | theorems about `RunLifecycle` |
| `ExceptionReview` | review requests as concurrent transactions |
| `MCExceptionReview` | instances |
| `ExceptionReviewProofs` | theorems about `ExceptionReview` |
| `LlmClient` | the client, its cache and the TRIAGE and EXPLAIN loops of several runs |
| `MCLlmClient` | two live runs and a replay, over exceptions that share prompts or do not |
| `LlmClientProofs` | theorems about `LlmClient` |
| `Ingest` | mapping and row transform (pure) |
| `Intake` | the mapping page, the ingest routes and the deliveries of the task, over `Ingest` |
| `MCIntake` | files for it |
| `IntakeProofs` | theorems about `Intake` |

Operators named `Mut_...` are wrong variants of the definition they stand
beside. Each shows, for one property, that a plausible slip in the code would
be found; nothing else uses them.

### Cascade

`members`, `amount`, `grade` are a group's fields (`types.py`); `live` is
`result.groups`; `home` is `line_to_group` as it was when the tier began;
`pool` is what `used_line_ids` leaves; `tie` remembers which lines a tier
reported for a bank, and `refused` the three `ambiguous_*` sets. `T1Match` and
`T1Refuse` are the two ends of a T1 iteration; `T2Match`, `T2Refuse` and
`T2Decline` those of T2; `T3Match`, `T3Refuse` and `T3Skip` those of T3.
`Attach` is the code T2 and T3 share: choose the group with the smallest member
id, merge the others into it, upsert the lines at net and the bank at its
credit, relabel. A group that was merged away stays where `line_to_group` found
it, exactly as in the code, where the list still holds the object. `StartT2`
and `StartT3` are the hand-overs of `cascade.py`.

Entity ids are numbers in the order of the code's strings. What UTR extraction
finds in a narration is an input (`bankUtr`), and so are amounts, dates and the
cap on examined combinations. Currency is left out: a run has one.

### Fees, Reconcile, Synthetic

`Reconcile` extends `Cascade`: its action `Match` is a step of the cascade, and
`VerifyFees`, `Classify`, `PersistGroups`, `Commit` and `Measure` are the states
of the orchestrator after it, each with what may refuse it. `LineItems`,
`BankItems`, `OrderItems`, `FeeItems` and `TieItems` are the five parts of
`classify_exceptions`; an exception is a category and the entity it is about.
`rows` is `match_member`: the amount allocated to a member of a group, for each
pair that has a row. `PersistRefused` is `uniq_active_member`, which acts
on the statement, and `CommitRefused` is `trg_allocation_balances`, which is
deferred to the commit. Amounts are whole paise, as `Money` keeps them, and
`RoundHalfUp` is its `quantize`.

The entities are constants, so a case says which of them its batch has
(`present`). `Synthetic` computes a case from a plan, which holds what
`generate()` draws at random: the defect of each order, its gross, its day and
one number the defect needs. From these follow the settlement lines, the daily
credits with their colliding UTRs, the orphan credits, the manifest of defects
and the true links, as in the code. `Drawn` says what a plan may be, and
`Plans` are those considered: the batches whose defects the author has noted
are the ones that come from them (`PlanAssumption`). Currencies are one,
narrations yield their UTR, and the wording of an exception is left out.

### AuditTrail, AuditChain

`append_entry` is three statements (`DrawId`, `ReadLast`, `Insert`) between
`Begin` and `Commit` or `Rollback` of the caller's transaction; each sees
committed rows and its own, which is PostgreSQL's READ COMMITTED. Sequences do
not roll back. `Tamper` rewrites a committed row, by somebody with more rights
than the application has. SHA-256 is taken to be collision-free, so what was
hashed (`sealed`) stands for the hash. `Trail` reads the committed rows of a run
by id; under it `AuditChain` implements `AuditTrail` (`RefinesTrail`).

`Serial` names the runs whose transactions happen to follow one another. The
code does nothing to make them: on other runs they overlap, and there the chain
forks (run `audit_forked`).

### RunLifecycle

One action per transaction or look at committed data. A run is known by its
manifest, the set of its files; the insert collides with an existing manifest
and with a file that another run lists (`Collides`). The worker's place is `at`
(the state) and `step`: `enter` is `_transition`, `work` what the state does,
`poll` is `_cancelled`, `stop` and `stopped` are the two commits of a cancelled
run. `Unpolled` lists the states that `run()` leaves without looking for a
cancel request. TRIAGE and EXPLAIN are loops over the exceptions; what a call
to the LLM comes to is chosen from valid, invalid (out of schema) and
unavailable. `Guarded` are the runs with a match group or a verified fee:
`uniq_active_member`, and the unique line of a fee variance, refuse a second
set of their results (`Blocked`, `PersistFails`); of the others nothing does.
`Frail` are the runs in which a process may die or a step raise; the others run
beside them, and share their uploads and workers. What the states compute is
left to `Reconcile`, `LlmClient` and `Intake`.

### ExceptionReview

Each handler is one transaction. A request names the route it came to (`bulk`),
so that a bulk approval of one item skips it where an approval is a conflict.
`Read` is the SELECT and its checks, then follow per item `Update`, `Lock`,
`AppendEntry`, then `Commit`. Row locks are held to the end of the transaction;
the UPDATE names the row by id only and does not look at its status again.
`BreakDeadlock` is PostgreSQL's.

### LlmClient

Each caller is a run in a worker of its own; all share one cache directory. A
prompt is what the cache key is the hash of: the text that the template makes of
an exception (`says`), and for EXPLAIN the proposal it quotes. `TriagePrompt`
quotes all of an exception and its record, `ExplainPrompt` only category and
amount beside hypothesis and action, so that exceptions may share an entry;
`Tellings` are the ways in which they do. A live run then asks again and
overwrites the entry. `Answer` opens the entry, which empties it, and `Store`
writes it and hands the reply to the loop; another caller or a death may come
between the two. `AskAgain` and `GiveUp` are the retry; `Miss`, `Hit` and
`HitTorn` are cached mode; `Unavailable` covers a missing key and a failed
request, which degrades the run or, with Anthropic, ends its task. `Receives`
is what the loops do with a reply, with the check of the cited records
(`Trusted`). Explanations are told apart (`Prose`), so that one which a replay
gives in place of another shows.

### Ingest, Intake

A file is a source, its columns and its rows. A column spells its field
exactly, by a synonym or in no way that is known, and a cell is a value, blank,
or junk, which does not parse as its field. `Ingest` is the mapper
(`UnmappedRequired`, `Blocking`), `apply_mapping` (`Mapped`), the three
transforms (`Refused`), the columns and constraints of the tables (`Fits`) and
the rows that pass the first and fail the second (`Raises`): no handler expects
them, and the task ends. `Limit` is the least amount that Numeric(20, 4) has no
room for; a currency is junk when it has more than three letters. `Intake` is the
page, one action per call and per answer (`Drop`, `Previewed`, `Confirm`,
`Confirmed`, `ConfirmFails`, `Start`), and the deliveries of the task, which
take the files of the run in any order (`IngestRows`, `IngestRaises`, `Die`).
The hash of a row is the row: equal values are taken to be spelt alike.

## 3. The runs

| Run | Question | Answer |
|---|---|---|
| `cascade_batches` | Are groups disjoint, balanced, with one bank; is a reported tie ever lost; does evidence stay beside its bank; are groups labelled by their weakest tie; does T3 match only what is unique? | yes: the first three unless a payment is divided (`Undivided`), the next two always; the last but for sums beyond the candidate cap or the size cap |
| `reconcile_cases` | Does the database accept what the cascade returns? Is a record without an exception reconciled? Which injected defects are missed, which links false, which alarms without cause? Does the baseline find more? | yes, unless a payment is divided; yes; those T3 explained by inference; those that T3 marked; none; no, but where several lines share a UTR |
| `audit_mixed` | Does `verify_chain` find exactly the rewritten rows; does a trail grow at its end only; can a row be chained to one that was rolled back? | yes, yes, where transactions follow one another; no, anywhere |
| `run_once` | Does a trail follow the state machine; is a finished run whole and final; do runs keep their files, whatever fails; does every run end, and does a cancel recorded before PERSIST stop it? | yes; the last two for runs in which no process dies and no step raises, whatever becomes of the run beside them |
| `run_redelivered` | Can a run be shown as finished without results, metrics or rows when its message is delivered twice and either delivery may fail or be refused? | no, whether its results are refused a second time (`Guarded`) or not |
| `review_overlap` | Does the status agree with the trail; does a 409 mean decided; has a request that is told it is done left one of its items open? | yes; yes; no |
| `llm_replay` | Is every hypothesis and explanation kept one that was given to that prompt, with records of the run; does a replay repeat the live run; what can spoil an entry? | yes; prompt by prompt, if each had a reply in the schema: items that share one all get what its last item got; a killed worker, or live runs that overlap |
| `intake_files` | Do the transforms refuse every row that its table would, and does what slips through leave anything stored of its file; is each inserted once over two deliveries, either of which may die; does a file that blocks come in unconfirmed; is what comes in unasked usable? | no: a currency, a balance and an amount slip through, and end the task; nothing; yes; only when a preview came beside a confirmation; yes, but for a settlement file that lacks one column |
| `cascade_shared` | Is no entity in two groups, with partial settlements? | no: a later merge uses a group that is no longer listed |
| `cascade_capped` | Does T3 refuse when a second sum exists? | no: not when it has more lines than the size cap, or lines beyond the candidate cap |
| `audit_forked` | Does an untouched trail verify when transactions overlap? | no: both chain to the same row |
| `review_twice` | Is an item decided once? | no: two requests may both read it open |

The last four are disagreements between the code and what a test or document
says of it; each is quoted under `findings` in `PROJECT.json`. More was met
while modelling, and shows in how the properties and actions are stated:

- a partial settlement leaves `line_to_group` pointing at a group that a merge
  took off the list. A T2 match may fill that group: its bank is then in no
  group of the result, and T3 is offered it again. So `EvidenceTogether` and
  `LineBacksOneBank` speak of the banks of the result. With entity ids in an
  order where a bank comes first (they are UUIDs), such a group may even become
  the target of a later merge and take a listed group with it: three credits are
  matched and the result has no group at all. That is why
  `BaselineIsNoBetter` is stated for payments that are not divided;
- when a credit is matched with some parts of a payment and not with the others,
  a match that was reported, an order tie, the rule of one bank to a group or
  the balance of a group (`GroupsBalance`) may be lost: the part that reached no
  bank stays at gross. The properties that this breaks are stated for payments
  that are not divided: their parts bear one UTR (`Uniform`) and no credit is
  matched with some of them only (`Together`). Partial settlements that are kept
  together are covered. PERSIST fails as a whole when such a group reaches it;
- what T2 refuses because two credits claim the UTR is offered to T3, which may
  tie it to one of them;
- a defect is missed when T3 finds a sum for its record. "12/12 categories, all
  injected defects correctly detected, 0 missed" (README.md:61) is of the one
  seeded batch it measured; in small batches, where few lines are free, such
  sums happen, and `MissedOnlyByInference` says that nothing else is missed;
- a payment id left blank raises two exceptions, `ambiguous_multi_candidate`
  for the line and `missing_in_gateway` for its order;
- `total_amount_at_risk` adds signed differences, which cancel out, and the
  auto-match rate counts lines of groups that have no bank;
- `SCHEMA_MAP` and `METRICS` are left without a look for a cancel request;
- an explanation out of schema ends the task, and the run stays running: TRIAGE
  catches `LLMValidationError`, EXPLAIN does not. A run whose worker or creator
  dies between commits is not taken up again either. `EveryRunEnds` is stated
  for explanations that validate and processes that live;
- of two identical requests that overlap the second breaks the unique key of
  the manifest and ends in a server error, not in the existing run;
- a second delivery sets an ended run back to running, though
  `models_run.py:36` says "A run is immutable once complete"; so
  `ImmutableOnceEnded` and the properties of trails and of completed runs are
  stated for one delivery. Where the cascade finds no match group and
  no fee is verified, a second delivery stores the exceptions once more;
- a prompt left without a reply in the schema is not cached, so a replay stops
  there for want of the entry where the live run went on; and of exceptions that
  share an EXPLAIN prompt (`explain.py:18`: the same category, hypothesis, action
  and amount) the live run explains each anew, and a replay gives all of them the
  last explanation. That a replay repeats every live run item by item
  (`EveryLiveRunReplays`) therefore does not hold;
- the transforms are there to reject a row before it "fails as an opaque
  constraint-violation error" (`ingest_transform.py:94`, of one constraint). They
  check neither the length of a currency nor the size of an amount, and a balance
  that is no number raises `MoneyError` past the handler: such a row ends the
  task, and nothing of its file is stored;
- a settlement file that lacks one of its seven required columns is above the
  threshold: the page offers it as "already usable" (`MappingReview.vue:70`) and
  the run stores none of its rows;
- the task does not read the confirmed mapping back, although the page says of
  a confirmation that "the next file with the same header maps
  deterministically" (`MappingReview.vue:127`); the answer to a confirmation
  counts for whatever file the page shows by then, which is what
  `BlockingIsConfirmed` excludes (`overtaken`);
- the page says that only records dated inside the window are reconciled, but
  the records of a run are loaded without regard to their dates.

### Bounds, and why they are enough

- *Cascade*: two orders, three lines, two banks, two payment ids, two UTRs,
  every assignment of keys (less the renaming of one for the other), nets with
  two subsets of one sum and with a refund, a window that excludes a line, and
  budgets above and below the number of combinations. Three lines are what a
  second solution needs; two banks are what a contested UTR and a used line
  need. `MaxCandidates` is 3 and `MaxSize` 2, so that the caps cut off a fourth
  line of a window and sums of three; `cascade_capped` has the caps of the
  code, eight lines and one credit. The chain that loses a merge needs a fourth
  line and has a set of batches of its own (`cascade_shared`). A fourth line
  and a third credit, beside a payment settled under two UTRs, are what T3
  needs to meet a group that is not listed. The default caps (20 candidates,
  size 6, 200,000 combinations) never exceed the budget, so smaller ones are
  given.
- *Reconcile, Synthetic*: synthetic batches of three orders, each with any of
  the twelve defects or none (the third with a few of them, so that every pair
  meets a third order of another kind), on two or three settlement days and
  with a search that is whole or cut after two combinations; uploads of two
  orders, three lines and two credits with what no synthetic batch has: shared
  payment ids, reversals, a fee at the tolerance and beyond it, a line without
  an instrument, a UTR that two credits bear; and a payment of three that is
  settled under two UTRs, which the database may refuse. `IncidentSpan` is 2
  settlement days to an incident of a duplicate UTR (8 in the code), so that
  three days have one; `MaxIncidents` is 3. `CardLimit` is 2,000,000 paise
  (9,999,999,900 in the code, beyond TLC's integers); no gross comes near
  either. Tolerances are the code's: 1 and 2 paise.
- *AuditChain*: two sessions, two runs, two bodies, `MaxId` = 3 ids drawn: a
  first row, a row that rolls back or belongs to the other run, and a third
  that must be chained past it.
- *RunLifecycle*: two runs that share a file, since sharing is all that one
  does to another. In `run_once` two clients and two workers, two exceptions,
  so that a loop can stop between them, one delivery, and failures in one of
  the runs, so that what the other is promised is tested beside them; without
  symmetry, as liveness asks. In `run_redelivered` only one of the two can be
  created, one whose results are guarded and one whose are not; one exception,
  two workers, two deliveries of the message, failures in either. It drops from
  the states all of the trail but whether a cancel is requested, which is all
  that any step reads of it, and its workers are symmetric. `MaxCancels` is 1.
- *ExceptionReview*: four requests, which are symmetric; two items that may be
  approved together (so that two bulk approvals deadlock while others wait or
  come later), or in bulk one of them alone; a third item below the threshold,
  `BULK_APPROVE_MAX` 2. `MaxId` is what four requests of two items can draw and
  never binds. Deadlock is not checked here: each request comes once.
- *LlmClient*: a live run, a second one that is live or disabled, and a replay;
  two items, so that a loop can stop between them, with prompts of their own, with
  one EXPLAIN prompt, or with one of each kind; one sound proposal and one that
  cites an unknown record; two explanations, which are symmetric, so that two
  calls with one prompt may be answered differently; `MaxAttempts` 2, the code's.
  Deadlock is not checked: each run comes once.
- *Intake*: ten files: whole ones with rows that repeat or break a rule, ones
  that lack one or two required columns, one for each thing that slips through
  to a table (a currency, a balance, an amount), a file without rows. `Limit`
  is 100 (10^16 in the code, beyond TLC's integers); no other amount comes near
  it. `MaxDrops` 4 is one more than a run needs, so that a file is dropped over
  another; two deliveries. Deadlock is not checked: the run comes once.

### Fairness

`RunLifecycle!FairSpec`: a request handler that has begun goes on, and a worker
that has something to do does it (weak fairness of `Proceed` and `Advance`);
the code blocks nowhere else, and Celery's workers take what is queued. No
fairness is assumed of requests, cancel requests, redelivery or deaths.
Deaths and exceptions are left to chance in the runs of `Frail`; what must happen
is claimed of the others (`EveryRunEnds`, `EarlyCancelStops`). The other modules
state safety only: `Cascade` and `Reconcile` are loops over finite sets, whether
a run comes to its end is a question of `run_once`, and that a review request is
answered at all is PostgreSQL's doing, which grants a free row and breaks a ring
of waiting transactions.

## 4. The theorems

TLAPS proves these for every value of the constants: any number of records,
runs, sessions, requests, files, deliveries, callers, whatever the caps and
bounds. Each safety property that a run checks has its theorem; those of the
lifecycle that need a single delivery, and two of the synthetic batches, have
it under a hypothesis that the statement names and the text below explains.
Every inductive invariant below holds on the instance of its run, by TLC,
beside the proof for all.

### `CascadeProofs`

- `TypeCorrect`: types. `Typed` adds that a line is a member of the group it
  refers to (`Homed`), that listed groups have members, and that a group a tier
  has still to open is empty (`Fresh`), so that a match never opens over what
  another left.
- `EvidenceCorrect`, `LinesCorrect`, `LabelsCorrect` (`EvidenceTogether`,
  `LineBacksOneBank`, `InferenceMarked`). The properties are about listed
  groups, which are not enough to reason with: an iteration may fill a group it
  finds through a line and that is listed no more. `Evidenced` speaks of all
  groups that an iteration may still fill (`Reach`): in T2 a line backs the bank
  of its own UTR only (`ByUtr`), T3 is offered what backs no bank there
  (`Offered`), and each bank has its lines beside it (`Evident`, `Backed`).
- `WholeCorrect`, `TiesCorrect` (`WholeIsSound`, `TiesAreKept`), for payments
  that are not divided, however many parts they have. `Whole` says what
  `Undivided` buys: a line still to be matched stands alone or in a listed group
  without a bank (`AtHome`), so that a merge never meets a second bank nor a
  group off the list, and groups are of the shapes the tiers make (`Shaped`).
  `Together` is about matches to come as well as those made; that it holds of
  the state before when it holds of the state after (`UndividedBefore`) makes
  `Whole` inductive.
- `UniqueCorrect` (`T3MatchIsUnique`), for any number of lines and any caps: a set
  of free lines of the window that adds up to the credit of a match is the
  matched one, or it has more lines than the size cap or a line with as many
  lines of the window before it as the candidate cap allows (`BeyondCaps`). A set
  that is neither is among the combinations of the candidates
  (`SearchCoversWindow`), and the budget has not cut the search of a match off.
  `UniqueInSearch` is that last half by itself: the match is the only solution
  among the combinations.

The first lemmas give a merge its least group, and the orders of T3's credits,
candidates and combinations their first elements, by well-founded induction on
the subsets of a finite set.

### `ReconcileProofs`

- `RunsTheCascade`: matching in `Reconcile` is the cascade of `Cascade`, so all
  invariants above hold of it and are used below.
- `ReconcileTypeCorrect`: types; it needs that rounding and the verdict on a fee
  stay among the integers (`VerdictType`).
- `CommitCorrect` (`WholeIsCommitted`): both triggers pass. From `WholeCorrect`:
  members are unique and groups balance, so the sums of the inserted rows of a
  group with a bank are equal (`InsertedBalances`).
- `CleanCorrect` (`CleanIsReconciled`), with partial settlements too. The
  classifier looks at sums and ties, not at how a line came beside a bank;
  `Formed` closes the gap: groups without a bank are whole groups of T1
  (`Bare`), an order brings all lines of its payment along (`Accompanied`), and
  where an order's only line is in a group with a bank it backs one there
  (`Backing`). Then silence about a record, in all five parts of the
  classifier, means that it is reconciled (`ClassifyReconciles`).
- `BaselineCorrect` (`BaselineIsNoBetter`): `Paired` says that T1 has matched
  what has one candidate, and T2 what one UTR ties to one credit; the baseline
  has no other evidence.

### `SyntheticProofs`

For every batch that `generate()` may make, of any number of orders and days,
with any of the twelve defects at each.

- `LinksCorrect` (`FalseLinksAreInferred`), whatever is divided. `Agreeing` says
  that no group bears the label T3 before T3 starts, and that the lines and
  banks of a group without it share one UTR. A line bears the UTR of its day, and
  only the credit of that day, or the one of the next day when it is a
  `duplicate_utr` victim, bears it too (`UtrOfDay`); a line tied to the victim
  would need a second credit of its UTR, which T2 refuses.
- `DefectsDetected`, `AlarmsCaused` (`MissedOnlyByInference`,
  `EveryAlarmHasCause`), where no payment is divided; that the parts of a
  payment bear one UTR follows from the batch (`GivenIsUniform`). Once
  classified, a batch is `Accurate`, and that follows from the state the
  cascade left (`Exact`): T1 and T2 have matched what has one candidate
  (`Paired`), groups are of the known shapes (`Whole`, `Formed`), T2 has
  refused each UTR that two credits bear (`Disputed`), and the verdicts are
  those of the rate card (`Verdicts`). Then `UnseenIsRaised`, `VictimIsRaised`
  and `OrphanIsRaised` go through the defects, one lemma for each way in which
  the classifier sees one, and `LineAlarmIsCaused` to `TieAlarmIsCaused`
  through the five parts of the classifier in the opposite direction: an
  undisputed day's lines add up to its credit, so T2 matches them, and an
  honest line is within tolerance of the card (`HonestIsWithin`).
- The arithmetic beneath: the days of a plan in order (`RankOfEach`), no two
  adjacent ones both victims (`VictimsApart`), and the rounding of a skewed fee
  (`SkewShows`).

### `AuditChainProofs`

- `TypeCorrect`: types.
- `VerifyExact` (`VerifyIsExact`). What `verify_chain` compares, each
  row with the one before it by id, is not inductive: it speaks of committed
  rows only, and a commit makes several rows visible at once. `IInv` speaks of
  all rows that are present: each is linked to the present row before it
  (`Linked`), the rows and the id that a transaction on a serial run holds come
  after all committed ones (`InOrder`), and what it read is still the last row
  (`LastRead`), because nobody else writes there (`OneWriter`, `OpenOwned`).
  That ids are drawn once (`IdsDrawn`, `IdsApart`) keeps an insert from
  overwriting a row; `SealedButBody` says what rewriting can change. One lemma
  per action shows that it preserves `IInv`; `InvExact` goes from present rows
  back to committed ones.
- `LinksStayInRun` (`PrevIsKept`), from `IInv` and two more facts: what
  a session has read is a row it sees, and an open row is chained to a row its
  own transaction sees, which commits with it.
- `TrailRefined` (`RefinesTrail`): the log implements `AuditTrail`. Only a
  commit changes a trail (`OnlyCommits`); by `InOrder` the rows it adds come
  after those that are there, and such ids leave the places of the others as
  they are (`LaterKeepsPlaces`), so the old trail is a prefix of the new one.

### `RunLifecycleProofs`

For any deliveries: `TypeCorrect`; `FilesCorrect` (`FilesBelongToTheirRun`),
since a worker loads the files of the run it holds and a file belongs to one
run; `TriageCorrect` (`StoredTriageIsWhole`), where `Settled` says that only a
cancel request cuts the TRIAGE loop short, and that the look which follows sees
it; and `FinishedCorrect`
(`FinishedHasResults`): what a worker at some state has seen done, its results,
metrics and rows, is in the database (`StoredBy`) and never taken back
(`ResultsGrow`), so that whichever delivery comes to AWAIT_REVIEW finds it there.

For `MaxDeliveries = 1`: `TrailCorrect`, `CompletedCorrect`, `EndedCorrect`
(`TrailIsStateMachine`, `CompletedIsWhole`, `ImmutableOnceEnded`). The
hypothesis is in the statement because these do not hold otherwise: a second
delivery starts the state machine over and sets an ended run back to running.
`OneDelivery` says that one worker holds a run (`Alone`), that the work of the
states before the one it is at is done (`Worked`), and that the trail ends
where it stands (`Tracked`).

### `ExceptionReviewProofs`

- `TypeCorrect`, from the same invariant as the next.
- `StatusCorrect` (`StatusIsLastDecision`). The invariant adds that
  rows are held by transactions under way (`HeldByOne`), that the entries a
  transaction has appended are about rows it holds (`MineIsHeld`) and are
  younger than every committed entry of their items (`MineIsLast`): that is what
  makes them the last entries when it commits.
- `ConflictCorrect`, `DoneCorrect` (`ConflictMeansDecided`,
  `DoneMeansDecided`): an item is not opened again, and a request in its
  transaction has each of its items decided, in its own entries or still to do
  (`Covered`), so that all of them are when it commits (`Kept`).

### `LlmClientProofs`

- `TypeCorrect`, and `AnswersCorrect` (`AnswersAreVouched`): what is in an entry,
  held by a caller or kept was given to that prompt (`Given`), and a loop has
  results behind it only (`Ahead`).
- `TornEntriesExplained` (`ReplayDiesOfTornEntry`): an entry is torn only while
  its caller writes it, or once a caller was killed or two have overlapped
  (`Torn`).
- `ReplayCorrect` (`ReplayRepeatsLive`), however items share their prompts: the
  cache holds what the only live caller last made of each prompt (`Recorded`), so
  that a replay, which reads those entries in the same order, has it at every item
  up to where it is (`Repeated`).
- `DistinctCorrect`: where no two items have the same text, the last item of a
  prompt is the only one, and the replay repeats the live run item by item
  (`DistinctIsSame`).

### `IntakeProofs`

- `TypeCorrect`, and `CoverCorrect` (`TransformsCoverTables`): a row that passes
  its transform and does not fit its table has a currency, a balance or an amount
  that the transform does not look at (`RaisesIsSlips`); of a file with such a row
  nothing is stored, and what ended a delivery is one of them (`Ended`).
- `InsertedCorrect` (`InsertedOnce`), for any number of deliveries and
  deaths: the rows of a file are all there or none is (`Stored`), and a delivery
  that has yet to take a file has reported nothing of it (`Reported`).
- `BlockingCorrect` (`BlockingIsConfirmed`): unless a preview overtook the
  confirmation, what is being confirmed is the file the page shows, and what it
  counts as confirmed has its header among the mappings (`Answered`).
- `UnaskedCorrect` (`UnaskedIsUsable`), by counting: a file that does not block
  lacks nothing, or one column of the seven of settlements (`UnblockedLacks`), and
  of a file that lacks a required column nothing is loaded
  (`LackingLoadsNothing`).

### Assumptions

Only those the modules state about their constants, which TLC evaluates on every
run: entities and keys are numbers and finite in number, kinds of entities are
disjoint, budgets and caps are numbers, the batches, cases, files and requests
given are well-formed, a batch in a case is one of the batches, items are
numbered from 1 and finite, `Serial` is a set of runs, sessions, runs and
deliveries exist. None says how many there are.

`PlanAssumption` says what `generate()` may draw (`Drawn`): days of the period, a
gross that is on the rate card, a drift of more than the tolerance (100 paise and
up in the code), a fee skew that exceeds the tolerance after rounding (the least
gross, 500 paise, at the least skew, 50 bps, is just the fee at which it does),
and a pushed settlement that lies after the period. An order is created up to
four days before the end of the period and settled one to three days later, so
that its day falls in the period if that has four days or more.
`IncidentAssumption` has two days or more to an incident (8 in the code): with
one, two victims could be adjacent, and the later one would be the only credit
that bears the UTR of the earlier one's day.

### Only model-checked

- `MissedOnlyByInference` and `EveryAlarmHasCause` for batches in which T3 matches
  a credit with one part of a partial settlement only, that is without `Together`.
  TLC finds them true there: PERSIST refuses such a run, so that nothing is
  claimed of it. The refusal is of a group whose lines and banks differ in sum;
  to prove that they differ takes the sum of a union from the sums of its parts,
  which is induction over a set (below).
- Liveness (`EveryRunEnds`, `EarlyCancelStops`): the provers handle neither
  ENABLED nor fairness.
- What a recursive definition or a fold computes for every input: induction
  over data needs theorems with operator parameters. The proofs about sums use
  only that equal functions have equal sums, and single summands.

## 5. What is not modelled

- The hash and canonical JSON, SQL and ORM, the decoding of CSV and XLSX, the
  extraction of UTRs from narrations, prompts and HTTP: conversions whose
  outcome the modules take as an input or a choice.
- `propose_mapping_with_llm`: only tests call it.
- The trigger that follows the status of a match group: nothing in the code
  changes that status after the insert.
- The stores of exceptions and runs in the frontend: what they show may be of
  an older request, but a decision names its item and the server judges it.
- Severities, confidences, reasons and traces of an exception; rates, which are
  quotients of the sets that `metrics` keeps.
- The golden set, the triage evaluation, the evaluation gate and the report,
  which measure the program from outside; read-only routes, views, styles,
  configuration and application wiring.

`PROJECT.json` lists every component with its status.

## 6. State of the project

The cascade, the audit log, the lifecycle, the review, the pipeline from
matching to metrics with its synthetic batches, the LLM client and ingest are
modelled and checked, and each safety property of a run is proved as section 4
says. What a continuation would take up:

1. `Synthetic` without `Together`, once sums over sets can be reasoned about.
2. `Fees`: that the band of a rate card is the only one that covers an amount,
   and that a verdict does not depend on the order of the card's rows.
3. The stores of the frontend, whose hazard no property covers.
4. A run that shows what a second delivery does to an ended run.

The number of runs is kept small: a new question about a component joins the
run of its module, and a disagreement that another run illustrates as well is
described above instead.
