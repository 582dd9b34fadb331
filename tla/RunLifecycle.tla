---------------------------- MODULE RunLifecycle ----------------------------
(***************************************************************************)
(* A reconciliation run from the request that creates it to its end:       *)
(* create_run and cancel_run (app/api/runs.py), the Celery queue, the task *)
(* run_reconciliation (app/tasks/run_task.py) and Orchestrator.run         *)
(* (app/orchestrator/orchestrator.py) over the rows of PostgreSQL.         *)
(*                                                                         *)
(* A step is one database transaction, or one look at committed data, with *)
(* the control flow up to the next.  What a run computes is left to the    *)
(* other modules: here an exception is a number and a match is nothing.    *)
(***************************************************************************)
EXTENDS Naturals, Sequences, FiniteSets

CONSTANTS
    Uploads,        \* uploaded files
    Runs,           \* manifests: a run is known by the set of its files
    NoRun,
    Clients,        \* API requests served at the same time
    Workers,        \* worker processes
    Exceptions,     \* how many exceptions the classifier finds
    Guarded,        \* runs with a result that a unique index guards
    TriageAnswers,  \* what a triage call may come to
    ExplainAnswers, \* what an explain call may come to
    Frail,          \* the runs in which a process may die or a step raise
    MaxDeliveries,  \* bound: how often the queue delivers one message
    MaxCancels      \* bound: cancel requests recorded for one run

Answers == {"valid", "invalid", "unavailable"}

ASSUME RunsAssumption == Runs \subseteq SUBSET Uploads /\ NoRun \notin Runs
ASSUME AnswersAssumption ==
    TriageAnswers \subseteq Answers /\ ExplainAnswers \subseteq Answers
ASSUME KindsAssumption == Guarded \subseteq Runs /\ Frail \subseteq Runs
ASSUME BoundsAssumption ==
    Exceptions \in Nat /\ MaxDeliveries \in Nat \ {0} /\ MaxCancels \in Nat

\* STATE_SEQUENCE and RunStatus.
StateSequence ==
    <<"INGEST", "SCHEMA_MAP", "VALIDATE", "MATCH_T1", "MATCH_T2", "MATCH_T3",
      "VERIFY_FEES", "CLASSIFY_EXCEPTIONS", "TRIAGE", "EXPLAIN", "PERSIST",
      "METRICS", "AWAIT_REVIEW">>
States == {StateSequence[i] : i \in DOMAIN StateSequence}
OrchestratorState == States \cup {"CANCELLED"}
RunStatus == {"queued", "running", "awaiting_review", "completed", "cancelled"}
Ended == {"completed", "cancelled"}

\* The state run() enters after s.
After(s) ==
    CHOOSE t \in States :
        \E i \in 1..(Len(StateSequence) - 1) :
            s = StateSequence[i] /\ t = StateSequence[i + 1]

\* Mutant: no look after PERSIST.
Mut_Unpolled == {"SCHEMA_MAP", "PERSIST", "METRICS", "AWAIT_REVIEW"}

\* What run() does once _transition(s) is committed, and whether it looks for
\* a cancel request before it leaves s.
Working == {"SCHEMA_MAP", "TRIAGE", "EXPLAIN", "PERSIST", "METRICS", "AWAIT_REVIEW"}
Unpolled == {"SCHEMA_MAP", "METRICS", "AWAIT_REVIEW"}

VARIABLES
    status,         \* run -> recon_run.status, "none" without a row
    ostate,         \* run -> recon_run.orchestrator_state
    metrics,        \* run -> whether recon_run.metrics is filled
    owner,          \* upload -> the run whose data_source_file has its id
    loaded,         \* run -> the files whose rows are in the record tables
    saved,          \* run -> what each commit of PERSIST wrote
    log,            \* run -> actions and states of its audit entries
    queue,          \* run -> its messages waiting for a worker
    sent,           \* run -> its messages delivered or waiting
    cpc, creq, reply,       \* client -> where its request stands
    job, at, step,          \* worker -> its run, state and place in run()
    done,                   \* worker -> files it has ingested
    triaged, explained,     \* worker -> exceptions each loop has passed
    proposed,               \* worker -> exceptions with a hypothesis
    degraded                \* worker -> result.llm_degraded

database == <<status, ostate, metrics, owner, loaded, saved, log>>
broker == <<queue, sent>>
clients == <<cpc, creq, reply>>
progress == <<triaged, explained, proposed, degraded>>
loops == <<done, progress>>
worker == <<job, at, step, loops>>
vars == <<database, broker, clients, worker>>

ClientSteps == {"idle", "create", "enqueue", "cancel"}
Replies == {"none", "accepted", "existing", "conflict", "failed"}
WorkerSteps ==
    {"idle", "prepare", "enter", "work", "poll", "stop", "stopped", "finish"}
Batch == [visited : 0..Exceptions, degraded : BOOLEAN]

TypeOK ==
    /\ status \in [Runs -> RunStatus \cup {"none"}]
    /\ ostate \in [Runs -> OrchestratorState]
    /\ metrics \in [Runs -> BOOLEAN]
    /\ owner \in [Uploads -> Runs \cup {NoRun}]
    /\ loaded \in [Runs -> SUBSET Uploads]
    /\ saved \in [Runs -> Seq(Batch)]
    /\ log \in [Runs -> Seq(OrchestratorState \cup {"run_created", "cancel_requested"})]
    /\ queue \in [Runs -> 0..MaxDeliveries]
    /\ sent \in [Runs -> 0..MaxDeliveries]
    /\ cpc \in [Clients -> ClientSteps]
    /\ creq \in [Clients -> Runs \cup {NoRun}]
    /\ reply \in [Clients -> Replies]
    /\ job \in [Workers -> Runs \cup {NoRun}]
    /\ at \in [Workers -> States]
    /\ step \in [Workers -> WorkerSteps]
    /\ done \in [Workers -> SUBSET Uploads]
    /\ triaged \in [Workers -> 0..Exceptions]
    /\ explained \in [Workers -> 0..Exceptions]
    /\ proposed \in [Workers -> SUBSET (1..Exceptions)]
    /\ degraded \in [Workers -> BOOLEAN]

Init ==
    /\ status = [r \in Runs |-> "none"]
    /\ ostate = [r \in Runs |-> "INGEST"]
    /\ metrics = [r \in Runs |-> FALSE]
    /\ owner = [f \in Uploads |-> NoRun]
    /\ loaded = [r \in Runs |-> {}]
    /\ saved = [r \in Runs |-> <<>>]
    /\ log = [r \in Runs |-> <<>>]
    /\ queue = [r \in Runs |-> 0]
    /\ sent = [r \in Runs |-> 0]
    /\ cpc = [c \in Clients |-> "idle"]
    /\ creq = [c \in Clients |-> NoRun]
    /\ reply = [c \in Clients |-> "none"]
    /\ job = [w \in Workers |-> NoRun]
    /\ at = [w \in Workers |-> "INGEST"]
    /\ step = [w \in Workers |-> "idle"]
    /\ done = [w \in Workers |-> {}]
    /\ triaged = [w \in Workers |-> 0]
    /\ explained = [w \in Workers |-> 0]
    /\ proposed = [w \in Workers |-> {}]
    /\ degraded = [w \in Workers |-> FALSE]

\* _cancel_requested, and the cancel requests recorded or about to be.
CancelRequested(r) == \E i \in DOMAIN log[r] : log[r][i] = "cancel_requested"
Cancels(r) ==
    Cardinality({i \in DOMAIN log[r] : log[r][i] = "cancel_requested"})
        + Cardinality({c \in Clients : cpc[c] = "cancel" /\ creq[c] = r})

----------------------------------------------------------------------------
(* The API.  A request's validation that changes nothing is left out.      *)

Answer(c, a) ==
    /\ cpc' = [cpc EXCEPT ![c] = "idle"]
    /\ reply' = [reply EXCEPT ![c] = a]

\* create_run: the look-up by manifest.
Lookup(c, r) ==
    /\ cpc[c] = "idle"
    /\ creq' = [creq EXCEPT ![c] = r]
    /\ IF status[r] # "none"
       THEN Answer(c, "existing")
       ELSE /\ cpc' = [cpc EXCEPT ![c] = "create"]
            /\ reply' = [reply EXCEPT ![c] = "none"]
    /\ UNCHANGED <<database, broker, worker>>

\* Mutant: an upload may be listed by two runs.
Mut_Collides(r) == status[r] # "none"

\* The keys the new rows collide with: the manifest of the run, the id of a
\* data_source_file, which is the id of the upload.
Collides(r) == status[r] # "none" \/ \E f \in r : owner[f] # NoRun

Insert(c) ==
    /\ cpc[c] = "create"
    /\ ~Collides(creq[c])
    /\ LET r == creq[c] IN
        /\ status' = [status EXCEPT ![r] = "queued"]
        /\ ostate' = [ostate EXCEPT ![r] = "INGEST"]
        /\ owner' = [f \in Uploads |-> IF f \in r THEN r ELSE owner[f]]
        /\ log' = [log EXCEPT ![r] = Append(@, "run_created")]
    /\ cpc' = [cpc EXCEPT ![c] = "enqueue"]
    /\ UNCHANGED <<metrics, loaded, saved, broker, creq, reply, worker>>

\* The IntegrityError is not caught: the request ends in a server error.
InsertFails(c) ==
    /\ cpc[c] = "create"
    /\ Collides(creq[c])
    /\ Answer(c, "failed")
    /\ UNCHANGED <<database, broker, creq, worker>>

\* Mutant: the message is sent twice.
Mut_Enqueue(c) ==
    /\ cpc[c] = "enqueue"
    /\ queue' = [queue EXCEPT ![creq[c]] = @ + 2]
    /\ sent' = [sent EXCEPT ![creq[c]] = @ + 2]
    /\ Answer(c, "accepted")
    /\ UNCHANGED <<database, creq, worker>>

\* run_reconciliation.delay, after the commit.
Enqueue(c) ==
    /\ cpc[c] = "enqueue"
    /\ queue' = [queue EXCEPT ![creq[c]] = @ + 1]
    /\ sent' = [sent EXCEPT ![creq[c]] = @ + 1]
    /\ Answer(c, "accepted")
    /\ UNCHANGED <<database, creq, worker>>

\* cancel_run: the status is read first, the audit entry written after.
CheckCancel(c, r) ==
    /\ cpc[c] = "idle"
    /\ status[r] # "none"
    /\ creq' = [creq EXCEPT ![c] = r]
    /\ IF status[r] \in Ended
       THEN Answer(c, "conflict")
       ELSE /\ Cancels(r) < MaxCancels
            /\ cpc' = [cpc EXCEPT ![c] = "cancel"]
            /\ reply' = [reply EXCEPT ![c] = "none"]
    /\ UNCHANGED <<database, broker, worker>>

RecordCancel(c) ==
    /\ cpc[c] = "cancel"
    /\ log' = [log EXCEPT ![creq[c]] = Append(@, "cancel_requested")]
    /\ Answer(c, "accepted")
    /\ UNCHANGED <<status, ostate, metrics, owner, loaded, saved, broker, creq, worker>>

\* The API process dies: what was not committed or sent is gone.
ClientDies(c) ==
    /\ cpc[c] # "idle" /\ creq[c] \in Frail
    /\ Answer(c, "failed")
    /\ UNCHANGED <<database, broker, creq, worker>>

----------------------------------------------------------------------------
(* The queue.  Celery acknowledges a message when a worker starts the task; *)
(* one that waits too long in a worker's reserve is delivered again.       *)

Redeliver(r) ==
    /\ sent[r] > 0 /\ sent[r] < MaxDeliveries
    /\ queue' = [queue EXCEPT ![r] = @ + 1]
    /\ sent' = [sent EXCEPT ![r] = @ + 1]
    /\ UNCHANGED <<database, clients, worker>>

----------------------------------------------------------------------------
(* The worker.                                                             *)

Goto(w, s) == step' = [step EXCEPT ![w] = s]

\* run_reconciliation up to its first commit: the status is overwritten
\* whatever it was.
Receive(w, r) ==
    /\ step[w] = "idle" /\ queue[r] > 0
    /\ queue' = [queue EXCEPT ![r] = @ - 1]
    /\ status' = [status EXCEPT ![r] = "running"]
    /\ job' = [job EXCEPT ![w] = r]
    /\ at' = [at EXCEPT ![w] = "INGEST"]
    /\ Goto(w, "prepare")
    /\ done' = [done EXCEPT ![w] = {}]
    /\ triaged' = [triaged EXCEPT ![w] = 0]
    /\ explained' = [explained EXCEPT ![w] = 0]
    /\ proposed' = [proposed EXCEPT ![w] = {}]
    /\ degraded' = [degraded EXCEPT ![w] = FALSE]
    /\ UNCHANGED <<ostate, metrics, owner, loaded, saved, log, sent, clients>>

\* The files of the run are read and their mappings proposed.
Prepare(w) ==
    /\ step[w] = "prepare"
    /\ Goto(w, "enter")
    /\ UNCHANGED <<database, broker, clients, job, at, loops>>

\* Mutant: the entry is written, the row is not updated.
Mut_Transition(r, s) ==
    /\ log' = [log EXCEPT ![r] = Append(@, s)]
    /\ UNCHANGED <<status, ostate, metrics, owner, loaded, saved>>

\* _transition
Transition(r, s) ==
    /\ ostate' = [ostate EXCEPT ![r] = s]
    /\ log' = [log EXCEPT ![r] = Append(@, s)]
    /\ UNCHANGED <<status, metrics, owner, loaded, saved>>

\* _transition(at)
Enter(w) ==
    /\ step[w] = "enter"
    /\ Transition(job[w], at[w])
    /\ Goto(w, IF at[w] \in Working THEN "work" ELSE "poll")
    /\ UNCHANGED <<broker, clients, job, at, loops>>

\* The work of a state is finished: poll, or go straight to the next state.
Leave(w) ==
    IF at[w] \in Unpolled
    THEN Goto(w, "enter") /\ at' = [at EXCEPT ![w] = After(at[w])]
    ELSE Goto(w, "poll") /\ UNCHANGED at

\* _cancelled: no request recorded.
PollClear(w) ==
    /\ step[w] = "poll"
    /\ ~CancelRequested(job[w])
    /\ Goto(w, "enter")
    /\ at' = [at EXCEPT ![w] = After(at[w])]
    /\ UNCHANGED <<database, broker, clients, job, loops>>

PollCancel(w) ==
    /\ step[w] = "poll"
    /\ CancelRequested(job[w])
    /\ Goto(w, "stop")
    /\ UNCHANGED <<database, broker, clients, job, at, loops>>

\* _cancelled: the transition and the status are two commits.
StopState(w) ==
    /\ step[w] = "stop"
    /\ Transition(job[w], "CANCELLED")
    /\ Goto(w, "stopped")
    /\ UNCHANGED <<broker, clients, job, at, loops>>

Release(w) ==
    /\ Goto(w, "idle")
    /\ job' = [job EXCEPT ![w] = NoRun]
    /\ UNCHANGED <<at, loops>>

\* Mutant: the run goes on after it is marked.
Mut_StopStatus(w) ==
    /\ step[w] = "stopped"
    /\ status' = [status EXCEPT ![job[w]] = "cancelled"]
    /\ Goto(w, "enter")
    /\ at' = [at EXCEPT ![w] = After(at[w])]
    /\ UNCHANGED <<ostate, metrics, owner, loaded, saved, log, broker, clients,
                   job, loops>>

StopStatus(w) ==
    /\ step[w] = "stopped"
    /\ status' = [status EXCEPT ![job[w]] = "cancelled"]
    /\ Release(w)
    /\ UNCHANGED <<ostate, metrics, owner, loaded, saved, log, broker, clients>>

\* SCHEMA_MAP: one commit per file; rows that are there already are kept.
LoadFile(w) ==
    /\ step[w] = "work" /\ at[w] = "SCHEMA_MAP"
    /\ \E f \in {f \in Uploads : owner[f] = job[w]} \ done[w] :
        /\ loaded' = [loaded EXCEPT ![job[w]] = @ \cup {f}]
        /\ done' = [done EXCEPT ![w] = @ \cup {f}]
    /\ UNCHANGED <<status, ostate, metrics, owner, saved, log, broker, clients,
                   job, at, step, progress>>

\* Mutant: the loop may be left early.
Mut_Loaded(w) ==
    /\ step[w] = "work" /\ at[w] = "SCHEMA_MAP"
    /\ Leave(w)
    /\ UNCHANGED <<database, broker, clients, job, loops>>

Loaded(w) ==
    /\ step[w] = "work" /\ at[w] = "SCHEMA_MAP"
    /\ {f \in Uploads : owner[f] = job[w]} \subseteq done[w]
    /\ Leave(w)
    /\ UNCHANGED <<database, broker, clients, job, loops>>

\* Mutant: a reply that does not validate ends the loop.
Mut_TriageEnds(w, a) == a # "valid"

\* Whether a reply ends the TRIAGE loop: one that does not validate only
\* leaves its exception without a hypothesis.
TriageEnds(w, a) == a = "unavailable"

\* One turn of the TRIAGE loop.
Triage(w) ==
    /\ step[w] = "work" /\ at[w] = "TRIAGE" /\ triaged[w] < Exceptions
    /\ ~CancelRequested(job[w])
    /\ \E a \in TriageAnswers :
        /\ degraded' = [degraded EXCEPT ![w] = (a = "unavailable")]
        /\ IF TriageEnds(w, a)
           THEN Leave(w) /\ UNCHANGED <<triaged, proposed>>
           ELSE /\ triaged' = [triaged EXCEPT ![w] = @ + 1]
                /\ proposed' = [proposed EXCEPT ![w] =
                                    IF a = "valid" THEN @ \cup {triaged[w] + 1} ELSE @]
                /\ UNCHANGED <<at, step>>
    /\ UNCHANGED <<database, broker, clients, job, done, explained>>

Triaged(w) ==
    /\ step[w] = "work" /\ at[w] = "TRIAGE"
    /\ triaged[w] = Exceptions \/ CancelRequested(job[w])
    /\ Leave(w)
    /\ UNCHANGED <<database, broker, clients, job, loops>>

\* One turn of the EXPLAIN loop: exceptions without a hypothesis, and all of
\* them once a cancel is requested, are passed over.
PassOver(w) ==
    /\ step[w] = "work" /\ at[w] = "EXPLAIN" /\ ~degraded[w]
    /\ explained[w] < Exceptions
    /\ explained[w] + 1 \notin proposed[w] \/ CancelRequested(job[w])
    /\ explained' = [explained EXCEPT ![w] = @ + 1]
    /\ UNCHANGED <<database, broker, clients, job, at, step, done, triaged,
                   proposed, degraded>>

Explain(w) ==
    /\ step[w] = "work" /\ at[w] = "EXPLAIN" /\ ~degraded[w]
    /\ explained[w] + 1 \in proposed[w] /\ ~CancelRequested(job[w])
    /\ \/ /\ "valid" \in ExplainAnswers
          /\ explained' = [explained EXCEPT ![w] = @ + 1]
          /\ UNCHANGED degraded
       \/ /\ "unavailable" \in ExplainAnswers
          /\ degraded' = [degraded EXCEPT ![w] = TRUE]
          /\ UNCHANGED explained
    /\ UNCHANGED <<database, broker, clients, job, at, step, done, triaged, proposed>>

\* Only the two errors of an LLM that is not there are caught here: one that
\* does not validate leaves run() and ends the task; the run is a frail one.
ExplainRaises(w) ==
    /\ step[w] = "work" /\ at[w] = "EXPLAIN" /\ ~degraded[w]
    /\ explained[w] + 1 \in proposed[w] /\ ~CancelRequested(job[w])
    /\ "invalid" \in ExplainAnswers /\ job[w] \in Frail
    /\ Release(w)
    /\ UNCHANGED <<database, broker, clients>>

Explained(w) ==
    /\ step[w] = "work" /\ at[w] = "EXPLAIN"
    /\ explained[w] = Exceptions \/ degraded[w]
    /\ Leave(w)
    /\ UNCHANGED <<database, broker, clients, job, loops>>

\* What keeps a second set of results out: uniq_active_member for members of
\* match groups, and the unique line of a fee_variance.  Exceptions have neither.
Blocked(r) == r \in Guarded /\ saved[r] # <<>>

\* The four persist functions and their single commit.
Persist(w) ==
    /\ step[w] = "work" /\ at[w] = "PERSIST"
    /\ ~Blocked(job[w])
    /\ saved' = [saved EXCEPT ![job[w]] =
                    Append(@, [visited |-> triaged[w], degraded |-> degraded[w]])]
    /\ Leave(w)
    /\ UNCHANGED <<status, ostate, metrics, owner, loaded, log, broker, clients,
                   job, loops>>

\* Mutant: what is there already is taken for a run that is done.
Mut_PersistFails(w) ==
    /\ step[w] = "work" /\ at[w] = "PERSIST"
    /\ Blocked(job[w])
    /\ status' = [status EXCEPT ![job[w]] = "completed"]
    /\ Release(w)
    /\ UNCHANGED <<ostate, metrics, owner, loaded, saved, log, broker, clients>>

\* The IntegrityError ends the task; the run stays as it is shown.
PersistFails(w) ==
    /\ step[w] = "work" /\ at[w] = "PERSIST"
    /\ Blocked(job[w])
    /\ Release(w)
    /\ UNCHANGED <<database, broker, clients>>

SaveMetrics(w) ==
    /\ step[w] = "work" /\ at[w] = "METRICS"
    /\ metrics' = [metrics EXCEPT ![job[w]] = TRUE]
    /\ Leave(w)
    /\ UNCHANGED <<status, ostate, owner, loaded, saved, log, broker, clients,
                   job, loops>>

AwaitReview(w) ==
    /\ step[w] = "work" /\ at[w] = "AWAIT_REVIEW"
    /\ status' = [status EXCEPT ![job[w]] = "awaiting_review"]
    /\ Goto(w, "finish")
    /\ UNCHANGED <<ostate, metrics, owner, loaded, saved, log, broker, clients,
                   job, at, loops>>

\* Mutant: only a run that is still running is completed.
Mut_Complete(w) ==
    /\ step[w] = "finish"
    /\ status' = [status EXCEPT ![job[w]] = IF @ = "running" THEN "completed" ELSE @]
    /\ Release(w)
    /\ UNCHANGED <<ostate, metrics, owner, loaded, saved, log, broker, clients>>

\* The end of run_reconciliation.
Complete(w) ==
    /\ step[w] = "finish"
    /\ status' = [status EXCEPT ![job[w]] = IF @ = "cancelled" THEN @ ELSE "completed"]
    /\ Release(w)
    /\ UNCHANGED <<ostate, metrics, owner, loaded, saved, log, broker, clients>>

\* An exception leaves the task, or the worker dies: nothing is written, and
\* the message was acknowledged when the task began.
Abandon(w) ==
    /\ step[w] # "idle" /\ job[w] \in Frail
    /\ Release(w)
    /\ UNCHANGED <<database, broker, clients>>

----------------------------------------------------------------------------
Proceed(c) == Insert(c) \/ InsertFails(c) \/ Enqueue(c) \/ RecordCancel(c)

Advance(w) ==
    \/ \E r \in Runs : Receive(w, r)
    \/ Prepare(w) \/ Enter(w)
    \/ PollClear(w) \/ PollCancel(w) \/ StopState(w) \/ StopStatus(w)
    \/ LoadFile(w) \/ Loaded(w)
    \/ Triage(w) \/ Triaged(w)
    \/ PassOver(w) \/ Explain(w) \/ ExplainRaises(w) \/ Explained(w)
    \/ Persist(w) \/ PersistFails(w)
    \/ SaveMetrics(w) \/ AwaitReview(w) \/ Complete(w)

Next ==
    \/ \E c \in Clients : \/ \E r \in Runs : Lookup(c, r) \/ CheckCancel(c, r)
                          \/ Proceed(c) \/ ClientDies(c)
    \/ \E r \in Runs : Redeliver(r)
    \/ \E w \in Workers : Advance(w) \/ Abandon(w)

Spec == Init /\ [][Next]_vars

\* A request that was begun is carried on, a worker that can act acts.
\* Nothing makes a request come, a message repeat or a process die.
FairSpec ==
    /\ Spec
    /\ \A c \in Clients : WF_vars(Proceed(c))
    /\ \A w \in Workers : WF_vars(Advance(w))

----------------------------------------------------------------------------
(* Properties.                                                             *)

\* The places in a run's audit trail where a state is named, and those of them
\* that follow one another.
StateEntries(r) == {i \in DOMAIN log[r] : log[r][i] \in OrchestratorState}
Consecutive(r, i, j) ==
    i < j /\ \A k \in StateEntries(r) : ~ (i < k /\ k < j)

\* The states that may follow s: the next one, or CANCELLED; none follows
\* CANCELLED itself or the last state.
Successors(s) ==
    {t \in OrchestratorState :
        /\ s \notin {"CANCELLED", "AWAIT_REVIEW"}
        /\ t = "CANCELLED" \/ \E i \in 2..Len(StateSequence) :
                                 s = StateSequence[i - 1] /\ t = StateSequence[i]}

\* orchestrator.py:5-6, "the state machine IS the audit trail": the entries
\* of a run name the states in their order, up to the one its row shows, with
\* CANCELLED as the only departure.
TrailIsStateMachine ==
    \A r \in Runs :
        /\ \A i, j \in StateEntries(r) :
              Consecutive(r, i, j) => log[r][j] \in Successors(log[r][i])
        /\ \A i \in StateEntries(r) :
              /\ (\A j \in StateEntries(r) : i <= j) => log[r][i] = "INGEST"
              /\ (\A j \in StateEntries(r) : j <= i) => log[r][i] = ostate[r]

\* A run that is shown as finished has all its results: one set of groups and
\* exceptions, its metrics, and the rows of all its files.
CompletedIsWhole ==
    \A r \in Runs : status[r] \in {"awaiting_review", "completed"} =>
        /\ Len(saved[r]) = 1 /\ metrics[r]
        /\ ostate[r] = "AWAIT_REVIEW"
        /\ r \subseteq loaded[r]

\* The TRIAGE loop stops half way for a cancel request or for want of an LLM;
\* a set of exceptions that only the cancel cut short is never stored.
StoredTriageIsWhole ==
    \A r \in Runs : \A i \in DOMAIN saved[r] :
        saved[r][i].degraded \/ saved[r][i].visited = Exceptions

\* However often its message is delivered, and wherever a delivery meets the
\* rows of another and gives up: a run that is shown as finished has results,
\* metrics and the rows of all its files.
FinishedHasResults ==
    \A r \in Runs : status[r] \in {"awaiting_review", "completed"} =>
        saved[r] # <<>> /\ metrics[r] /\ r \subseteq loaded[r]

\* Runs whose manifests share a file do not take it from each other: a run
\* has the files it was created with.
FilesBelongToTheirRun ==
    \A r \in Runs : status[r] # "none" => \A f \in r : owner[f] = r

\* models_run.py:36, "A run is immutable once complete": a run that is
\* completed or cancelled is not written again.
ImmutableOnceEnded ==
    [][\A r \in Runs : status[r] \in Ended =>
        /\ status'[r] = status[r] /\ ostate'[r] = ostate[r]
        /\ saved'[r] = saved[r] /\ metrics'[r] = metrics[r]]_vars

\* Every run that is created and that nothing fails in ends, whatever dies or
\* raises in the runs beside it.
EveryRunEnds ==
    \A r \in Runs \ Frail : status[r] = "queued" ~> status[r] \in Ended

\* In such a run a cancel recorded before it has entered PERSIST is honoured,
\* whatever state the cancel falls into.
EarlyCancelStops ==
    \A r \in Runs \ Frail :
        (/\ CancelRequested(r)
         /\ status[r] \in {"queued", "running"}
         /\ ostate[r] \notin {"PERSIST", "METRICS", "AWAIT_REVIEW"})
            ~> status[r] = "cancelled"
=============================================================================
