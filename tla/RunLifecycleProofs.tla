-------------------------- MODULE RunLifecycleProofs --------------------------
(***************************************************************************)
(* Proofs about the life of a run: for any uploads, manifests, clients,    *)
(* workers and exceptions, whatever fails.  What needs one delivery of a   *)
(* message says so.                                                        *)
(***************************************************************************)
EXTENDS RunLifecycle, TLAPS

USE RunsAssumption, AnswersAssumption, KindsAssumption, BoundsAssumption

----------------------------------------------------------------------------
(* The sequence of states.                                                 *)

\* The states that run() goes through are thirteen, each entered from one other.
LEMMA StatesInOrder ==
    /\ States = {"INGEST", "SCHEMA_MAP", "VALIDATE", "MATCH_T1", "MATCH_T2", "MATCH_T3",
                 "VERIFY_FEES", "CLASSIFY_EXCEPTIONS", "TRIAGE", "EXPLAIN", "PERSIST",
                 "METRICS", "AWAIT_REVIEW"}
    /\ Len(StateSequence) = 13
    /\ \A s \in States \ {"AWAIT_REVIEW"} :
          \E i \in 1..12 : s = StateSequence[i]
    /\ \A i, j \in 1..13 : StateSequence[i] = StateSequence[j] => i = j
<1>1. Len(StateSequence) = 13 /\ DOMAIN StateSequence = 1..13
  BY DEF StateSequence
<1>2. States = {StateSequence[i] : i \in 1..13}
  BY <1>1 DEF States
<1>3. /\ StateSequence[1] = "INGEST" /\ StateSequence[2] = "SCHEMA_MAP"
      /\ StateSequence[3] = "VALIDATE" /\ StateSequence[4] = "MATCH_T1"
      /\ StateSequence[5] = "MATCH_T2" /\ StateSequence[6] = "MATCH_T3"
      /\ StateSequence[7] = "VERIFY_FEES" /\ StateSequence[8] = "CLASSIFY_EXCEPTIONS"
      /\ StateSequence[9] = "TRIAGE" /\ StateSequence[10] = "EXPLAIN"
      /\ StateSequence[11] = "PERSIST" /\ StateSequence[12] = "METRICS"
      /\ StateSequence[13] = "AWAIT_REVIEW"
  BY DEF StateSequence
<1>4. \A i \in 1..13 : i \in {1, 2, 3, 4, 5, 6, 7, 8, 9, 10, 11, 12, 13}
  OBVIOUS
<1>5. States = {"INGEST", "SCHEMA_MAP", "VALIDATE", "MATCH_T1", "MATCH_T2", "MATCH_T3",
                 "VERIFY_FEES", "CLASSIFY_EXCEPTIONS", "TRIAGE", "EXPLAIN", "PERSIST",
                 "METRICS", "AWAIT_REVIEW"}
  BY <1>2, <1>3, <1>4
<1>6. \A i, j \in 1..13 : StateSequence[i] = StateSequence[j] => i = j
  BY <1>3, <1>4
<1>7. \A s \in States \ {"AWAIT_REVIEW"} : \E i \in 1..12 : s = StateSequence[i]
  BY <1>2, <1>3
<1>. QED
  BY <1>1, <1>5, <1>6, <1>7

\* What is entered after the i-th state.
LEMMA AfterPlace ==
    ASSUME NEW i \in 1..12
    PROVE  After(StateSequence[i]) = StateSequence[i + 1]
<1>1. /\ Len(StateSequence) = 13 /\ StateSequence[i + 1] \in States
      /\ \A k, j \in 1..13 : StateSequence[k] = StateSequence[j] => k = j
  BY StatesInOrder DEF States, StateSequence
<1>2. \A t \in States :
        (\E k \in 1..(Len(StateSequence) - 1) :
            StateSequence[i] = StateSequence[k] /\ t = StateSequence[k + 1])
          <=> t = StateSequence[i + 1]
  BY <1>1
<1>. QED
  BY <1>1, <1>2 DEF After

\* The state after one that is not the last is a state, and a successor of it.
LEMMA AfterTyped ==
    ASSUME NEW s \in States, s # "AWAIT_REVIEW"
    PROVE  After(s) \in States /\ After(s) \in Successors(s)
<1>1. PICK i \in 1..12 : s = StateSequence[i]
  BY StatesInOrder
<1>2. After(s) = StateSequence[i + 1]
  BY <1>1, AfterPlace
<1>3. Len(StateSequence) = 13 /\ StateSequence[i + 1] \in States
  BY StatesInOrder DEF States, StateSequence
<1>4. i + 1 \in 2..13 /\ s = StateSequence[(i + 1) - 1]
  BY <1>1
<1>5. s # "CANCELLED"
  BY StatesInOrder
<1>. QED
  BY <1>1, <1>2, <1>3, <1>4, <1>5 DEF Successors, OrchestratorState

\* What run() enters after each state.
LEMMA AfterFacts ==
    /\ After("INGEST") = "SCHEMA_MAP" /\ After("SCHEMA_MAP") = "VALIDATE"
    /\ After("VALIDATE") = "MATCH_T1" /\ After("MATCH_T1") = "MATCH_T2"
    /\ After("MATCH_T2") = "MATCH_T3" /\ After("MATCH_T3") = "VERIFY_FEES"
    /\ After("VERIFY_FEES") = "CLASSIFY_EXCEPTIONS"
    /\ After("CLASSIFY_EXCEPTIONS") = "TRIAGE" /\ After("TRIAGE") = "EXPLAIN"
    /\ After("EXPLAIN") = "PERSIST" /\ After("PERSIST") = "METRICS"
    /\ After("METRICS") = "AWAIT_REVIEW"
<1>1. \A i \in 1..12 : After(StateSequence[i]) = StateSequence[i + 1]
  BY AfterPlace
<1>2. /\ After(StateSequence[1]) = StateSequence[2] /\ After(StateSequence[2]) = StateSequence[3]
      /\ After(StateSequence[3]) = StateSequence[4] /\ After(StateSequence[4]) = StateSequence[5]
      /\ After(StateSequence[5]) = StateSequence[6] /\ After(StateSequence[6]) = StateSequence[7]
      /\ After(StateSequence[7]) = StateSequence[8] /\ After(StateSequence[8]) = StateSequence[9]
      /\ After(StateSequence[9]) = StateSequence[10] /\ After(StateSequence[10]) = StateSequence[11]
      /\ After(StateSequence[11]) = StateSequence[12]
      /\ After(StateSequence[12]) = StateSequence[13]
  BY <1>1
<1>. QED
  BY <1>2 DEF StateSequence

----------------------------------------------------------------------------
(* Types.                                                                  *)

\* A request that has begun and a worker that is busy know their run, and a
\* worker polls only where the state calls for it.
Busy ==
    /\ \A c \in Clients : cpc[c] # "idle" => creq[c] \in Runs
    /\ \A w \in Workers :
        /\ step[w] = "idle" <=> job[w] = NoRun
        /\ step[w] \in {"poll", "stop"} => at[w] \notin Unpolled
        /\ step[w] = "finish" => at[w] = "AWAIT_REVIEW"

\* A message is sent by the one request that has inserted its run.
Sending ==
    /\ \A r \in Runs : queue[r] <= sent[r] /\ (status[r] = "none" => sent[r] = 0)
    /\ \A c \in Clients :
          cpc[c] = "enqueue" => status[creq[c]] # "none" /\ sent[creq[c]] = 0
    /\ \A c, d \in Clients :
          cpc[c] = "enqueue" /\ cpc[d] = "enqueue" /\ creq[c] = creq[d] => c = d

Typed == TypeOK /\ Busy /\ Sending

LEMMA TypedInit == Init => Typed
<1>. SUFFICES ASSUME Init PROVE Typed
  OBVIOUS
<1>1. "INGEST" \in States /\ {} \in SUBSET Uploads
  BY StatesInOrder
<1>2. TypeOK
  BY <1>1 DEF Init, TypeOK, RunStatus, OrchestratorState, ClientSteps, Replies, WorkerSteps
<1>. QED
  BY <1>2 DEF Typed, Busy, Sending, Init

\* The steps of a request.
LEMMA ClientTyped ==
    ASSUME Typed, NEW c \in Clients,
           (\E r \in Runs : Lookup(c, r) \/ CheckCancel(c, r)) \/ Proceed(c) \/ ClientDies(c)
    PROVE  Typed'
<1>. USE DEF Typed, Busy, Sending, TypeOK, Answer, ClientSteps, Replies
<1>1. ASSUME NEW r \in Runs, Lookup(c, r)
      PROVE  Typed'
  <2>1. CASE status[r] # "none"
    <3>7. TypeOK'
      BY <1>1, <2>1, ZenonT(30) DEF Lookup, database, broker, worker, loops, progress
    <3>8. Busy'
      BY <1>1, <2>1 DEF Lookup, database, broker, worker, loops, progress
    <3>9. Sending'
      BY <1>1, <2>1 DEF Lookup, database, broker, worker, loops, progress
    <3>. QED
      BY <3>7, <3>8, <3>9
  <2>2. CASE status[r] = "none"
    <3>7. TypeOK'
      BY <1>1, <2>2, ZenonT(30) DEF Lookup, database, broker, worker, loops, progress
    <3>8. Busy'
      BY <1>1, <2>2 DEF Lookup, database, broker, worker, loops, progress
    <3>9. Sending'
      BY <1>1, <2>2 DEF Lookup, database, broker, worker, loops, progress
    <3>. QED
      BY <3>7, <3>8, <3>9
  <2>. QED
    BY <2>1, <2>2
<1>2. ASSUME NEW r \in Runs, CheckCancel(c, r)
      PROVE  Typed'
  <2>1. CASE status[r] \in Ended
    <3>7. TypeOK'
      BY <1>2, <2>1, ZenonT(30) DEF CheckCancel, database, broker, worker, loops, progress
    <3>8. Busy'
      BY <1>2, <2>1 DEF CheckCancel, database, broker, worker, loops, progress
    <3>9. Sending'
      BY <1>2, <2>1 DEF CheckCancel, database, broker, worker, loops, progress
    <3>. QED
      BY <3>7, <3>8, <3>9
  <2>2. CASE status[r] \notin Ended
    <3>7. TypeOK'
      BY <1>2, <2>2, ZenonT(30) DEF CheckCancel, database, broker, worker, loops, progress
    <3>8. Busy'
      BY <1>2, <2>2 DEF CheckCancel, database, broker, worker, loops, progress
    <3>9. Sending'
      BY <1>2, <2>2 DEF CheckCancel, database, broker, worker, loops, progress
    <3>. QED
      BY <3>7, <3>8, <3>9
  <2>. QED
    BY <2>1, <2>2
<1>3. CASE Insert(c)
  <2>1. "INGEST" \in States
    BY StatesInOrder
  <2>2. creq[c] \in Runs /\ status[creq[c]] = "none"
    BY <1>3 DEF Insert, Collides
  <2>. QED
    BY <1>3, <2>1, <2>2 DEF Insert, broker, worker, loops, progress, RunStatus, OrchestratorState
<1>4. CASE InsertFails(c)
  BY <1>4 DEF InsertFails, database, broker, worker, loops, progress
<1>5. CASE Enqueue(c)
  BY <1>5 DEF Enqueue, database, worker, loops, progress
<1>6. CASE RecordCancel(c)
  BY <1>6 DEF RecordCancel, broker, worker, loops, progress
<1>7. CASE ClientDies(c)
  BY <1>7 DEF ClientDies, database, broker, worker, loops, progress
<1>. QED
  BY <1>1, <1>2, <1>3, <1>4, <1>5, <1>6, <1>7 DEF Proceed

\* Where a worker stands that has done the work of a state.
LEMMA LeavesTyped ==
    ASSUME Typed, NEW w \in Workers,
           at[w] \in {"SCHEMA_MAP", "TRIAGE", "EXPLAIN", "PERSIST", "METRICS"},
           Leave(w), step[w] = "work", UNCHANGED <<clients, job>>
    PROVE  /\ Busy'
           /\ at' \in [Workers -> States] /\ step' \in [Workers -> WorkerSteps]
           /\ step'[w] \in {"enter", "poll"} /\ (step'[w] = "poll" => at'[w] \notin Unpolled)
           /\ \A v \in Workers \ {w} : step'[v] = step[v] /\ at'[v] = at[v]
           /\ IF at[w] \in {"SCHEMA_MAP", "METRICS"}
              THEN step'[w] = "enter" /\ at'[w] = After(at[w])
              ELSE step'[w] = "poll" /\ at'[w] = at[w]
<1>1. After(at[w]) \in States
  BY AfterTyped, StatesInOrder
<1>2. \/ /\ at[w] \in {"SCHEMA_MAP", "METRICS"}
         /\ step' = [step EXCEPT ![w] = "enter"] /\ at' = [at EXCEPT ![w] = After(at[w])]
      \/ /\ at[w] \in {"TRIAGE", "EXPLAIN", "PERSIST"}
         /\ step' = [step EXCEPT ![w] = "poll"] /\ at' = at
  BY DEF Leave, Goto, Unpolled
<1>3. step \in [Workers -> WorkerSteps] /\ at \in [Workers -> States]
  BY DEF Typed, TypeOK
<1>4. /\ at' \in [Workers -> States] /\ step' \in [Workers -> WorkerSteps]
      /\ step'[w] \in {"enter", "poll"} /\ (step'[w] = "poll" => at'[w] \notin Unpolled)
      /\ \A v \in Workers \ {w} : step'[v] = step[v] /\ at'[v] = at[v]
  BY <1>1, <1>2, <1>3 DEF Unpolled, WorkerSteps
<1>5. Busy'
  BY <1>4 DEF Typed, Busy, clients
<1>. QED
  BY <1>2, <1>3, <1>4, <1>5

\* The steps of a worker.
LEMMA WorkerTyped ==
    ASSUME Typed, NEW w \in Workers, Advance(w) \/ Abandon(w)
    PROVE  Typed'
<1>. USE DEF Typed, Busy, Sending, TypeOK, Goto, Release, WorkerSteps
<1>0. /\ \A s \in States : s # "AWAIT_REVIEW" => After(s) \in States
      /\ "INGEST" \in States /\ States \subseteq OrchestratorState
      /\ "CANCELLED" \in OrchestratorState
  BY AfterTyped, StatesInOrder DEF OrchestratorState
<1>1. ASSUME NEW r \in Runs, Receive(w, r)
      PROVE  Typed'
  <2>7. TypeOK'
    BY <1>0, <1>1 DEF Receive, clients, RunStatus
  <2>8. Busy'
    BY <1>0, <1>1 DEF Receive, clients, RunStatus
  <2>9. Sending'
    BY <1>0, <1>1 DEF Receive, clients, RunStatus
  <2>. QED
    BY <2>7, <2>8, <2>9
<1>2. CASE Prepare(w)
  BY <1>2 DEF Prepare, database, broker, clients, loops, progress
<1>3. CASE Enter(w)
  <2>7. TypeOK'
    BY <1>0, <1>3 DEF Enter, Transition, broker, clients, loops, progress, Unpolled, Working
  <2>8. Busy'
    BY <1>0, <1>3 DEF Enter, Transition, broker, clients, loops, progress, Unpolled, Working
  <2>9. Sending'
    BY <1>0, <1>3 DEF Enter, Transition, broker, clients, loops, progress, Unpolled, Working
  <2>. QED
    BY <2>7, <2>8, <2>9
<1>4. CASE PollClear(w)
  BY <1>0, <1>4 DEF PollClear, database, broker, clients, loops, progress, Unpolled
<1>5. CASE PollCancel(w)
  BY <1>5 DEF PollCancel, database, broker, clients, loops, progress
<1>6. CASE StopState(w)
  BY <1>0, <1>6 DEF StopState, Transition, broker, clients, loops, progress
<1>7. CASE StopStatus(w)
  BY <1>7 DEF StopStatus, broker, clients, loops, progress, RunStatus
<1>8. CASE LoadFile(w)
  BY <1>8 DEF LoadFile, broker, clients, progress
<1>9. CASE Loaded(w)
  <2>1. /\ step[w] = "work" /\ at[w] = "SCHEMA_MAP" /\ Leave(w)
        /\ UNCHANGED <<database, broker, clients, job, loops>>
    BY <1>9 DEF Loaded
  <2>2. /\ Busy' /\ at' \in [Workers -> States] /\ step' \in [Workers -> WorkerSteps]
    BY <2>1, LeavesTyped
  <2>. QED
    BY <2>1, <2>2 DEF database, broker, clients, loops, progress
<1>10. CASE Triage(w)
  <2>1. /\ step[w] = "work" /\ at[w] = "TRIAGE" /\ triaged[w] + 1 \in 1..Exceptions
        /\ degraded' \in [Workers -> BOOLEAN]
        /\ UNCHANGED <<database, broker, clients, job, done, explained>>
    BY <1>10 DEF Triage
  <2>2. CASE Leave(w) /\ UNCHANGED <<triaged, proposed>>
    <3>1. Busy' /\ at' \in [Workers -> States] /\ step' \in [Workers -> WorkerSteps]
      BY <2>1, <2>2, LeavesTyped
    <3>. QED
      BY <2>1, <2>2, <3>1 DEF database, broker, clients
  <2>3. CASE ~ (Leave(w) /\ UNCHANGED <<triaged, proposed>>)
    <3>1. /\ triaged' = [triaged EXCEPT ![w] = @ + 1] /\ UNCHANGED <<at, step>>
          /\ \/ proposed' = [proposed EXCEPT ![w] = @ \cup {triaged[w] + 1}]
             \/ proposed' = proposed
      BY <1>10, <2>3 DEF Triage
    <3>2. proposed[w] \cup {triaged[w] + 1} \in SUBSET (1..Exceptions)
      BY <2>1
    <3>3. triaged' \in [Workers -> 0..Exceptions]
      BY <2>1, <3>1
    <3>4. proposed' \in [Workers -> SUBSET (1..Exceptions)]
      <4>1. proposed \in [Workers -> SUBSET (1..Exceptions)]
        OBVIOUS
      <4>. HIDE DEF Typed, TypeOK, Busy, Sending
      <4>2. [proposed EXCEPT ![w] = @ \cup {triaged[w] + 1}] \in [Workers -> SUBSET (1..Exceptions)]
        BY <3>2, <4>1
      <4>. QED
        BY <3>1, <4>1, <4>2
    <3>. QED
      BY <2>1, <3>1, <3>3, <3>4 DEF database, broker, clients
  <2>. QED
    BY <2>2, <2>3
<1>11. CASE Triaged(w)
  <2>1. /\ step[w] = "work" /\ at[w] = "TRIAGE" /\ Leave(w)
        /\ UNCHANGED <<database, broker, clients, job, loops>>
    BY <1>11 DEF Triaged
  <2>2. /\ Busy' /\ at' \in [Workers -> States] /\ step' \in [Workers -> WorkerSteps]
    BY <2>1, LeavesTyped
  <2>. QED
    BY <2>1, <2>2 DEF database, broker, clients, loops, progress
<1>12. CASE PassOver(w)
  BY <1>12 DEF PassOver, database, broker, clients
<1>13. CASE Explain(w)
  <2>1. explained[w] + 1 \in 1..Exceptions
    BY <1>13 DEF Explain
  <2>2. /\ \/ explained' = [explained EXCEPT ![w] = explained[w] + 1] /\ UNCHANGED degraded
           \/ degraded' = [degraded EXCEPT ![w] = TRUE] /\ UNCHANGED explained
        /\ UNCHANGED <<database, broker, clients, job, at, step, done, triaged, proposed>>
    BY <1>13 DEF Explain
  <2>3. explained' \in [Workers -> 0..Exceptions]
    <3>1. explained' = [explained EXCEPT ![w] = explained[w] + 1] \/ explained' = explained
      BY <2>2
    <3>2. explained \in [Workers -> 0..Exceptions] /\ explained[w] + 1 \in 0..Exceptions
      BY <2>1
    <3>. HIDE DEF Typed, TypeOK, Busy, Sending
    <3>3. [explained EXCEPT ![w] = explained[w] + 1] \in [Workers -> 0..Exceptions]
      BY <3>2
    <3>. QED
      BY <3>1, <3>2, <3>3
  <2>4. degraded' \in [Workers -> BOOLEAN]
    BY <2>2
  <2>. QED
    BY <2>2, <2>3, <2>4 DEF database, broker, clients
<1>14. CASE ExplainRaises(w)
  BY <1>14 DEF ExplainRaises, database, broker, clients, loops, progress
<1>15. CASE Explained(w)
  <2>1. /\ step[w] = "work" /\ at[w] = "EXPLAIN" /\ Leave(w)
        /\ UNCHANGED <<database, broker, clients, job, loops>>
    BY <1>15 DEF Explained
  <2>2. /\ Busy' /\ at' \in [Workers -> States] /\ step' \in [Workers -> WorkerSteps]
    BY <2>1, LeavesTyped
  <2>. QED
    BY <2>1, <2>2 DEF database, broker, clients, loops, progress
<1>16. CASE Persist(w)
  <2>1. /\ step[w] = "work" /\ at[w] = "PERSIST" /\ Leave(w)
        /\ UNCHANGED <<status, ostate, metrics, owner, loaded, log, broker, clients, job, loops>>
    BY <1>16 DEF Persist
  <2>2. /\ Busy' /\ at' \in [Workers -> States] /\ step' \in [Workers -> WorkerSteps]
    BY <2>1, LeavesTyped
  <2>3. saved' \in [Runs -> Seq(Batch)]
    <3>1. [visited |-> triaged[w], degraded |-> degraded[w]] \in Batch
      BY DEF Batch
    <3>. QED
      BY <1>16, <3>1 DEF Persist
  <2>. QED
    BY <2>1, <2>2, <2>3 DEF database, broker, clients, loops, progress
<1>17. CASE PersistFails(w)
  BY <1>17 DEF PersistFails, database, broker, clients, loops, progress
<1>18. CASE SaveMetrics(w)
  <2>1. /\ step[w] = "work" /\ at[w] = "METRICS" /\ Leave(w)
        /\ UNCHANGED <<status, ostate, owner, loaded, saved, log, broker, clients, job, loops>>
    BY <1>18 DEF SaveMetrics
  <2>2. /\ Busy' /\ at' \in [Workers -> States] /\ step' \in [Workers -> WorkerSteps]
    BY <2>1, LeavesTyped
  <2>3. metrics' \in [Runs -> BOOLEAN]
    BY <1>18 DEF SaveMetrics
  <2>. QED
    BY <2>1, <2>2, <2>3 DEF database, broker, clients, loops, progress
<1>19. CASE AwaitReview(w)
  BY <1>19 DEF AwaitReview, broker, clients, loops, progress, RunStatus
<1>20. CASE Complete(w)
  BY <1>20 DEF Complete, broker, clients, loops, progress, RunStatus
<1>21. CASE Abandon(w)
  BY <1>21 DEF Abandon, database, broker, clients, loops, progress
<1>. QED
  BY <1>1, <1>2, <1>3, <1>4, <1>5, <1>6, <1>7, <1>8, <1>9, <1>10, <1>11, <1>12, <1>13,
     <1>14, <1>15, <1>16, <1>17, <1>18, <1>19, <1>20, <1>21 DEF Advance

LEMMA NextTyped == Typed /\ [Next]_vars => Typed'
<1>. SUFFICES ASSUME Typed, [Next]_vars PROVE Typed'
  OBVIOUS
<1>1. ASSUME NEW r \in Runs, Redeliver(r)
      PROVE  Typed'
  BY <1>1 DEF Redeliver, database, clients, worker, loops, progress, Typed, Busy, Sending, TypeOK
<1>2. CASE UNCHANGED vars
  BY <1>2 DEF vars, database, broker, clients, worker, loops, progress, Typed, Busy, Sending,
     TypeOK
<1>. QED
  BY <1>1, <1>2, ClientTyped, WorkerTyped DEF Next

\* Every variable has its type: no run is sent more messages than the bound,
\* no loop goes past its last exception, no state is left for one there is not.
THEOREM TypeCorrect == Spec => []TypeOK
<1>. QED
  BY TypedInit, NextTyped, PTL DEF Spec, Typed

----------------------------------------------------------------------------
(* What holds of any number of deliveries.                                 *)

\* A worker's run has a row.
Known == \A w \in Workers : step[w] # "idle" => status[job[w]] # "none"

\* Whether the TRIAGE loop of a worker ended before its last exception for
\* another reason than want of an LLM.
CutShort(w) == ~ degraded[w] /\ triaged[w] # Exceptions

\* Only a cancel request cuts it short, and the look after it sees the request.
Settled ==
    \A w \in Workers : step[w] # "idle" /\ CutShort(w) =>
        /\ at[w] \notin {"EXPLAIN", "PERSIST"}
        /\ at[w] = "TRIAGE" /\ step[w] \notin {"enter", "work"} => CancelRequested(job[w])


Filed == FilesBelongToTheirRun /\ Known

LEMMA FiledInit == Init => Filed
BY DEF Init, Filed, FilesBelongToTheirRun, Known

LEMMA ClientFiled ==
    ASSUME Typed, Filed, NEW c \in Clients,
           (\E r \in Runs : Lookup(c, r) \/ CheckCancel(c, r)) \/ Proceed(c) \/ ClientDies(c)
    PROVE  Filed'
<1>. USE DEF Filed, FilesBelongToTheirRun, Known
<1>1. CASE ~ Insert(c)
  BY <1>1 DEF Lookup, CheckCancel, Proceed, InsertFails, Enqueue, RecordCancel, ClientDies,
     database, worker
<1>2. CASE Insert(c)
  <2>1. /\ creq[c] \in Runs /\ status[creq[c]] = "none" /\ \A f \in creq[c] : owner[f] = NoRun
        /\ status' = [status EXCEPT ![creq[c]] = "queued"]
        /\ owner' = [f \in Uploads |-> IF f \in creq[c] THEN creq[c] ELSE owner[f]]
        /\ UNCHANGED worker
    BY <1>2 DEF Insert, Collides, Typed, Busy
  <2>. QED
    BY <2>1, SMTT(30) DEF worker, Typed, TypeOK
<1>. QED
  BY <1>1, <1>2

LEMMA WorkerFiled ==
    ASSUME Typed, Filed, NEW w \in Workers, Advance(w) \/ Abandon(w)
    PROVE  Filed'
<1>. USE DEF Filed, FilesBelongToTheirRun, Known, Goto, Release
<1>0. /\ step[w] # "idle" => job[w] \in Runs
      /\ status \in [Runs -> RunStatus \cup {"none"}]
      /\ step \in [Workers -> WorkerSteps] /\ job \in [Workers -> Runs \cup {NoRun}]
  BY DEF Typed, TypeOK, Busy
<1>1. ASSUME NEW r \in Runs, Receive(w, r)
      PROVE  Filed'
  <2>1. status[r] # "none"
    BY <1>1 DEF Receive, Typed, TypeOK, Sending
  <2>. QED
    BY <1>0, <1>1, <2>1 DEF Receive, clients
<1>2. CASE Prepare(w)
  BY <1>0, <1>2 DEF Prepare, database, broker, clients, loops, progress
<1>3. CASE Enter(w)
  BY <1>0, <1>3 DEF Enter, Transition, broker, clients, loops, progress
<1>4. CASE PollClear(w)
  BY <1>0, <1>4 DEF PollClear, database, broker, clients, loops, progress
<1>5. CASE PollCancel(w)
  BY <1>0, <1>5 DEF PollCancel, database, broker, clients, loops, progress
<1>6. CASE StopState(w)
  BY <1>0, <1>6 DEF StopState, Transition, broker, clients, loops, progress
<1>7. CASE StopStatus(w)
  BY <1>0, <1>7 DEF StopStatus, broker, clients, loops, progress
<1>8. CASE LoadFile(w)
  BY <1>0, <1>8 DEF LoadFile, broker, clients, progress
<1>9. CASE Loaded(w)
  BY <1>0, <1>9 DEF Loaded, database, broker, clients, loops, progress, Leave
<1>10. CASE Triage(w)
  BY <1>0, <1>10 DEF Triage, database, broker, clients, Leave
<1>11. CASE Triaged(w)
  BY <1>0, <1>11 DEF Triaged, database, broker, clients, loops, progress, Leave
<1>12. CASE PassOver(w)
  BY <1>0, <1>12 DEF PassOver, database, broker, clients
<1>13. CASE Explain(w)
  BY <1>0, <1>13 DEF Explain, database, broker, clients
<1>14. CASE ExplainRaises(w)
  BY <1>0, <1>14 DEF ExplainRaises, database, broker, clients, loops, progress
<1>15. CASE Explained(w)
  BY <1>0, <1>15 DEF Explained, database, broker, clients, loops, progress, Leave
<1>16. CASE Persist(w)
  BY <1>0, <1>16 DEF Persist, broker, clients, loops, progress, Leave
<1>17. CASE PersistFails(w)
  BY <1>0, <1>17 DEF PersistFails, database, broker, clients, loops, progress
<1>18. CASE SaveMetrics(w)
  BY <1>0, <1>18 DEF SaveMetrics, broker, clients, loops, progress, Leave
<1>19. CASE AwaitReview(w)
  BY <1>0, <1>19 DEF AwaitReview, broker, clients, loops, progress
<1>20. CASE Complete(w)
  BY <1>0, <1>20 DEF Complete, broker, clients, loops, progress
<1>21. CASE Abandon(w)
  BY <1>0, <1>21 DEF Abandon, database, broker, clients, loops, progress
<1>. QED
  BY <1>1, <1>2, <1>3, <1>4, <1>5, <1>6, <1>7, <1>8, <1>9, <1>10, <1>11, <1>12, <1>13,
     <1>14, <1>15, <1>16, <1>17, <1>18, <1>19, <1>20, <1>21 DEF Advance

LEMMA NextFiled == Typed /\ Filed /\ [Next]_vars => Filed'
<1>. SUFFICES ASSUME Typed, Filed, [Next]_vars PROVE Filed'
  OBVIOUS
<1>1. ASSUME NEW r \in Runs, Redeliver(r)
      PROVE  Filed'
  BY <1>1 DEF Redeliver, database, worker, Filed, FilesBelongToTheirRun, Known
<1>2. CASE UNCHANGED vars
  BY <1>2 DEF vars, database, worker, Filed, FilesBelongToTheirRun, Known
<1>. QED
  BY <1>1, <1>2, ClientFiled, WorkerFiled DEF Next

\* Runs whose manifests share a file do not take it from each other, however
\* requests, deliveries and failures interleave.
THEOREM FilesCorrect == Spec => []FilesBelongToTheirRun
<1>1. Init => Typed /\ Filed
  BY TypedInit, FiledInit
<1>2. Typed /\ Filed /\ [Next]_vars => Typed' /\ Filed'
  BY NextTyped, NextFiled
<1>3. Typed /\ Filed => FilesBelongToTheirRun
  BY DEF Filed
<1>. QED
  BY <1>1, <1>2, <1>3, PTL DEF Spec

\* A recorded cancel request stays: entries are only added to a trail.
LEMMA LogGrows ==
    ASSUME Typed, [Next]_vars, NEW r \in Runs
    PROVE  /\ Len(log[r]) <= Len(log'[r])
           /\ \A i \in DOMAIN log[r] : i \in DOMAIN log'[r] /\ log'[r][i] = log[r][i]
<1>. DEFINE Entry == OrchestratorState \cup {"run_created", "cancel_requested"}
<1>1. log \in [Runs -> Seq(Entry)] /\ States \subseteq Entry /\ "CANCELLED" \in Entry
  BY DEF Typed, TypeOK, OrchestratorState
<1>2. \/ log' = log
      \/ \E q \in Runs, e \in Entry : log' = [log EXCEPT ![q] = Append(@, e)]
  <2>1. ASSUME NEW c \in Clients, Insert(c) \/ RecordCancel(c)
        PROVE  creq[c] \in Runs
               /\ \E e \in Entry : log' = [log EXCEPT ![creq[c]] = Append(@, e)]
    BY <2>1 DEF Insert, RecordCancel, Typed, Busy
  <2>2. ASSUME NEW w \in Workers, Enter(w) \/ StopState(w)
        PROVE  job[w] \in Runs
               /\ \E e \in Entry : log' = [log EXCEPT ![job[w]] = Append(@, e)]
    <3>1. job[w] \in Runs /\ at[w] \in Entry
      BY <1>1, <2>2 DEF Enter, StopState, Typed, TypeOK, Busy
    <3>. QED
      BY <1>1, <2>2, <3>1 DEF Enter, StopState, Transition
  <2>3. ASSUME NEW c \in Clients,
               (\E q \in Runs : Lookup(c, q) \/ CheckCancel(c, q))
                  \/ InsertFails(c) \/ Enqueue(c) \/ ClientDies(c)
        PROVE  log' = log
    BY <2>3 DEF Lookup, CheckCancel, InsertFails, Enqueue, ClientDies, database
  <2>4. ASSUME NEW w \in Workers, Advance(w) \/ Abandon(w), ~ Enter(w), ~ StopState(w)
        PROVE  log' = log
    BY <2>4 DEF Advance, Receive, Prepare, PollClear, PollCancel, StopStatus, LoadFile, Loaded,
       Triage, Triaged, PassOver, Explain, ExplainRaises, Explained, Persist, PersistFails,
       SaveMetrics, AwaitReview, Complete, Abandon, database
  <2>5. ASSUME NEW q \in Runs, Redeliver(q)
        PROVE  log' = log
    BY <2>5 DEF Redeliver, database
  <2>6. CASE UNCHANGED vars
    BY <2>6 DEF vars, database
  <2>. QED
    BY <2>1, <2>2, <2>3, <2>4, <2>5, <2>6 DEF Next, Proceed
<1>. HIDE DEF Entry
<1>3. CASE log' = log
  BY <1>1, <1>3
<1>4. ASSUME NEW q \in Runs, NEW e \in Entry, log' = [log EXCEPT ![q] = Append(@, e)]
      PROVE  /\ Len(log[r]) <= Len(log'[r])
             /\ \A i \in DOMAIN log[r] : i \in DOMAIN log'[r] /\ log'[r][i] = log[r][i]
  BY <1>1, <1>4
<1>. QED
  BY <1>2, <1>3, <1>4

LEMMA CancelStays ==
    ASSUME Typed, [Next]_vars, NEW r \in Runs, CancelRequested(r)
    PROVE  CancelRequested(r)'
BY LogGrows DEF CancelRequested

LEMMA SettledInit == Init => Settled /\ StoredTriageIsWhole
BY DEF Init, Settled, StoredTriageIsWhole

\* A step that leaves alone a worker's place and progress leaves what is
\* settled about it.
LEMMA SettledKept ==
    ASSUME Typed, Settled, [Next]_vars, NEW w \in Workers,
           UNCHANGED <<job[w], at[w], step[w], triaged[w], degraded[w]>>,
           step'[w] # "idle", CutShort(w)'
    PROVE  /\ at'[w] \notin {"EXPLAIN", "PERSIST"}
           /\ at'[w] = "TRIAGE" /\ step'[w] \notin {"enter", "work"} => CancelRequested(job[w])'
<1>1. step[w] # "idle" /\ CutShort(w) /\ job[w] \in Runs
  BY DEF CutShort, Typed, TypeOK, Busy
<1>. QED
  BY <1>1, CancelStays DEF Settled

\* A worker's step leaves the other workers where they are.
LEMMA OthersKept ==
    ASSUME Typed, NEW w \in Workers, Advance(w) \/ Abandon(w), NEW v \in Workers \ {w}
    PROVE  UNCHANGED <<job[v], at[v], step[v], done[v], triaged[v], degraded[v]>>
<1>. USE DEF Goto, Release
<1>0. /\ step \in [Workers -> WorkerSteps] /\ job \in [Workers -> Runs \cup {NoRun}]
      /\ at \in [Workers -> States] /\ done \in [Workers -> SUBSET Uploads]
      /\ triaged \in [Workers -> 0..Exceptions] /\ degraded \in [Workers -> BOOLEAN]
  BY DEF Typed, TypeOK
<1>1. ASSUME NEW r \in Runs, Receive(w, r)
      PROVE  UNCHANGED <<job[v], at[v], step[v], done[v], triaged[v], degraded[v]>>
  BY <1>0, <1>1 DEF Receive
<1>2. CASE Prepare(w)
  BY <1>0, <1>2 DEF Prepare, loops, progress
<1>3. CASE Enter(w)
  BY <1>0, <1>3 DEF Enter, loops, progress
<1>4. CASE PollClear(w)
  BY <1>0, <1>4 DEF PollClear, loops, progress
<1>5. CASE PollCancel(w)
  BY <1>0, <1>5 DEF PollCancel, loops, progress
<1>6. CASE StopState(w)
  BY <1>0, <1>6 DEF StopState, loops, progress
<1>7. CASE StopStatus(w)
  BY <1>0, <1>7 DEF StopStatus, loops, progress
<1>8. CASE LoadFile(w)
  BY <1>0, <1>8 DEF LoadFile, progress
<1>9. CASE Loaded(w)
  BY <1>0, <1>9 DEF Loaded, Leave, loops, progress
<1>10. CASE Triage(w)
  BY <1>0, <1>10 DEF Triage, Leave
<1>11. CASE Triaged(w)
  BY <1>0, <1>11 DEF Triaged, Leave, loops, progress
<1>12. CASE PassOver(w)
  BY <1>0, <1>12 DEF PassOver
<1>13. CASE Explain(w)
  BY <1>0, <1>13 DEF Explain
<1>14. CASE ExplainRaises(w)
  BY <1>0, <1>14 DEF ExplainRaises, loops, progress
<1>15. CASE Explained(w)
  BY <1>0, <1>15 DEF Explained, Leave, loops, progress
<1>16. CASE Persist(w)
  BY <1>0, <1>16 DEF Persist, Leave, loops, progress
<1>17. CASE PersistFails(w)
  BY <1>0, <1>17 DEF PersistFails, loops, progress
<1>18. CASE SaveMetrics(w)
  BY <1>0, <1>18 DEF SaveMetrics, Leave, loops, progress
<1>19. CASE AwaitReview(w)
  BY <1>0, <1>19 DEF AwaitReview, loops, progress
<1>20. CASE Complete(w)
  BY <1>0, <1>20 DEF Complete, loops, progress
<1>21. CASE Abandon(w)
  BY <1>0, <1>21 DEF Abandon, loops, progress
<1>. QED
  BY <1>1, <1>2, <1>3, <1>4, <1>5, <1>6, <1>7, <1>8, <1>9, <1>10, <1>11, <1>12, <1>13,
     <1>14, <1>15, <1>16, <1>17, <1>18, <1>19, <1>20, <1>21 DEF Advance

\* Requests and redeliveries leave all workers where they are.
LEMMA WorkersKept ==
    ASSUME [Next]_vars, \A w \in Workers : ~ Advance(w) /\ ~ Abandon(w)
    PROVE  UNCHANGED worker
BY DEF Next, vars, Lookup, CheckCancel, Proceed, Insert, InsertFails, Enqueue, RecordCancel,
   ClientDies, Redeliver

\* What a worker does next with an unfinished TRIAGE loop: poll, see the cancel
\* request, and stop.
LEMMA WorkerSettled ==
    ASSUME Typed, Settled, StoredTriageIsWhole, NEW w \in Workers, Advance(w) \/ Abandon(w),
           step'[w] # "idle", CutShort(w)', [Next]_vars
    PROVE  /\ at'[w] \notin {"EXPLAIN", "PERSIST"}
           /\ at'[w] = "TRIAGE" /\ step'[w] \notin {"enter", "work"} => CancelRequested(job[w])'
<1>. DEFINE Goal == /\ at'[w] \notin {"EXPLAIN", "PERSIST"}
                    /\ at'[w] = "TRIAGE" /\ step'[w] \notin {"enter", "work"}
                          => CancelRequested(job[w])'
<1>. USE DEF Goto, Release, CutShort
<1>0. /\ step \in [Workers -> WorkerSteps] /\ job \in [Workers -> Runs \cup {NoRun}]
      /\ at \in [Workers -> States]
      /\ triaged \in [Workers -> 0..Exceptions] /\ degraded \in [Workers -> BOOLEAN]
      /\ (step[w] # "idle" => job[w] \in Runs) /\ (step[w] = "poll" => at[w] \notin Unpolled)
  BY DEF Typed, TypeOK, Busy
<1>1. /\ step[w] # "idle" /\ CutShort(w) =>
          /\ at[w] \notin {"EXPLAIN", "PERSIST"}
          /\ at[w] = "TRIAGE" /\ step[w] \notin {"enter", "work"} => CancelRequested(job[w])
      /\ \A r \in Runs : CancelRequested(r) => CancelRequested(r)'
  BY CancelStays DEF Settled
<1>2. ASSUME NEW r \in Runs, Receive(w, r)
      PROVE  Goal
  BY <1>0, <1>2 DEF Receive
<1>3. CASE Prepare(w) \/ Enter(w) \/ PollCancel(w) \/ StopState(w)
  <2>1. UNCHANGED <<job, at, triaged, degraded>>
    BY <1>3 DEF Prepare, Enter, PollCancel, StopState, loops, progress
  <2>2. /\ step[w] # "idle"
        /\ \/ step'[w] \in {"enter", "work"}
           \/ at[w] = "TRIAGE" => step[w] \notin {"enter", "work"}
    BY <1>0, <1>3 DEF Prepare, Enter, PollCancel, StopState, Working
  <2>. QED
    BY <1>0, <1>1, <2>1, <2>2
<1>4. CASE PollClear(w)
  <2>1. /\ at' = [at EXCEPT ![w] = After(at[w])] /\ step'[w] = "enter" /\ CutShort(w)
        /\ at[w] # "TRIAGE" /\ at[w] # "EXPLAIN" /\ at[w] # "AWAIT_REVIEW"
    BY <1>0, <1>1, <1>4 DEF PollClear, loops, progress, Unpolled
  <2>2. at'[w] # "EXPLAIN" /\ at'[w] # "PERSIST"
    BY <1>0, <2>1, StatesInOrder, AfterFacts
  <2>. QED
    BY <2>1, <2>2
<1>5. CASE LoadFile(w) \/ SaveMetrics(w) \/ Loaded(w)
  <2>1. /\ at[w] \in {"SCHEMA_MAP", "METRICS"}
        /\ \/ UNCHANGED <<at, step>>
           \/ Leave(w) /\ UNCHANGED <<clients, job>> /\ step[w] = "work"
    BY <1>5 DEF LoadFile, SaveMetrics, Loaded
  <2>2. at'[w] \in {"SCHEMA_MAP", "METRICS", "VALIDATE", "AWAIT_REVIEW"}
    BY <2>1, LeavesTyped, AfterFacts
  <2>. QED
    BY <2>2
<1>6. CASE Triage(w)
  <2>1. CASE Leave(w) /\ UNCHANGED <<triaged, proposed>>
    <3>1. PICK a \in TriageAnswers :
            /\ degraded' = [degraded EXCEPT ![w] = (a = "unavailable")]
            /\ TriageEnds(w, a) \/ UNCHANGED <<at, step>>
      BY <1>6 DEF Triage
    <3>2. at[w] = "TRIAGE" /\ step[w] = "work" /\ (TriageEnds(w, a) => degraded'[w])
      BY <1>0, <1>6, <3>1 DEF Triage, TriageEnds
    <3>. QED
      BY <1>0, <3>1, <3>2
  <2>2. CASE ~ (Leave(w) /\ UNCHANGED <<triaged, proposed>>)
    BY <1>0, <1>6, <2>2 DEF Triage
  <2>. QED
    BY <2>1, <2>2
<1>7. CASE Triaged(w)
  <2>1. /\ at[w] = "TRIAGE" /\ Leave(w) /\ UNCHANGED <<clients, job, triaged, degraded>>
        /\ step[w] = "work" /\ (triaged[w] = Exceptions \/ CancelRequested(job[w]))
    BY <1>7 DEF Triaged, loops, progress
  <2>2. at'[w] = "TRIAGE" /\ CancelRequested(job[w])
    BY <1>0, <2>1, LeavesTyped
  <2>. QED
    BY <1>0, <1>1, <2>1, <2>2
<1>8. CASE PassOver(w) \/ Explain(w)
  <2>1. at[w] = "EXPLAIN" /\ step[w] = "work" /\ triaged' = triaged /\ ~ degraded[w]
    BY <1>8 DEF PassOver, Explain
  <2>. QED
    BY <1>0, <1>1, <2>1
<1>9. CASE Explained(w) \/ Persist(w)
  <2>1. /\ at[w] \in {"EXPLAIN", "PERSIST"} /\ step[w] = "work"
        /\ UNCHANGED <<triaged, degraded>>
    BY <1>9 DEF Explained, Persist, loops, progress
  <2>. QED
    BY <1>1, <2>1
<1>10. CASE AwaitReview(w)
  BY <1>0, <1>10 DEF AwaitReview
<1>11. CASE StopStatus(w) \/ ExplainRaises(w) \/ PersistFails(w) \/ Complete(w) \/ Abandon(w)
  BY <1>0, <1>11 DEF StopStatus, ExplainRaises, PersistFails, Complete, Abandon
<1>. QED
  BY <1>2, <1>3, <1>4, <1>5, <1>6, <1>7, <1>8, <1>9, <1>10, <1>11 DEF Advance

\* Only PERSIST stores a set of exceptions.
LEMMA SavedBy ==
    ASSUME [Next]_vars, \A w \in Workers : ~ Persist(w)
    PROVE  saved' = saved
<1>1. ASSUME NEW w \in Workers, Advance(w)
      PROVE  saved' = saved
  <2>1. CASE Prepare(w) \/ LoadFile(w) \/ Loaded(w) \/ SaveMetrics(w)
    BY <2>1 DEF Prepare, LoadFile, Loaded, SaveMetrics, database
  <2>2. CASE Enter(w) \/ PollClear(w) \/ PollCancel(w) \/ StopState(w) \/ StopStatus(w)
    BY <2>2 DEF Enter, Transition, PollClear, PollCancel, StopState, StopStatus, database
  <2>. QED
    BY <1>1, <2>1, <2>2 DEF Advance, Triage, Triaged, PassOver, Explain, ExplainRaises, Explained,
       PersistFails, AwaitReview, Complete, database, Receive
<1>2. ASSUME NEW c \in Clients, Proceed(c)
      PROVE  saved' = saved
  BY <1>2 DEF Proceed, database, Insert, InsertFails, Enqueue, RecordCancel
<1>3. ASSUME NEW c \in Clients, NEW r \in Runs,
             Lookup(c, r) \/ CheckCancel(c, r)
      PROVE  saved' = saved
  BY <1>3 DEF Lookup, CheckCancel, database
<1>4. ASSUME NEW w \in Workers, Abandon(w)
      PROVE  saved' = saved
  BY <1>4 DEF Abandon, database
<1>5. CASE UNCHANGED vars
  BY <1>5 DEF vars, database
<1>6. CASE \E r \in Runs : Redeliver(r)
  BY <1>6 DEF Redeliver, database
<1>7. CASE \E c \in Clients : ClientDies(c)
  BY <1>7 DEF ClientDies, database
<1>. QED
  BY <1>1, <1>2, <1>3, <1>4, <1>5, <1>6, <1>7 DEF Next

LEMMA PersistStored ==
    ASSUME Typed, Settled, StoredTriageIsWhole, NEW w \in Workers, Persist(w)
    PROVE  StoredTriageIsWhole'
<1>. DEFINE b == [visited |-> triaged[w], degraded |-> degraded[w]]
<1>1. /\ job[w] \in Runs /\ saved' = [saved EXCEPT ![job[w]] = Append(@, b)]
      /\ saved \in [Runs -> Seq(Batch)] /\ ~ CutShort(w)
  BY DEF Persist, Typed, TypeOK, Busy, Settled
<1>2. b \in Batch /\ (b.degraded \/ b.visited = Exceptions)
  BY <1>1 DEF Batch, CutShort, Typed, TypeOK
<1>. HIDE DEF b
<1>. QED
  BY <1>1, <1>2 DEF StoredTriageIsWhole

LEMMA NextSettled ==
    Typed /\ Settled /\ StoredTriageIsWhole /\ [Next]_vars => Settled' /\ StoredTriageIsWhole'
<1>. SUFFICES ASSUME Typed, Settled, StoredTriageIsWhole, [Next]_vars
              PROVE  Settled' /\ StoredTriageIsWhole'
  OBVIOUS
<1>1. CASE \A w \in Workers : ~ Advance(w) /\ ~ Abandon(w)
  <2>1. UNCHANGED worker /\ UNCHANGED saved
    BY <1>1, WorkersKept, SavedBy DEF Advance
  <2>. QED
    BY <2>1, SettledKept DEF Settled, StoredTriageIsWhole, worker, loops, progress
<1>2. ASSUME NEW w \in Workers, Advance(w) \/ Abandon(w)
      PROVE  Settled'
  BY <1>2, OthersKept, SettledKept, WorkerSettled DEF Settled
<1>3. StoredTriageIsWhole'
  BY SavedBy, PersistStored DEF StoredTriageIsWhole
<1>. QED
  BY <1>1, <1>2, <1>3

\* A set of exceptions that only a cancel request cut short is never stored,
\* whatever is delivered twice: the look that follows TRIAGE sees the request.
THEOREM TriageCorrect == Spec => []StoredTriageIsWhole
<1>1. Init => Typed /\ Settled /\ StoredTriageIsWhole
  BY TypedInit, SettledInit
<1>2. Typed /\ Settled /\ StoredTriageIsWhole /\ [Next]_vars
        => Typed' /\ Settled' /\ StoredTriageIsWhole'
  BY NextTyped, NextSettled
<1>. QED
  BY <1>1, <1>2, PTL DEF Spec

\* A worker that goes on writes to the rows of its own run only, sends nothing,
\* and keeps its run or drops it.
LEMMA OwnRunOnly ==
    ASSUME Typed, NEW w \in Workers, Advance(w) \/ Abandon(w), \A r \in Runs : ~ Receive(w, r)
    PROVE  /\ step[w] # "idle" /\ job[w] \in Runs
           /\ UNCHANGED <<queue, sent, clients>>
           /\ \A r \in Runs \ {job[w]} :
                UNCHANGED <<status[r], ostate[r], metrics[r], loaded[r], saved[r], log[r]>>
           /\ job'[w] = job[w] \/ step'[w] = "idle"
<1>. DEFINE Own == /\ step[w] # "idle"
                   /\ UNCHANGED <<queue, sent, clients>>
                   /\ \A r \in Runs \ {job[w]} :
                        UNCHANGED <<status[r], ostate[r], metrics[r], loaded[r], saved[r], log[r]>>
                   /\ job'[w] = job[w] \/ step'[w] = "idle"
<1>. USE DEF Goto, Release
<1>0. /\ step \in [Workers -> WorkerSteps] /\ status \in [Runs -> RunStatus \cup {"none"}]
      /\ ostate \in [Runs -> OrchestratorState] /\ metrics \in [Runs -> BOOLEAN]
      /\ loaded \in [Runs -> SUBSET Uploads] /\ saved \in [Runs -> Seq(Batch)]
      /\ log \in [Runs -> Seq(OrchestratorState \cup {"run_created", "cancel_requested"})]
      /\ (step[w] # "idle" => job[w] \in Runs)
  BY DEF Typed, TypeOK, Busy
<1>1. CASE Prepare(w)
  BY <1>0, <1>1 DEF Prepare, database, broker, loops, progress
<1>2. CASE Enter(w)
  BY <1>0, <1>2 DEF Enter, Transition, broker, loops, progress
<1>3. CASE PollClear(w)
  BY <1>0, <1>3 DEF PollClear, database, broker, loops, progress
<1>4. CASE PollCancel(w)
  BY <1>0, <1>4 DEF PollCancel, database, broker, loops, progress
<1>5. CASE StopState(w)
  BY <1>0, <1>5 DEF StopState, Transition, broker, loops, progress
<1>6. CASE StopStatus(w)
  BY <1>0, <1>6 DEF StopStatus, broker, loops, progress
<1>7. CASE LoadFile(w)
  BY <1>0, <1>7 DEF LoadFile, broker, progress
<1>8. CASE Loaded(w)
  BY <1>0, <1>8 DEF Loaded, database, broker, Leave
<1>9. CASE Triage(w)
  BY <1>0, <1>9 DEF Triage, database, broker, Leave
<1>10. CASE Triaged(w)
  BY <1>0, <1>10 DEF Triaged, database, broker, Leave
<1>11. CASE PassOver(w)
  BY <1>0, <1>11 DEF PassOver, database, broker
<1>12. CASE Explain(w)
  BY <1>0, <1>12 DEF Explain, database, broker
<1>13. CASE ExplainRaises(w)
  BY <1>0, <1>13 DEF ExplainRaises, database, broker
<1>14. CASE Explained(w)
  BY <1>0, <1>14 DEF Explained, database, broker, Leave
<1>15. CASE Persist(w)
  BY <1>0, <1>15 DEF Persist, broker, Leave
<1>16. CASE PersistFails(w)
  BY <1>0, <1>16 DEF PersistFails, database, broker
<1>17. CASE SaveMetrics(w)
  BY <1>0, <1>17 DEF SaveMetrics, broker, Leave
<1>18. CASE AwaitReview(w)
  BY <1>0, <1>18 DEF AwaitReview, broker
<1>19. CASE Complete(w)
  BY <1>0, <1>19 DEF Complete, broker
<1>20. CASE Abandon(w)
  BY <1>0, <1>20 DEF Abandon, database, broker
<1>21. Own
  BY <1>1, <1>2, <1>3, <1>4, <1>5, <1>6, <1>7, <1>8, <1>9, <1>10, <1>11, <1>12, <1>13,
     <1>14, <1>15, <1>16, <1>17, <1>18, <1>19, <1>20 DEF Advance
<1>. QED
  BY <1>0, <1>21

----------------------------------------------------------------------------
(* What a run that is shown as finished has.                               *)

\* Where a worker stands in the sequence of states.
HasPersisted(w) ==
    \/ at[w] \in {"METRICS", "AWAIT_REVIEW"}
    \/ at[w] = "PERSIST" /\ step[w] \in {"poll", "stop", "stopped"}

\* What a worker has done, or another before it, is stored.
StoredBy(w) ==
    /\ done[w] \subseteq loaded[job[w]]
    /\ at[w] \notin {"INGEST", "SCHEMA_MAP"} => job[w] \subseteq loaded[job[w]]
    /\ HasPersisted(w) => saved[job[w]] # <<>>
    /\ at[w] = "AWAIT_REVIEW" => metrics[job[w]]

Stored == \A w \in Workers : step[w] # "idle" => StoredBy(w)

\* Requests and redeliveries write nothing into the results of a run.
LEMMA ResultsKept ==
    ASSUME [Next]_vars, \A w \in Workers : ~ Advance(w) /\ ~ Abandon(w)
    PROVE  UNCHANGED <<loaded, saved, metrics>>
<1>1. CASE \E c \in Clients, r \in Runs : Lookup(c, r) \/ CheckCancel(c, r)
  BY <1>1 DEF Lookup, CheckCancel, database
<1>2. CASE \E c \in Clients : Proceed(c)
  BY <1>2 DEF Proceed, database, Insert, InsertFails, Enqueue, RecordCancel
<1>3. CASE (\E c \in Clients : ClientDies(c)) \/ \E r \in Runs : Redeliver(r)
  BY <1>3 DEF ClientDies, Redeliver, database
<1>4. CASE UNCHANGED vars
  BY <1>4 DEF vars, database
<1>. QED
  BY <1>1, <1>2, <1>3, <1>4 DEF Next

LEMMA AppendIsNotEmpty ==
    ASSUME NEW S, NEW q \in Seq(S), NEW e \in S
    PROVE  Append(q, e) # <<>>
<1>1. Len(Append(q, e)) = Len(q) + 1 /\ Len(q) \in Nat
  OBVIOUS
<1>2. Len(<<>>) = 0
  OBVIOUS
<1>. QED
  BY <1>1, <1>2

\* Results are added to, never taken away.
LEMMA ResultsGrow ==
    ASSUME Typed, [Next]_vars, NEW r \in Runs
    PROVE  /\ loaded[r] \subseteq loaded'[r]
           /\ saved[r] # <<>> => saved'[r] # <<>>
           /\ metrics[r] => metrics'[r]
<1>. DEFINE Grown == /\ loaded[r] \subseteq loaded'[r]
                     /\ saved[r] # <<>> => saved'[r] # <<>>
                     /\ metrics[r] => metrics'[r]
<1>0. /\ loaded \in [Runs -> SUBSET Uploads] /\ saved \in [Runs -> Seq(Batch)]
      /\ metrics \in [Runs -> BOOLEAN]
  BY DEF Typed, TypeOK
<1>1. ASSUME NEW w \in Workers, Advance(w) \/ Abandon(w)
      PROVE  Grown
  <2>1. CASE LoadFile(w)
    BY <1>0, <2>1 DEF LoadFile
  <2>2. CASE Persist(w)
    <3>1. \E b \in Batch : saved' = [saved EXCEPT ![job[w]] = Append(@, b)]
      <4>1. [visited |-> triaged[w], degraded |-> degraded[w]] \in Batch
        BY DEF Batch, Typed, TypeOK
      <4>. QED
        BY <2>2, <4>1 DEF Persist
    <3>2. UNCHANGED <<loaded, metrics>>
      BY <2>2 DEF Persist
    <3>. QED
      BY <1>0, <3>1, <3>2, AppendIsNotEmpty
  <2>3. CASE SaveMetrics(w)
    BY <1>0, <2>3 DEF SaveMetrics
  <2>4. CASE \E q \in Runs : Receive(w, q)
    BY <2>4 DEF Receive
  <2>5. CASE Prepare(w) \/ Loaded(w) \/ Triage(w) \/ Triaged(w) \/ PassOver(w) \/ Explain(w)
    BY <2>5 DEF Prepare, Loaded, Triage, Triaged, PassOver, Explain, database
  <2>6. CASE Enter(w) \/ PollClear(w) \/ PollCancel(w) \/ StopState(w) \/ StopStatus(w)
    BY <2>6 DEF Enter, Transition, PollClear, PollCancel, StopState, StopStatus, database
  <2>7. CASE ExplainRaises(w) \/ Explained(w) \/ PersistFails(w) \/ AwaitReview(w) \/ Complete(w)
    BY <2>7 DEF ExplainRaises, Explained, PersistFails, AwaitReview, Complete, database
  <2>8. CASE Abandon(w)
    BY <2>8 DEF Abandon, database
  <2>. HIDE DEF Grown
  <2>. QED
    BY <1>1, <2>1, <2>2, <2>3, <2>4, <2>5, <2>6, <2>7, <2>8 DEF Advance
<1>. QED
  BY <1>1, ResultsKept

LEMMA WorkerStored ==
    ASSUME Typed, Filed, NEW w \in Workers, Advance(w) \/ Abandon(w), step'[w] # "idle",
           step[w] # "idle" => StoredBy(w)
    PROVE  StoredBy(w)'
<1>. USE DEF Goto, Release
<1>0. /\ step \in [Workers -> WorkerSteps] /\ job \in [Workers -> Runs \cup {NoRun}]
      /\ at \in [Workers -> States] /\ done \in [Workers -> SUBSET Uploads]
      /\ loaded \in [Runs -> SUBSET Uploads] /\ saved \in [Runs -> Seq(Batch)]
      /\ metrics \in [Runs -> BOOLEAN]
      /\ (step[w] # "idle" => job[w] \in Runs) /\ (step[w] = "poll" => at[w] \notin Unpolled)
  BY DEF Typed, TypeOK, Busy
<1>1. ASSUME NEW r \in Runs, Receive(w, r)
      PROVE  StoredBy(w)'
  <2>1. /\ done'[w] = {} /\ at'[w] = "INGEST" /\ step'[w] = "prepare"
    BY <1>0, <1>1 DEF Receive
  <2>. QED
    BY <2>1 DEF StoredBy, HasPersisted
<1>2. CASE \A r \in Runs : ~ Receive(w, r)
  <2>1. step[w] # "idle" /\ job[w] \in Runs /\ job'[w] = job[w] /\ StoredBy(w)
    BY <1>2, OwnRunOnly
  <2>2. CASE Prepare(w) \/ Enter(w) \/ PollCancel(w) \/ StopState(w)
    <3>1. UNCHANGED <<at, done, loaded, saved, metrics>>
      BY <2>2 DEF Prepare, Enter, PollCancel, StopState, Transition, database, loops
    <3>2. HasPersisted(w)' <=> HasPersisted(w)
      BY <1>0, <2>2, <3>1 DEF Prepare, Enter, PollCancel, StopState, HasPersisted, Working
    <3>. QED
      BY <2>1, <3>1, <3>2 DEF StoredBy
  <2>3. CASE PollClear(w)
    <3>1. /\ UNCHANGED <<done, loaded, saved, metrics>>
          /\ step[w] = "poll" /\ step'[w] = "enter" /\ at'[w] = After(at[w])
          /\ at[w] \in States /\ at[w] \notin Unpolled
      BY <1>0, <2>3 DEF PollClear, database, loops
    <3>2. /\ HasPersisted(w)' <=> HasPersisted(w)
          /\ at'[w] # "AWAIT_REVIEW"
          /\ at'[w] \notin {"INGEST", "SCHEMA_MAP"} => at[w] \notin {"INGEST", "SCHEMA_MAP"}
      BY <3>1, StatesInOrder, AfterFacts DEF HasPersisted, Unpolled
    <3>. QED
      BY <2>1, <3>1, <3>2 DEF StoredBy
  <2>4. CASE LoadFile(w)
    BY <1>0, <2>1, <2>4 DEF LoadFile, StoredBy, HasPersisted
  <2>5. CASE Loaded(w)
    <3>1. /\ step[w] = "work" /\ at[w] = "SCHEMA_MAP" /\ Leave(w) /\ UNCHANGED <<clients, job>>
          /\ UNCHANGED <<done, loaded, saved, metrics>>
          /\ {f \in Uploads : owner[f] = job[w]} \subseteq done[w]
      BY <2>5 DEF Loaded, database, loops
    <3>2. job[w] \subseteq {f \in Uploads : owner[f] = job[w]}
      BY <2>1 DEF Filed, Known, FilesBelongToTheirRun
    <3>3. at'[w] = "VALIDATE"
      BY <3>1, LeavesTyped, AfterFacts
    <3>. QED
      BY <2>1, <3>1, <3>2, <3>3 DEF StoredBy, HasPersisted
  <2>6. CASE Triage(w) \/ Triaged(w) \/ PassOver(w) \/ Explain(w) \/ Explained(w)
    <3>1. /\ UNCHANGED <<done, loaded, saved, metrics, clients, job>>
          /\ at[w] \in {"TRIAGE", "EXPLAIN"} /\ step[w] = "work"
          /\ Leave(w) \/ UNCHANGED <<at, step>>
      BY <2>6 DEF Triage, Triaged, PassOver, Explain, Explained, database, loops
    <3>2. at'[w] \in {"TRIAGE", "EXPLAIN"}
      BY <3>1, LeavesTyped
    <3>. QED
      BY <2>1, <3>1, <3>2 DEF StoredBy, HasPersisted
  <2>7. CASE Persist(w)
    <3>1. /\ step[w] = "work" /\ at[w] = "PERSIST" /\ Leave(w) /\ UNCHANGED <<clients, job>>
          /\ UNCHANGED <<done, loaded, metrics>>
      BY <2>7 DEF Persist, loops
    <3>2. at'[w] = "PERSIST" /\ step'[w] = "poll"
      BY <3>1, LeavesTyped
    <3>3. saved'[job[w]] # <<>>
      <4>1. [visited |-> triaged[w], degraded |-> degraded[w]] \in Batch
        BY DEF Batch, Typed, TypeOK
      <4>2. \E b \in Batch : saved'[job[w]] = Append(saved[job[w]], b)
        BY <1>0, <2>1, <2>7, <4>1 DEF Persist
      <4>. QED
        BY <1>0, <2>1, <4>2, AppendIsNotEmpty
    <3>. QED
      BY <2>1, <3>1, <3>2, <3>3 DEF StoredBy, HasPersisted
  <2>8. CASE SaveMetrics(w)
    <3>1. /\ step[w] = "work" /\ at[w] = "METRICS" /\ Leave(w) /\ UNCHANGED <<clients, job>>
          /\ UNCHANGED <<done, loaded, saved>> /\ metrics'[job[w]]
      BY <1>0, <2>1, <2>8 DEF SaveMetrics, loops
    <3>2. at'[w] = "AWAIT_REVIEW"
      BY <3>1, LeavesTyped, AfterFacts
    <3>. QED
      BY <2>1, <3>1, <3>2 DEF StoredBy, HasPersisted
  <2>9. CASE AwaitReview(w)
    BY <1>0, <2>1, <2>9 DEF AwaitReview, loops, StoredBy, HasPersisted
  <2>10. CASE StopStatus(w) \/ ExplainRaises(w) \/ PersistFails(w) \/ Complete(w) \/ Abandon(w)
    BY <1>0, <2>10 DEF StopStatus, ExplainRaises, PersistFails, Complete, Abandon
  <2>. QED
    BY <1>2, <2>2, <2>3, <2>4, <2>5, <2>6, <2>7, <2>8, <2>9, <2>10 DEF Advance
<1>. QED
  BY <1>1, <1>2

LEMMA NextStored == Typed /\ Filed /\ Stored /\ [Next]_vars => Stored'
<1>. SUFFICES ASSUME Typed, Filed, Stored, [Next]_vars PROVE Stored'
  OBVIOUS
<1>1. CASE \A w \in Workers : ~ Advance(w) /\ ~ Abandon(w)
  <2>1. UNCHANGED worker /\ UNCHANGED <<loaded, saved, metrics>>
    BY <1>1, WorkersKept, ResultsKept
  <2>. QED
    BY <2>1 DEF Stored, StoredBy, HasPersisted, worker, loops
<1>2. ASSUME NEW w \in Workers, Advance(w) \/ Abandon(w)
      PROVE  Stored'
  <2>1. ASSUME NEW v \in Workers \ {w}, step'[v] # "idle"
        PROVE  StoredBy(v)'
    <3>1. UNCHANGED <<job[v], at[v], step[v], done[v]>>
      BY <1>2, OthersKept
    <3>2. job[v] \in Runs /\ StoredBy(v)
      BY <2>1, <3>1 DEF Stored, Typed, TypeOK, Busy
    <3>3. /\ loaded[job[v]] \subseteq loaded'[job[v]]
          /\ saved[job[v]] # <<>> => saved'[job[v]] # <<>>
          /\ metrics[job[v]] => metrics'[job[v]]
      BY <3>2, ResultsGrow
    <3>. QED
      BY <3>1, <3>2, <3>3 DEF StoredBy, HasPersisted
  <2>2. step'[w] # "idle" => StoredBy(w)'
    BY <1>2, WorkerStored DEF Stored, StoredBy
  <2>. QED
    BY <2>1, <2>2 DEF Stored, StoredBy
<1>. QED
  BY <1>1, <1>2

\* A run is shown as finished by a worker that stands in the last state.
LEMMA FinishedBy ==
    ASSUME Typed, Known, [Next]_vars, NEW r \in Runs,
           status'[r] # status[r], status'[r] \in {"awaiting_review", "completed"}
    PROVE  \E w \in Workers : (AwaitReview(w) \/ Complete(w)) /\ job[w] = r
<1>0. status \in [Runs -> RunStatus \cup {"none"}]
  BY DEF Typed, TypeOK
<1>1. ASSUME NEW c \in Clients,
             (\E q \in Runs : Lookup(c, q) \/ CheckCancel(c, q)) \/ Proceed(c) \/ ClientDies(c)
      PROVE  FALSE
  <2>1. CASE Insert(c)
    BY <1>0, <2>1 DEF Insert, Typed, Busy
  <2>2. CASE ~ Insert(c)
    BY <1>1, <2>2 DEF Lookup, CheckCancel, Proceed, InsertFails, Enqueue, RecordCancel,
       ClientDies, database
  <2>. QED
    BY <2>1, <2>2
<1>2. ASSUME NEW q \in Runs, Redeliver(q)
      PROVE  FALSE
  BY <1>2 DEF Redeliver, database
<1>3. ASSUME NEW w \in Workers, Advance(w) \/ Abandon(w)
      PROVE  (AwaitReview(w) \/ Complete(w)) /\ job[w] = r
  <2>1. \A q \in Runs : ~ Receive(w, q)
    BY <1>0 DEF Receive
  <2>2. job[w] = r /\ step[w] # "idle"
    BY <1>3, <2>1, OwnRunOnly
  <2>3. AwaitReview(w) \/ Complete(w) \/ StopStatus(w)
    BY <1>3, <2>1 DEF Advance, Prepare, Enter, Transition, PollClear, PollCancel,
       StopState, LoadFile, Loaded, Triage, Triaged, PassOver, Explain, ExplainRaises, Explained,
       Persist, PersistFails, SaveMetrics, Abandon, database
  <2>4. ~ StopStatus(w)
    BY <1>0, <2>2 DEF StopStatus
  <2>. QED
    BY <2>2, <2>3, <2>4
<1>. QED
  BY <1>1, <1>2, <1>3 DEF Next, vars, database

LEMMA NextFinished ==
    ASSUME Typed, Filed, Stored, FinishedHasResults, [Next]_vars
    PROVE  FinishedHasResults'
<1>. SUFFICES ASSUME NEW r \in Runs, status'[r] \in {"awaiting_review", "completed"}
              PROVE  saved'[r] # <<>> /\ metrics'[r] /\ r \subseteq loaded'[r]
  BY DEF FinishedHasResults
<1>1. saved[r] # <<>> /\ metrics[r] /\ r \subseteq loaded[r]
  <2>1. CASE status'[r] = status[r]
    BY <2>1 DEF FinishedHasResults
  <2>2. CASE status'[r] # status[r]
    <3>1. PICK w \in Workers : (AwaitReview(w) \/ Complete(w)) /\ job[w] = r
      BY <2>2, FinishedBy DEF Filed
    <3>2. step[w] # "idle" /\ at[w] = "AWAIT_REVIEW"
      BY <3>1 DEF AwaitReview, Complete, Typed, Busy
    <3>. QED
      BY <3>1, <3>2 DEF Stored, StoredBy, HasPersisted
  <2>. QED
    BY <2>1, <2>2
<1>. QED
  BY <1>1, ResultsGrow

\* However often the message of a run is delivered, whatever fails in a delivery
\* and whether its results are refused a second time or not: a run that is shown
\* as finished has results, metrics and the rows of all its files.
THEOREM FinishedCorrect == Spec => []FinishedHasResults
<1>1. Init => Typed /\ Filed /\ Stored /\ FinishedHasResults
  <2>1. Init => Stored /\ FinishedHasResults
    BY DEF Init, Stored, FinishedHasResults
  <2>. QED
    BY <2>1, TypedInit, FiledInit
<1>2. Typed /\ Filed /\ Stored /\ FinishedHasResults /\ [Next]_vars
        => Typed' /\ Filed' /\ Stored' /\ FinishedHasResults'
  BY NextTyped, NextFiled, NextStored, NextFinished
<1>. QED
  BY <1>1, <1>2, PTL DEF Spec

----------------------------------------------------------------------------
(* What one delivery adds.                                                 *)

\* A run that no worker has had has no results and no trail of states.
Untouched(r) == saved[r] = <<>> /\ StateEntries(r) = {}

\* A run waits for its only message to be sent, or received, or is the job of
\* one worker, or will not be touched again.
Alone ==
    /\ \A r \in Runs : sent[r] = 0 => status[r] \in {"none", "queued"} /\ Untouched(r)
    /\ \A r \in Runs : queue[r] > 0 => status[r] = "queued" /\ Untouched(r)
    /\ \A w \in Workers : step[w] # "idle" =>
        /\ sent[job[w]] > 0 /\ queue[job[w]] = 0
        /\ status[job[w]] = IF step[w] = "finish" THEN "awaiting_review" ELSE "running"
    /\ \A v, w \in Workers :
          step[v] # "idle" /\ step[w] # "idle" /\ job[v] = job[w] => v = w

\* A worker finds no results of its run, and stores one set.
WorkedBy(w) ==
    IF HasPersisted(w) THEN Len(saved[job[w]]) = 1 ELSE saved[job[w]] = <<>>

Worked == \A w \in Workers : step[w] # "idle" => WorkedBy(w)

\* And the trail of its run ends where it stands.
TrackedBy(w) ==
    /\ step[w] \in {"prepare", "enter"} =>
        IF StateEntries(job[w]) = {} THEN at[w] = "INGEST"
        ELSE at[w] \in Successors(ostate[job[w]])
    /\ step[w] \in {"work", "poll", "stop", "finish"} =>
        StateEntries(job[w]) # {} /\ ostate[job[w]] = at[w]

Tracked == \A w \in Workers : TrackedBy(w)

\* A step writes no state into the trail of a run unless a worker enters one.
LEMMA TrailKept ==
    ASSUME Typed, [Next]_vars, NEW r \in Runs,
           \A w \in Workers : job[w] = r => ~ Enter(w) /\ ~ StopState(w)
    PROVE  /\ StateEntries(r)' = StateEntries(r)
           /\ \A i \in StateEntries(r) : log'[r][i] = log[r][i]
           /\ status[r] # "none" => ostate'[r] = ostate[r]
<1>. DEFINE Others == {"run_created", "cancel_requested"}
<1>. DEFINE Kept == /\ log'[r] = log[r] \/ \E e \in Others : log'[r] = Append(log[r], e)
                    /\ status[r] # "none" => ostate'[r] = ostate[r]
<1>0. /\ log \in [Runs -> Seq(OrchestratorState \cup Others)]
      /\ ostate \in [Runs -> OrchestratorState]
      /\ \A e \in Others : e \notin OrchestratorState
  BY StatesInOrder DEF Typed, TypeOK, OrchestratorState
<1>1. ASSUME NEW c \in Clients,
             (\E q \in Runs : Lookup(c, q) \/ CheckCancel(c, q)) \/ Proceed(c) \/ ClientDies(c)
      PROVE  Kept
  <2>1. CASE Insert(c)
    BY <1>0, <2>1 DEF Insert, Collides, Typed, Busy
  <2>2. CASE RecordCancel(c)
    BY <1>0, <2>2 DEF RecordCancel, Typed, Busy
  <2>. QED
    BY <1>1, <2>1, <2>2 DEF Lookup, CheckCancel, Proceed, InsertFails, Enqueue, ClientDies, database
<1>2. ASSUME NEW q \in Runs, Redeliver(q)
      PROVE  Kept
  BY <1>2 DEF Redeliver, database
<1>3. ASSUME NEW w \in Workers, Advance(w) \/ Abandon(w)
      PROVE  Kept
  <2>1. CASE \E q \in Runs : Receive(w, q)
    BY <2>1 DEF Receive
  <2>2. CASE (\A q \in Runs : ~ Receive(w, q)) /\ job[w] # r
    BY <1>3, <2>2, OwnRunOnly
  <2>3. CASE (\A q \in Runs : ~ Receive(w, q)) /\ job[w] = r
    BY <1>3, <2>3 DEF Advance, Prepare, PollClear, PollCancel, StopStatus, LoadFile, Loaded,
       Triage, Triaged, PassOver, Explain, ExplainRaises, Explained, Persist, PersistFails,
       SaveMetrics, AwaitReview, Complete, Abandon, database
  <2>. QED
    BY <2>1, <2>2, <2>3
<1>4. Kept
  BY <1>1, <1>2, <1>3 DEF Next, vars, database
<1>5. log[r] \in Seq(OrchestratorState \cup Others)
  BY <1>0
<1>. HIDE DEF Others
<1>6. ASSUME NEW e \in Others, log'[r] = Append(log[r], e)
      PROVE  /\ StateEntries(r)' = StateEntries(r)
             /\ \A i \in StateEntries(r) : log'[r][i] = log[r][i]
  BY <1>0, <1>5, <1>6 DEF StateEntries
<1>. QED
  BY <1>4, <1>6 DEF StateEntries

LEMMA AloneInit == Init => Alone
BY DEF Init, Alone, Untouched, StateEntries

\* What keeps a run with no results and no trail as it is.
LEMMA UntouchedKept ==
    ASSUME Typed, [Next]_vars, NEW r \in Runs, Untouched(r),
           \A w \in Workers : step[w] # "idle" => job[w] # r
    PROVE  Untouched(r)'
<1>1. \A w \in Workers : job[w] = r => ~ Enter(w) /\ ~ StopState(w) /\ ~ Persist(w)
  BY DEF Enter, StopState, Persist
<1>2. StateEntries(r)' = StateEntries(r)
  BY <1>1, TrailKept
<1>3. saved'[r] = saved[r]
  <2>1. ASSUME NEW w \in Workers, Persist(w)
        PROVE  saved'[r] = saved[r]
    BY <1>1, <2>1 DEF Persist, Typed, TypeOK
  <2>. QED
    BY <2>1, SavedBy
<1>. QED
  BY <1>2, <1>3 DEF Untouched

LEMMA ClientAlone ==
    ASSUME Typed, Known, Alone, [Next]_vars, NEW c \in Clients,
           (\E r \in Runs : Lookup(c, r) \/ CheckCancel(c, r)) \/ Proceed(c) \/ ClientDies(c)
    PROVE  Alone'
<1>0. /\ status \in [Runs -> RunStatus \cup {"none"}]
      /\ queue \in [Runs -> Nat] /\ sent \in [Runs -> Nat]
      /\ \A w \in Workers : step[w] # "idle" => job[w] \in Runs
      /\ cpc[c] # "idle" => creq[c] \in Runs
      /\ \A r \in Runs : queue[r] <= sent[r]
  BY DEF Typed, TypeOK, Busy, Sending
<1>1. \A r \in Runs : (sent[r] = 0 \/ queue[r] > 0) =>
        Untouched(r) /\ Untouched(r)' /\ \A w \in Workers : step[w] # "idle" => job[w] # r
  <2>. SUFFICES ASSUME NEW r \in Runs, sent[r] = 0 \/ queue[r] > 0
                PROVE  Untouched(r) /\ Untouched(r)'
                       /\ \A w \in Workers : step[w] # "idle" => job[w] # r
    OBVIOUS
  <2>1. Untouched(r) /\ \A w \in Workers : step[w] # "idle" => job[w] # r
    BY <1>0 DEF Alone
  <2>. QED
    BY <2>1, UntouchedKept
<1>2. CASE Insert(c)
  <2>1. /\ creq[c] \in Runs /\ status[creq[c]] = "none" /\ sent[creq[c]] = 0
        /\ status' = [status EXCEPT ![creq[c]] = "queued"]
        /\ UNCHANGED <<queue, sent, job, step>>
    BY <1>0, <1>2 DEF Insert, Collides, broker, worker, Typed, Sending
  <2>. QED
    BY <1>0, <1>1, <2>1 DEF Alone
<1>3. CASE Enqueue(c)
  <2>1. /\ creq[c] \in Runs /\ status[creq[c]] = "queued" /\ sent[creq[c]] = 0
        /\ queue' = [queue EXCEPT ![creq[c]] = @ + 1] /\ sent' = [sent EXCEPT ![creq[c]] = @ + 1]
        /\ UNCHANGED <<status, job, step>>
    BY <1>0, <1>3 DEF Enqueue, database, worker, Typed, Sending, Alone
  <2>. QED
    BY <1>0, <1>1, <2>1 DEF Alone
<1>4. CASE ~ Insert(c) /\ ~ Enqueue(c)
  <2>1. UNCHANGED <<status, queue, sent, job, step>>
    BY <1>4 DEF Lookup, CheckCancel, Proceed, InsertFails, RecordCancel, ClientDies,
       database, broker, worker
  <2>. QED
    BY <1>0, <1>1, <2>1 DEF Alone
<1>. QED
  BY <1>2, <1>3, <1>4

\* The status of a run after a step of its worker.
LEMMA WorkerStatus ==
    ASSUME Typed, Alone, NEW w \in Workers, Advance(w) \/ Abandon(w),
           \A r \in Runs : ~ Receive(w, r), step'[w] # "idle"
    PROVE  status'[job[w]] = IF step'[w] = "finish" THEN "awaiting_review" ELSE "running"
<1>. USE DEF Goto, Release
<1>0. /\ step \in [Workers -> WorkerSteps] /\ status \in [Runs -> RunStatus \cup {"none"}]
      /\ step[w] # "idle" /\ job[w] \in Runs
      /\ status[job[w]] = IF step[w] = "finish" THEN "awaiting_review" ELSE "running"
  BY OwnRunOnly DEF Typed, TypeOK, Alone
<1>1. CASE Prepare(w) \/ Enter(w) \/ PollClear(w) \/ PollCancel(w) \/ StopState(w)
  BY <1>0, <1>1 DEF Prepare, Enter, PollClear, PollCancel, StopState, Transition, database
<1>2. CASE LoadFile(w) \/ PassOver(w) \/ Explain(w)
  BY <1>0, <1>2 DEF LoadFile, PassOver, Explain, database
<1>3. CASE Loaded(w) \/ Triaged(w) \/ Explained(w) \/ Persist(w) \/ SaveMetrics(w)
  BY <1>0, <1>3 DEF Loaded, Triaged, Explained, Persist, SaveMetrics, database, Leave
<1>4. CASE Triage(w)
  BY <1>0, <1>4 DEF Triage, database, Leave
<1>5. CASE AwaitReview(w)
  BY <1>0, <1>5 DEF AwaitReview
<1>6. CASE StopStatus(w) \/ ExplainRaises(w) \/ PersistFails(w) \/ Complete(w) \/ Abandon(w)
  BY <1>0, <1>6 DEF StopStatus, ExplainRaises, PersistFails, Complete, Abandon
<1>. QED
  BY <1>1, <1>2, <1>3, <1>4, <1>5, <1>6 DEF Advance

LEMMA WorkerAlone ==
    ASSUME Typed, Alone, [Next]_vars, MaxDeliveries = 1,
           NEW w \in Workers, Advance(w) \/ Abandon(w)
    PROVE  Alone'
<1>0. /\ status \in [Runs -> RunStatus \cup {"none"}]
      /\ queue \in [Runs -> 0..1] /\ sent \in [Runs -> 0..1]
      /\ step \in [Workers -> WorkerSteps] /\ job \in [Workers -> Runs \cup {NoRun}]
      /\ \A v \in Workers : step[v] # "idle" => job[v] \in Runs
      /\ \A r \in Runs : queue[r] <= sent[r]
  BY DEF Typed, TypeOK, Busy, Sending
<1>1. \A v \in Workers \ {w} : job'[v] = job[v] /\ step'[v] = step[v]
  BY OthersKept
<1>2. ASSUME NEW r \in Runs, sent[r] = 0 \/ queue[r] > 0
      PROVE  Untouched(r) /\ Untouched(r)' /\ \A v \in Workers : step[v] # "idle" => job[v] # r
  <2>1. Untouched(r) /\ \A v \in Workers : step[v] # "idle" => job[v] # r
    BY <1>0, <1>2 DEF Alone
  <2>. QED
    BY <2>1, UntouchedKept
<1>3. ASSUME NEW r \in Runs, Receive(w, r)
      PROVE  Alone'
  <2>1. /\ queue[r] = 1 /\ sent[r] = 1 /\ step[w] = "idle"
        /\ queue' = [queue EXCEPT ![r] = @ - 1] /\ UNCHANGED sent
        /\ status' = [status EXCEPT ![r] = "running"]
        /\ job'[w] = r /\ step'[w] = "prepare"
    BY <1>0, <1>3 DEF Receive, Goto
  <2>2. \A q \in Runs : sent'[q] = 0 => status'[q] \in {"none", "queued"} /\ Untouched(q)'
    BY <1>0, <1>2, <2>1 DEF Alone
  <2>3. \A q \in Runs : queue'[q] > 0 => status'[q] = "queued" /\ Untouched(q)'
    BY <1>0, <1>2, <2>1 DEF Alone
  <2>4. \A v \in Workers : step'[v] # "idle" =>
        /\ sent'[job'[v]] > 0 /\ queue'[job'[v]] = 0
        /\ status'[job'[v]] = IF step'[v] = "finish" THEN "awaiting_review" ELSE "running"
    BY <1>0, <1>1, <1>2, <2>1 DEF Alone
  <2>5. \A u, v \in Workers :
          step'[u] # "idle" /\ step'[v] # "idle" /\ job'[u] = job'[v] => u = v
    BY <1>0, <1>1, <1>2, <2>1 DEF Alone
  <2>. QED
    BY <2>2, <2>3, <2>4, <2>5 DEF Alone
<1>4. CASE \A r \in Runs : ~ Receive(w, r)
  <2>1. /\ step[w] # "idle" /\ job[w] \in Runs /\ UNCHANGED <<queue, sent>>
        /\ \A r \in Runs \ {job[w]} : status'[r] = status[r]
        /\ job'[w] = job[w] \/ step'[w] = "idle"
        /\ step'[w] # "idle" =>
              status'[job[w]] = IF step'[w] = "finish" THEN "awaiting_review" ELSE "running"
    BY <1>4, OwnRunOnly, WorkerStatus
  <2>2. \A q \in Runs : sent'[q] = 0 => status'[q] \in {"none", "queued"} /\ Untouched(q)'
    BY <1>0, <1>2, <2>1 DEF Alone
  <2>3. \A q \in Runs : queue'[q] > 0 => status'[q] = "queued" /\ Untouched(q)'
    BY <1>0, <1>2, <2>1 DEF Alone
  <2>4. \A v \in Workers : step'[v] # "idle" =>
        /\ sent'[job'[v]] > 0 /\ queue'[job'[v]] = 0
        /\ status'[job'[v]] = IF step'[v] = "finish" THEN "awaiting_review" ELSE "running"
    BY <1>0, <1>1, <1>2, <2>1 DEF Alone
  <2>5. \A u, v \in Workers :
          step'[u] # "idle" /\ step'[v] # "idle" /\ job'[u] = job'[v] => u = v
    BY <1>0, <1>1, <1>2, <2>1 DEF Alone
  <2>. QED
    BY <2>2, <2>3, <2>4, <2>5 DEF Alone
<1>. QED
  BY <1>3, <1>4

LEMMA NextAlone ==
    ASSUME Typed, Known, Alone, [Next]_vars, MaxDeliveries = 1
    PROVE  Alone'
<1>1. ASSUME NEW r \in Runs
      PROVE  ~ Redeliver(r)
  <2>1. sent[r] \in 0..1
    BY DEF Typed, TypeOK
  <2>. QED
    BY <2>1 DEF Redeliver
<1>2. CASE UNCHANGED vars
  BY <1>2 DEF vars, database, broker, worker, Alone, Untouched, StateEntries
<1>. QED
  BY <1>1, <1>2, ClientAlone, WorkerAlone DEF Next

----------------------------------------------------------------------------
(* Results.                                                                *)

\* What is stored of the run of one worker is not touched by a step of another.
LEMMA OthersResults ==
    ASSUME Typed, Alone, NEW w \in Workers, Advance(w) \/ Abandon(w),
           NEW v \in Workers \ {w}, step[v] # "idle"
    PROVE  UNCHANGED <<loaded[job[v]], saved[job[v]], metrics[job[v]]>>
<1>0. job'[v] = job[v] /\ job[v] \in Runs
  BY OthersKept DEF Typed, TypeOK, Busy
<1>1. CASE \E r \in Runs : Receive(w, r)
  BY <1>0, <1>1 DEF Receive
<1>2. CASE \A r \in Runs : ~ Receive(w, r)
  <2>1. step[w] # "idle" /\ job[v] \in Runs
    BY <1>2, OwnRunOnly DEF Typed, TypeOK, Busy
  <2>2. job[v] # job[w]
    BY <2>1 DEF Alone
  <2>. QED
    BY <1>0, <1>2, <2>1, <2>2, OwnRunOnly
<1>. QED
  BY <1>1, <1>2

LEMMA WorkerWorked ==
    ASSUME Typed, Alone, NEW w \in Workers, Advance(w) \/ Abandon(w), step'[w] # "idle",
           step[w] # "idle" => WorkedBy(w), MaxDeliveries = 1
    PROVE  WorkedBy(w)'
<1>. USE DEF Goto, Release
<1>0. /\ step \in [Workers -> WorkerSteps] /\ job \in [Workers -> Runs \cup {NoRun}]
      /\ at \in [Workers -> States] /\ saved \in [Runs -> Seq(Batch)]
      /\ (step[w] # "idle" => job[w] \in Runs) /\ (step[w] = "poll" => at[w] \notin Unpolled)
  BY DEF Typed, TypeOK, Busy
<1>1. ASSUME NEW r \in Runs, Receive(w, r)
      PROVE  WorkedBy(w)'
  <2>1. saved[r] = <<>>
    BY <1>1 DEF Receive, Alone, Untouched
  <2>2. /\ job'[w] = r /\ at'[w] = "INGEST" /\ step'[w] = "prepare" /\ UNCHANGED saved
    BY <1>0, <1>1 DEF Receive
  <2>. QED
    BY <2>1, <2>2 DEF WorkedBy, HasPersisted
<1>2. CASE \A r \in Runs : ~ Receive(w, r)
  <2>1. step[w] # "idle" /\ job[w] \in Runs /\ job'[w] = job[w] /\ WorkedBy(w)
    BY <1>2, OwnRunOnly
  <2>2. CASE Prepare(w) \/ Enter(w) \/ PollCancel(w) \/ StopState(w)
    <3>1. UNCHANGED <<at, saved>>
      BY <2>2 DEF Prepare, Enter, PollCancel, StopState, Transition, database
    <3>2. HasPersisted(w)' <=> HasPersisted(w)
      BY <1>0, <2>2, <3>1 DEF Prepare, Enter, PollCancel, StopState, HasPersisted, Working
    <3>. QED
      BY <2>1, <3>1, <3>2 DEF WorkedBy
  <2>3. CASE PollClear(w)
    <3>1. /\ UNCHANGED saved
          /\ step[w] = "poll" /\ step'[w] = "enter" /\ at'[w] = After(at[w])
          /\ at[w] \in States /\ at[w] \notin Unpolled
      BY <1>0, <2>3 DEF PollClear, database
    <3>2. HasPersisted(w)' <=> HasPersisted(w)
      BY <3>1, StatesInOrder, AfterFacts DEF HasPersisted, Unpolled
    <3>. QED
      BY <2>1, <3>1, <3>2 DEF WorkedBy
  <2>4. CASE LoadFile(w) \/ AwaitReview(w)
    BY <1>0, <2>1, <2>4 DEF LoadFile, AwaitReview, WorkedBy, HasPersisted
  <2>5. CASE Loaded(w) \/ SaveMetrics(w)
    <3>1. /\ step[w] = "work" /\ at[w] \in {"SCHEMA_MAP", "METRICS"} /\ Leave(w)
          /\ UNCHANGED <<clients, job, saved>>
      BY <2>5 DEF Loaded, SaveMetrics, database
    <3>2. at'[w] = IF at[w] = "SCHEMA_MAP" THEN "VALIDATE" ELSE "AWAIT_REVIEW"
      BY <3>1, LeavesTyped, AfterFacts
    <3>. QED
      BY <2>1, <3>1, <3>2 DEF WorkedBy, HasPersisted
  <2>6. CASE Triage(w) \/ Triaged(w) \/ PassOver(w) \/ Explain(w) \/ Explained(w)
    <3>1. /\ UNCHANGED <<saved, clients, job>>
          /\ at[w] \in {"TRIAGE", "EXPLAIN"} /\ step[w] = "work"
          /\ Leave(w) \/ UNCHANGED <<at, step>>
      BY <2>6 DEF Triage, Triaged, PassOver, Explain, Explained, database
    <3>2. at'[w] \in {"TRIAGE", "EXPLAIN"}
      BY <3>1, LeavesTyped
    <3>. QED
      BY <2>1, <3>1, <3>2 DEF WorkedBy, HasPersisted
  <2>7. CASE Persist(w)
    <3>1. /\ step[w] = "work" /\ at[w] = "PERSIST" /\ Leave(w) /\ UNCHANGED <<clients, job>>
          /\ \E b : saved'[job[w]] = Append(saved[job[w]], b)
      BY <1>0, <2>1, <2>7 DEF Persist, loops
    <3>2. at'[w] = "PERSIST" /\ step'[w] = "poll"
      BY <3>1, LeavesTyped
    <3>3. saved[job[w]] = <<>>
      BY <2>1, <3>1 DEF WorkedBy, HasPersisted
    <3>. QED
      BY <2>1, <3>1, <3>2, <3>3 DEF WorkedBy, HasPersisted
  <2>8. CASE StopStatus(w) \/ ExplainRaises(w) \/ PersistFails(w) \/ Complete(w) \/ Abandon(w)
    BY <1>0, <2>8 DEF StopStatus, ExplainRaises, PersistFails, Complete, Abandon
  <2>. QED
    BY <1>2, <2>2, <2>3, <2>4, <2>5, <2>6, <2>7, <2>8 DEF Advance
<1>. QED
  BY <1>1, <1>2

LEMMA NextWorked ==
    ASSUME Typed, Alone, Worked, [Next]_vars, MaxDeliveries = 1
    PROVE  Worked'
<1>1. CASE \A w \in Workers : ~ Advance(w) /\ ~ Abandon(w)
  <2>1. UNCHANGED worker /\ UNCHANGED <<loaded, saved, metrics>>
    BY <1>1, WorkersKept, ResultsKept
  <2>. QED
    BY <2>1 DEF Worked, WorkedBy, HasPersisted, worker, loops
<1>2. ASSUME NEW w \in Workers, Advance(w) \/ Abandon(w)
      PROVE  Worked'
  <2>1. ASSUME NEW v \in Workers \ {w}, step'[v] # "idle"
        PROVE  WorkedBy(v)'
    <3>1. UNCHANGED <<job[v], at[v], step[v], done[v]>>
      BY <1>2, OthersKept
    <3>2. UNCHANGED <<loaded[job[v]], saved[job[v]], metrics[job[v]]>>
      BY <1>2, <2>1, <3>1, OthersResults
    <3>. QED
      BY <2>1, <3>1, <3>2 DEF Worked, WorkedBy, HasPersisted
  <2>2. step'[w] # "idle" => WorkedBy(w)'
    BY <1>2, WorkerWorked DEF Worked, WorkedBy
  <2>. QED
    BY <2>1, <2>2 DEF Worked, WorkedBy
<1>. QED
  BY <1>1, <1>2

----------------------------------------------------------------------------
(* The trail.                                                              *)

\* _transition adds one state to the trail of its run, after all others.
LEMMA TransitionEntries ==
    ASSUME Typed, NEW r \in Runs, NEW s \in OrchestratorState, Transition(r, s)
    PROVE  LET n == Len(log[r]) + 1 IN
           /\ StateEntries(r)' = StateEntries(r) \cup {n}
           /\ \A i \in StateEntries(r) : i \in Nat /\ i < n /\ log'[r][i] = log[r][i]
           /\ log'[r][n] = s /\ ostate'[r] = s
           /\ \A q \in Runs \ {r} : UNCHANGED <<log[q], ostate[q]>>
<1>1. /\ log \in [Runs -> Seq(OrchestratorState \cup {"run_created", "cancel_requested"})]
      /\ log[r] \in Seq(OrchestratorState \cup {"run_created", "cancel_requested"})
      /\ log' = [log EXCEPT ![r] = Append(@, s)] /\ ostate' = [ostate EXCEPT ![r] = s]
      /\ ostate \in [Runs -> OrchestratorState]
  BY DEF Transition, Typed, TypeOK
<1>2. log'[r] = Append(log[r], s) /\ ostate'[r] = s
  BY <1>1
<1>. QED
  BY <1>1, <1>2 DEF StateEntries

\* A worker enters a state, or CANCELLED, in the trail of its run.
LEMMA Entering ==
    ASSUME Typed, NEW w \in Workers, Enter(w) \/ StopState(w)
    PROVE  /\ job[w] \in Runs /\ job'[w] = job[w] /\ at'[w] = at[w]
           /\ \/ step[w] = "enter" /\ step'[w] \in {"work", "poll"} /\ Transition(job[w], at[w])
              \/ step[w] = "stop" /\ step'[w] = "stopped" /\ Transition(job[w], "CANCELLED")
           /\ at[w] \in OrchestratorState /\ "CANCELLED" \in OrchestratorState
BY DEF Enter, StopState, Goto, Typed, TypeOK, Busy, OrchestratorState

\* A worker's trail is not touched by a step of another.
LEMMA OthersTrail ==
    ASSUME Typed, Known, Alone, [Next]_vars, NEW w \in Workers, Advance(w) \/ Abandon(w),
           NEW v \in Workers \ {w}, step[v] # "idle"
    PROVE  StateEntries(job[v])' = StateEntries(job[v]) /\ ostate'[job[v]] = ostate[job[v]]
<1>0. job[v] \in Runs /\ status[job[v]] # "none"
  BY DEF Typed, TypeOK, Busy, Known
<1>1. \A u \in Workers : job[u] = job[v] => ~ Enter(u) /\ ~ StopState(u)
  <2>. SUFFICES ASSUME NEW u \in Workers, job[u] = job[v], Enter(u) \/ StopState(u)
                PROVE  FALSE
    OBVIOUS
  <2>1. step[u] # "idle" /\ step'[u] # step[u]
    BY Entering
  <2>2. u = v
    BY <2>1 DEF Alone
  <2>. QED
    BY <2>1, <2>2, OthersKept
<1>2. /\ StateEntries(job[v])'
            = {i \in DOMAIN log'[job'[v]] : log'[job'[v]][i] \in OrchestratorState}
      /\ job'[v] = job[v]
  BY OthersKept DEF StateEntries
<1>3. \A r \in Runs : r = job[v] =>
        StateEntries(r)' = StateEntries(r) /\ (status[r] # "none" => ostate'[r] = ostate[r])
  BY <1>1, TrailKept
<1>. QED
  BY <1>0, <1>2, <1>3 DEF StateEntries

LEMMA WorkerTracked ==
    ASSUME Typed, Alone, Tracked, [Next]_vars, NEW w \in Workers, Advance(w) \/ Abandon(w)
    PROVE  TrackedBy(w)'
<1>. USE DEF Goto, Release
<1>0. /\ step \in [Workers -> WorkerSteps] /\ job \in [Workers -> Runs \cup {NoRun}]
      /\ at \in [Workers -> States]
      /\ log' \in [Runs -> Seq(OrchestratorState \cup {"run_created", "cancel_requested"})]
      /\ (step[w] # "idle" => job[w] \in Runs)
      /\ (step[w] = "poll" => at[w] \notin Unpolled)
  BY NextTyped DEF Typed, TypeOK, Busy
<1>1. CASE step'[w] \in {"idle", "stopped"}
  BY <1>1 DEF TrackedBy
<1>2. CASE Enter(w)
  <2>1. /\ job'[w] = job[w] /\ at'[w] = at[w] /\ job[w] \in Runs /\ at[w] \in OrchestratorState
        /\ step'[w] \in {"work", "poll"} /\ Transition(job[w], at[w])
    BY <1>2, Entering DEF Enter
  <2>2. StateEntries(job[w])' # {} /\ ostate'[job[w]] = at[w]
    <3>1. \A r \in Runs : r = job[w] => StateEntries(r)' # {} /\ ostate'[r] = at[w]
      BY <2>1, TransitionEntries
    <3>. QED
      BY <2>1, <3>1 DEF StateEntries
  <2>. QED
    BY <2>1, <2>2 DEF TrackedBy
<1>3. ASSUME NEW r \in Runs, Receive(w, r)
      PROVE  TrackedBy(w)'
  <2>1. /\ job'[w] = r /\ at'[w] = "INGEST" /\ step'[w] = "prepare" /\ log' = log
        /\ StateEntries(r) = {}
    BY <1>0, <1>3 DEF Receive, Alone, Untouched
  <2>. QED
    BY <2>1 DEF TrackedBy, StateEntries
<1>4. CASE Prepare(w) \/ PollClear(w) \/ PollCancel(w) \/ LoadFile(w) \/ Loaded(w) \/ Triage(w)
           \/ Triaged(w) \/ PassOver(w) \/ Explain(w) \/ Explained(w) \/ Persist(w)
           \/ SaveMetrics(w) \/ AwaitReview(w)
  <2>1. UNCHANGED <<log, ostate, job>> /\ step[w] # "idle"
    BY <1>4 DEF Prepare, PollClear, PollCancel, LoadFile, Loaded, Triage, Triaged, PassOver,
       Explain, Explained, Persist, SaveMetrics, AwaitReview, database
  <2>2. StateEntries(job[w])' = StateEntries(job[w])
    BY <2>1 DEF StateEntries
  <2>3. \/ at'[w] = at[w] /\ step'[w] = step[w]
        \/ at'[w] = at[w] /\ step[w] = "prepare" /\ step'[w] = "enter"
        \/ /\ step[w] \in {"work", "poll"} /\ step'[w] \in {"poll", "stop", "finish"}
           /\ at'[w] = at[w]
        \/ /\ step[w] \in {"work", "poll"} /\ step'[w] = "enter"
           /\ at'[w] = After(at[w]) /\ at[w] # "AWAIT_REVIEW"
    <3>1. CASE Prepare(w) \/ PollCancel(w) \/ LoadFile(w) \/ PassOver(w) \/ Explain(w)
               \/ AwaitReview(w)
      <4>1. at' = at
        BY <3>1 DEF Prepare, PollCancel, LoadFile, PassOver, Explain, AwaitReview
      <4>2. \/ step[w] = "prepare" /\ step'[w] = "enter"
            \/ step[w] = "poll" /\ step'[w] = "stop"
            \/ step[w] = "work" /\ step'[w] = "finish"
            \/ step'[w] = step[w]
        BY <1>0, <3>1 DEF Prepare, PollCancel, LoadFile, PassOver, Explain, AwaitReview
      <4>. QED
        BY <4>1, <4>2
    <3>2. CASE PollClear(w)
      BY <1>0, <3>2 DEF PollClear, Unpolled
    <3>3. CASE Loaded(w) \/ Triage(w) \/ Triaged(w) \/ Explained(w) \/ Persist(w) \/ SaveMetrics(w)
      <4>1. /\ step[w] = "work" /\ UNCHANGED <<clients, job>>
            /\ at[w] \in {"SCHEMA_MAP", "TRIAGE", "EXPLAIN", "PERSIST", "METRICS"}
            /\ Leave(w) \/ UNCHANGED <<at, step>>
        BY <3>3 DEF Loaded, Triage, Triaged, Explained, Persist, SaveMetrics
      <4>2. CASE UNCHANGED <<at, step>>
        BY <4>2
      <4>3. CASE Leave(w)
        <5>1. IF at[w] \in {"SCHEMA_MAP", "METRICS"}
              THEN step'[w] = "enter" /\ at'[w] = After(at[w])
              ELSE step'[w] = "poll" /\ at'[w] = at[w]
          BY <4>1, <4>3, LeavesTyped
        <5>. QED
          BY <4>1, <5>1
      <4>. QED
        BY <4>1, <4>2, <4>3
    <3>. QED
      BY <1>4, <3>1, <3>2, <3>3
  <2>4. at[w] # "AWAIT_REVIEW" => After(at[w]) \in Successors(at[w])
    BY <1>0, AfterTyped
  <2>. QED
    BY <2>1, <2>2, <2>3, <2>4 DEF Tracked, TrackedBy
<1>5. CASE StopState(w) \/ StopStatus(w) \/ ExplainRaises(w) \/ PersistFails(w) \/ Complete(w)
           \/ Abandon(w)
  BY <1>0, <1>1, <1>5 DEF StopState, StopStatus, ExplainRaises, PersistFails, Complete, Abandon
<1>. QED
  BY <1>2, <1>3, <1>4, <1>5 DEF Advance

LEMMA NextTracked ==
    ASSUME Typed, Known, Alone, Tracked, [Next]_vars
    PROVE  Tracked'
<1>1. CASE \A w \in Workers : ~ Advance(w) /\ ~ Abandon(w)
  <2>. SUFFICES ASSUME NEW w \in Workers PROVE TrackedBy(w)'
    BY DEF Tracked
  <2>1. UNCHANGED worker
    BY <1>1, WorkersKept
  <2>2. CASE step[w] = "idle"
    BY <2>1, <2>2 DEF TrackedBy, worker
  <2>3. CASE step[w] # "idle"
    <3>1. job[w] \in Runs /\ status[job[w]] # "none"
      BY <2>3 DEF Typed, TypeOK, Busy, Known
    <3>2. StateEntries(job[w])' = StateEntries(job[w]) /\ ostate'[job[w]] = ostate[job[w]]
      <4>1. \A r \in Runs : r = job[w] /\ status[r] # "none" =>
              StateEntries(r)' = StateEntries(r) /\ ostate'[r] = ostate[r]
        BY <1>1, TrailKept DEF Advance
      <4>. QED
        BY <2>1, <3>1, <4>1 DEF StateEntries, worker
    <3>. QED
      BY <2>1, <3>2 DEF Tracked, TrackedBy, worker
  <2>. QED
    BY <2>2, <2>3
<1>2. ASSUME NEW w \in Workers, Advance(w) \/ Abandon(w)
      PROVE  Tracked'
  <2>1. ASSUME NEW v \in Workers \ {w}
        PROVE  TrackedBy(v)'
    <3>1. UNCHANGED <<job[v], at[v], step[v]>>
      BY <1>2, OthersKept
    <3>2. CASE step[v] = "idle"
      BY <3>1, <3>2 DEF TrackedBy
    <3>3. CASE step[v] # "idle"
      <4>1. StateEntries(job[v])' = StateEntries(job[v]) /\ ostate'[job[v]] = ostate[job[v]]
        BY <1>2, <3>3, OthersTrail
      <4>. QED
        BY <3>1, <4>1 DEF Tracked, TrackedBy
    <3>. QED
      BY <3>2, <3>3
  <2>. QED
    BY <1>2, <2>1, WorkerTracked DEF Tracked
<1>. QED
  BY <1>1, <1>2

\* A state entered by _transition follows the last one of the trail.
LEMMA TransitionFollows ==
    ASSUME Typed, TrailIsStateMachine, NEW r \in Runs, NEW s \in OrchestratorState,
           Transition(r, s),
           IF StateEntries(r) = {} THEN s = "INGEST" ELSE s \in Successors(ostate[r])
    PROVE  TrailIsStateMachine'
<1>. DEFINE n == Len(log[r]) + 1
<1>1. /\ StateEntries(r)' = StateEntries(r) \cup {n}
      /\ \A i \in StateEntries(r) : i \in Nat /\ i < n /\ log'[r][i] = log[r][i]
      /\ log'[r][n] = s /\ ostate'[r] = s /\ n \in Nat
      /\ \A q \in Runs \ {r} : UNCHANGED <<log[q], ostate[q]>>
  BY TransitionEntries, SMTT(30) DEF Typed, TypeOK
<1>. HIDE DEF n
<1>2. ASSUME NEW q \in Runs \ {r}
      PROVE  /\ \A i, j \in StateEntries(q)' :
                  Consecutive(q, i, j)' => log'[q][j] \in Successors(log'[q][i])
             /\ \A i \in StateEntries(q)' :
                  /\ (\A j \in StateEntries(q)' : i <= j) => log'[q][i] = "INGEST"
                  /\ (\A j \in StateEntries(q)' : j <= i) => log'[q][i] = ostate'[q]
  BY <1>1 DEF TrailIsStateMachine, StateEntries, Consecutive
<1>3. ASSUME NEW i \in StateEntries(r)', NEW j \in StateEntries(r)', Consecutive(r, i, j)'
      PROVE  log'[r][j] \in Successors(log'[r][i])
  <2>1. i < j /\ \A k \in StateEntries(r)' : ~ (i < k /\ k < j)
    BY <1>3 DEF Consecutive
  <2>2. i \in StateEntries(r)
    BY <1>1, <2>1
  <2>3. CASE j \in StateEntries(r)
    <3>1. Consecutive(r, i, j)
      BY <1>1, <2>1 DEF Consecutive
    <3>. QED
      BY <1>1, <2>2, <2>3, <3>1 DEF TrailIsStateMachine
  <2>4. CASE j = n
    <3>1. \A k \in StateEntries(r) : k <= i
      BY <1>1, <2>1, <2>2, <2>4
    <3>2. log[r][i] = ostate[r]
      BY <2>2, <3>1 DEF TrailIsStateMachine
    <3>. QED
      BY <1>1, <2>2, <2>4, <3>2
  <2>. QED
    BY <1>1, <2>3, <2>4
<1>4. ASSUME NEW i \in StateEntries(r)'
      PROVE  /\ (\A j \in StateEntries(r)' : i <= j) => log'[r][i] = "INGEST"
             /\ (\A j \in StateEntries(r)' : j <= i) => log'[r][i] = ostate'[r]
  <2>1. CASE i = n
    BY <1>1, <2>1
  <2>2. CASE i \in StateEntries(r)
    BY <1>1, <2>2 DEF TrailIsStateMachine
  <2>. QED
    BY <1>1, <2>1, <2>2
<1>. QED
  BY <1>2, <1>3, <1>4 DEF TrailIsStateMachine

LEMMA NextTrail ==
    ASSUME Typed, Known, Alone, Tracked, TrailIsStateMachine, [Next]_vars
    PROVE  TrailIsStateMachine'
<1>1. ASSUME NEW w \in Workers, Enter(w)
      PROVE  TrailIsStateMachine'
  <2>1. /\ job[w] \in Runs /\ at[w] \in OrchestratorState /\ step[w] = "enter"
        /\ Transition(job[w], at[w])
    BY <1>1, Entering DEF Enter
  <2>. QED
    BY <2>1, TransitionFollows DEF Tracked, TrackedBy
<1>2. ASSUME NEW w \in Workers, StopState(w)
      PROVE  TrailIsStateMachine'
  <2>1. /\ job[w] \in Runs /\ "CANCELLED" \in OrchestratorState /\ step[w] = "stop"
        /\ Transition(job[w], "CANCELLED")
    BY <1>2, Entering DEF StopState
  <2>2. StateEntries(job[w]) # {} /\ ostate[job[w]] = at[w] /\ at[w] \in States
        /\ at[w] # "AWAIT_REVIEW"
    BY <2>1 DEF Tracked, TrackedBy, Typed, TypeOK, Busy, Unpolled
  <2>3. "CANCELLED" \in Successors(ostate[job[w]])
    BY <2>1, <2>2, StatesInOrder DEF Successors
  <2>. QED
    BY <2>1, <2>2, <2>3, TransitionFollows
<1>3. CASE \A w \in Workers : ~ Enter(w) /\ ~ StopState(w)
  <2>1. ASSUME NEW r \in Runs
        PROVE  /\ StateEntries(r)' = StateEntries(r)
               /\ \A i \in StateEntries(r) : log'[r][i] = log[r][i]
               /\ StateEntries(r) # {} => ostate'[r] = ostate[r]
    <3>1. status[r] = "none" => StateEntries(r) = {}
      BY DEF Typed, Sending, Alone, Untouched
    <3>. QED
      BY <1>3, <3>1, TrailKept
  <2>. QED
    BY <2>1 DEF TrailIsStateMachine, Consecutive
<1>. QED
  BY <1>1, <1>2, <1>3

----------------------------------------------------------------------------
(* Runs that are shown as finished.                                        *)

Shown(r) == status[r] \in Ended \cup {"awaiting_review"}

\* Nothing is written any more into a run that is shown as finished, but that it
\* is completed.
LEMMA ShownKept ==
    ASSUME Typed, Known, Alone, [Next]_vars, NEW r \in Runs, Shown(r)
    PROVE  /\ UNCHANGED <<ostate[r], saved[r], metrics[r], loaded[r]>>
           /\ \/ status'[r] = status[r]
              \/ status[r] = "awaiting_review" /\ status'[r] = "completed"
<1>. DEFINE Kept == /\ UNCHANGED <<ostate[r], saved[r], metrics[r], loaded[r]>>
                    /\ \/ status'[r] = status[r]
                       \/ status[r] = "awaiting_review" /\ status'[r] = "completed"
<1>0. /\ status \in [Runs -> RunStatus \cup {"none"}] /\ ostate \in [Runs -> OrchestratorState]
      /\ status[r] \in Ended \cup {"awaiting_review"}
  BY DEF Typed, TypeOK, Shown
<1>1. ASSUME NEW c \in Clients,
             (\E q \in Runs : Lookup(c, q) \/ CheckCancel(c, q)) \/ Proceed(c) \/ ClientDies(c)
      PROVE  Kept
  <2>1. CASE Insert(c)
    BY <1>0, <2>1 DEF Insert, Collides, Typed, Busy, Ended
  <2>2. CASE ~ Insert(c)
    BY <1>1, <2>2 DEF Lookup, CheckCancel, Proceed, InsertFails, Enqueue, RecordCancel,
       ClientDies, database
  <2>. QED
    BY <2>1, <2>2
<1>2. ASSUME NEW q \in Runs, Redeliver(q)
      PROVE  Kept
  BY <1>2 DEF Redeliver, database
<1>3. ASSUME NEW w \in Workers, Advance(w) \/ Abandon(w)
      PROVE  Kept
  <2>1. ASSUME NEW q \in Runs, Receive(w, q)
        PROVE  Kept
    <3>1. q # r
      BY <1>0, <2>1 DEF Receive, Alone, Ended
    <3>. QED
      BY <1>0, <2>1, <3>1 DEF Receive
  <2>2. CASE (\A q \in Runs : ~ Receive(w, q)) /\ job[w] # r
    BY <1>3, <2>2, OwnRunOnly
  <2>3. CASE (\A q \in Runs : ~ Receive(w, q)) /\ job[w] = r
    <3>1. step[w] = "finish"
      BY <1>0, <1>3, <2>3, OwnRunOnly DEF Alone, Ended
    <3>2. Complete(w) \/ Abandon(w)
      BY <1>3, <2>3, <3>1 DEF Advance, Prepare, Enter, PollClear, PollCancel, StopState,
         StopStatus, LoadFile, Loaded, Triage, Triaged, PassOver, Explain, ExplainRaises,
         Explained, Persist, PersistFails, SaveMetrics, AwaitReview
    <3>3. status[r] = "awaiting_review"
      BY <1>3, <2>3, <3>1 DEF Alone
    <3>. QED
      BY <1>0, <2>3, <3>2, <3>3 DEF Complete, Abandon, database
  <2>. QED
    BY <2>1, <2>2, <2>3
<1>4. Kept
  BY <1>1, <1>2, <1>3 DEF Next, vars, database
<1>. QED
  BY <1>0, <1>4

\* A run is shown as finished by the worker that has finished it.
LEMMA ShownBy ==
    ASSUME Typed, Known, Alone, [Next]_vars, NEW r \in Runs, ~ Shown(r),
           status'[r] \in {"awaiting_review", "completed"}
    PROVE  \E w \in Workers : AwaitReview(w) /\ job[w] = r
<1>0. status \in [Runs -> RunStatus \cup {"none"}] /\ status'[r] # status[r]
  BY DEF Typed, TypeOK, Shown, Ended
<1>1. ASSUME NEW c \in Clients,
             (\E q \in Runs : Lookup(c, q) \/ CheckCancel(c, q)) \/ Proceed(c) \/ ClientDies(c)
      PROVE  FALSE
  <2>1. CASE Insert(c)
    BY <1>0, <2>1 DEF Insert, Typed, Busy
  <2>2. CASE ~ Insert(c)
    BY <1>0, <1>1, <2>2 DEF Lookup, CheckCancel, Proceed, InsertFails, Enqueue, RecordCancel,
       ClientDies, database
  <2>. QED
    BY <2>1, <2>2
<1>2. ASSUME NEW q \in Runs, Redeliver(q)
      PROVE  FALSE
  BY <1>0, <1>2 DEF Redeliver, database
<1>3. ASSUME NEW w \in Workers, Advance(w) \/ Abandon(w)
      PROVE  AwaitReview(w) /\ job[w] = r
  <2>1. \A q \in Runs : ~ Receive(w, q)
    BY <1>0 DEF Receive
  <2>2. job[w] = r /\ step[w] # "idle"
    BY <1>0, <1>3, <2>1, OwnRunOnly
  <2>3. step[w] # "finish"
    BY <2>2 DEF Alone, Shown
  <2>4. AwaitReview(w) \/ StopStatus(w)
    BY <1>0, <1>3, <2>1, <2>3 DEF Advance, Prepare, Enter, Transition, PollClear, PollCancel,
       StopState, LoadFile, Loaded, Triage, Triaged, PassOver, Explain, ExplainRaises, Explained,
       Persist, PersistFails, SaveMetrics, Complete, Abandon, database
  <2>5. ~ StopStatus(w)
    BY <1>0, <2>2 DEF StopStatus
  <2>. QED
    BY <2>2, <2>4, <2>5
<1>. QED
  BY <1>0, <1>1, <1>2, <1>3 DEF Next, vars, database

LEMMA NextCompleted ==
    ASSUME Typed, Filed, Stored, FinishedHasResults, Alone, Worked, Tracked, CompletedIsWhole,
           [Next]_vars
    PROVE  CompletedIsWhole'
<1>. SUFFICES ASSUME NEW r \in Runs, status'[r] \in {"awaiting_review", "completed"}
              PROVE  Len(saved'[r]) = 1 /\ ostate'[r] = "AWAIT_REVIEW"
  BY NextFinished DEF CompletedIsWhole, FinishedHasResults
<1>1. CASE Shown(r)
  <2>1. /\ UNCHANGED <<ostate[r], saved[r], metrics[r], loaded[r]>>
        /\ status[r] \in {"awaiting_review", "completed"}
    BY <1>1, ShownKept DEF Filed, Shown, Ended
  <2>. QED
    BY <2>1 DEF CompletedIsWhole
<1>2. CASE ~ Shown(r)
  <2>1. PICK w \in Workers : AwaitReview(w) /\ job[w] = r
    BY <1>2, ShownBy DEF Filed
  <2>2. /\ at[w] = "AWAIT_REVIEW" /\ step[w] = "work"
        /\ UNCHANGED <<ostate, metrics, loaded, saved>>
    BY <2>1 DEF AwaitReview
  <2>. QED
    BY <2>1, <2>2 DEF Worked, WorkedBy, HasPersisted, Tracked, TrackedBy
<1>. QED
  BY <1>1, <1>2

----------------------------------------------------------------------------
(* The theorems about one delivery.                                        *)

OneDelivery ==
    /\ Typed /\ Filed /\ Stored /\ FinishedHasResults /\ Alone /\ Worked /\ Tracked
    /\ TrailIsStateMachine /\ CompletedIsWhole

LEMMA OneDeliveryInit == Init => OneDelivery
<1>1. Init => /\ Worked /\ Tracked /\ TrailIsStateMachine /\ CompletedIsWhole
              /\ Stored /\ FinishedHasResults
  BY DEF Init, Worked, Tracked, TrackedBy, TrailIsStateMachine, StateEntries, CompletedIsWhole,
     Stored, FinishedHasResults
<1>. QED
  BY <1>1, TypedInit, FiledInit, AloneInit DEF OneDelivery

LEMMA NextOneDelivery ==
    ASSUME MaxDeliveries = 1, OneDelivery, [Next]_vars
    PROVE  OneDelivery'
<1>1. Typed' /\ Filed' /\ Stored' /\ FinishedHasResults' /\ Alone'
  BY NextTyped, NextFiled, NextStored, NextFinished, NextAlone DEF OneDelivery, Filed
<1>2. Worked' /\ Tracked'
  BY NextWorked, NextTracked DEF OneDelivery, Filed
<1>3. TrailIsStateMachine' /\ CompletedIsWhole'
  BY NextTrail, NextCompleted DEF OneDelivery, Filed
<1>. QED
  BY <1>1, <1>2, <1>3 DEF OneDelivery

\* With one delivery of its message, the trail of a run is a path of the state
\* machine up to the state its row shows.
THEOREM TrailCorrect == MaxDeliveries = 1 => (Spec => []TrailIsStateMachine)
<1>. SUFFICES ASSUME MaxDeliveries = 1 PROVE Spec => []TrailIsStateMachine
  OBVIOUS
<1>1. OneDelivery /\ [Next]_vars => OneDelivery'
  BY NextOneDelivery
<1>2. OneDelivery => TrailIsStateMachine
  BY DEF OneDelivery
<1>. QED
  BY <1>1, <1>2, OneDeliveryInit, PTL DEF Spec

\* With one delivery, a run that is shown as finished has all its results,
\* whatever fails on the way.
THEOREM CompletedCorrect == MaxDeliveries = 1 => (Spec => []CompletedIsWhole)
<1>. SUFFICES ASSUME MaxDeliveries = 1 PROVE Spec => []CompletedIsWhole
  OBVIOUS
<1>1. OneDelivery /\ [Next]_vars => OneDelivery'
  BY NextOneDelivery
<1>2. OneDelivery => CompletedIsWhole
  BY DEF OneDelivery
<1>. QED
  BY <1>1, <1>2, OneDeliveryInit, PTL DEF Spec

\* With one delivery, a run that has ended is not written again.
THEOREM EndedCorrect == MaxDeliveries = 1 => (Spec => ImmutableOnceEnded)
<1>. SUFFICES ASSUME MaxDeliveries = 1 PROVE Spec => ImmutableOnceEnded
  OBVIOUS
<1>1. OneDelivery /\ [Next]_vars => OneDelivery'
  BY NextOneDelivery
<1>2. ASSUME OneDelivery, [Next]_vars, NEW r \in Runs, status[r] \in Ended
      PROVE  /\ status'[r] = status[r] /\ ostate'[r] = ostate[r]
             /\ saved'[r] = saved[r] /\ metrics'[r] = metrics[r]
  BY <1>2, ShownKept DEF OneDelivery, Filed, Shown, Ended
<1>3. OneDelivery /\ [Next]_vars =>
        [\A r \in Runs : status[r] \in Ended =>
            /\ status'[r] = status[r] /\ ostate'[r] = ostate[r]
            /\ saved'[r] = saved[r] /\ metrics'[r] = metrics[r]]_vars
  BY <1>2
<1>. QED
  BY <1>1, <1>3, OneDeliveryInit, PTL DEF Spec, ImmutableOnceEnded
===============================================================================
