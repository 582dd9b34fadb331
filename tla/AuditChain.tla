----------------------------- MODULE AuditChain -----------------------------
(***************************************************************************)
(* The hash-chained audit log: append_entry and verify_chain of            *)
(* adapters/audit/audit_log.py over domain/audit_hash.py, with the         *)
(* database sessions that call it: the worker's state transitions, run     *)
(* creation, cancel requests and review decisions.                         *)
(*                                                                         *)
(* append_entry is three statements (draw an id from the sequence, read    *)
(* the last hash of the run, insert the row) in a transaction its caller   *)
(* commits; each statement is an action here and sees the rows that are    *)
(* committed, or its own (READ COMMITTED).                                 *)
(*                                                                         *)
(* SHA-256 is taken to be collision-free.  A hash is computed over a fresh *)
(* id, so the id names the hash: `sealed` keeps what was hashed under it,  *)
(* and comparing hashes is comparing what they were computed over.         *)
(***************************************************************************)
EXTENDS Naturals, FiniteSets

CONSTANTS
    Sessions,       \* concurrent database sessions
    Runs,           \* values of run_id
    Bodies,         \* what an entry says: actor, action, entity and payload
    MaxId,          \* bound: the sequence is drawn from MaxId times at most
    Serial          \* the runs whose transactions follow one another

ASSUME InhabitedAssumption == Sessions # {} /\ Runs # {} /\ Bodies # {}
ASSUME MaxIdAssumption == MaxId \in Nat
ASSUME SerialAssumption == Serial \subseteq Runs

Ids == 1..MaxId
NoId == 0           \* prev_hash NULL, or an id not drawn yet

Rows == [run : Runs, by : Sessions, body : Bodies, prev : Ids \cup {NoId}]

\* Stands in the slots of ids without a row.
Blank ==
    [run |-> CHOOSE r \in Runs : TRUE, by |-> CHOOSE s \in Sessions : TRUE,
     body |-> CHOOSE b \in Bodies : TRUE, prev |-> NoId]

VARIABLES
    nextId,         \* the sequence behind audit_log.id
    state,          \* id -> "free", "open" (in a transaction) or "kept"
    log,            \* id -> its row, meaningless while the id is free
    sealed,         \* id -> what its hash was computed over
    pc,             \* session -> the statement it has executed last
    target,         \* session -> the run its transaction writes to
    myId,           \* session -> next_id
    last            \* session -> last_hash

vars == <<nextId, state, log, sealed, pc, target, myId, last>>

InRun(r, s) == {i \in Ids : state[i] = s /\ log[i].run = r}
Kept(r) == InRun(r, "kept")
Open(s) == {i \in Ids : state[i] = "open" /\ log[i].by = s}

\* ORDER BY id DESC LIMIT 1: i is the last of S, NoId if there is none.
IsLast(i, S) ==
    \/ S = {} /\ i = NoId
    \/ i \in S /\ \A j \in S : j <= i

\* The row before i in S by id.
Before(i, S) == {j \in S : j < i}

----------------------------------------------------------------------------
Init ==
    /\ nextId = 1
    /\ state = [i \in Ids |-> "free"]
    /\ log = [i \in Ids |-> Blank]
    /\ sealed = [i \in Ids |-> Blank]
    /\ pc = [s \in Sessions |-> "idle"]
    /\ target = [s \in Sessions |-> Blank.run]
    /\ myId = [s \in Sessions |-> NoId]
    /\ last = [s \in Sessions |-> NoId]

\* A request handler or the worker begins to write to run r.  Nothing in the
\* code keeps another session off the run; on those of Serial the sessions happen
\* to follow one another.
Begin(s, r) ==
    /\ pc[s] = "idle"
    /\ r \in Serial => \A t \in Sessions : pc[t] # "idle" => target[t] # r
    /\ pc' = [pc EXCEPT ![s] = "open"]
    /\ target' = [target EXCEPT ![s] = r]
    /\ UNCHANGED <<nextId, state, log, sealed, myId, last>>

\* Mutant: a session draws from a block of ids of its own.
Mut_AnyFreeId(s) ==
    /\ pc[s] = "open"
    /\ nextId <= MaxId
    /\ \E i \in Ids :
        /\ state[i] = "free" /\ \A t \in Sessions : myId[t] # i
        /\ myId' = [myId EXCEPT ![s] = i]
    /\ nextId' = nextId + 1
    /\ pc' = [pc EXCEPT ![s] = "numbered"]
    /\ UNCHANGED <<state, log, sealed, target, last>>

\* SELECT nextval(...): sequences are not transactional.
DrawId(s) ==
    /\ pc[s] = "open"
    /\ nextId <= MaxId
    /\ myId' = [myId EXCEPT ![s] = nextId]
    /\ nextId' = nextId + 1
    /\ pc' = [pc EXCEPT ![s] = "numbered"]
    /\ UNCHANGED <<state, log, sealed, target, last>>

\* Mutants: the last row of any run; a row that may yet be rolled back.
Mut_AnyRun(s) ==
    {i \in Ids : state[i] = "kept"} \cup Open(s)
Mut_Uncommitted(s) ==
    {i \in Ids : state[i] # "free" /\ log[i].run = target[s]}

\* The rows of its run that session s sees.
Visible(s) == Kept(target[s]) \cup {i \in Open(s) : log[i].run = target[s]}

\* SELECT hash ... WHERE run_id = :run_id ORDER BY id DESC LIMIT 1
ReadLast(s) ==
    /\ pc[s] = "numbered"
    /\ \E i \in Ids \cup {NoId} :
        /\ IsLast(i, Visible(s))
        /\ last' = [last EXCEPT ![s] = i]
    /\ pc' = [pc EXCEPT ![s] = "read"]
    /\ UNCHANGED <<nextId, state, log, sealed, target, myId>>

\* compute_entry_hash and INSERT.
Insert(s) ==
    /\ pc[s] = "read"
    /\ \E b \in Bodies :
        LET row == [run |-> target[s], by |-> s, body |-> b, prev |-> last[s]]
        IN /\ log' = [log EXCEPT ![myId[s]] = row]
           /\ sealed' = [sealed EXCEPT ![myId[s]] = row]
    /\ state' = [state EXCEPT ![myId[s]] = "open"]
    /\ pc' = [pc EXCEPT ![s] = "open"]
    /\ myId' = [myId EXCEPT ![s] = NoId]
    /\ last' = [last EXCEPT ![s] = NoId]
    /\ UNCHANGED <<nextId, target>>

\* The caller commits.
Commit(s) ==
    /\ pc[s] = "open"
    /\ pc' = [pc EXCEPT ![s] = "idle"]
    /\ state' = [i \in Ids |-> IF i \in Open(s) THEN "kept" ELSE state[i]]
    /\ UNCHANGED <<nextId, log, sealed, target, myId, last>>

\* Mutant: a rollback gives an id back to the sequence.
Mut_GivesBackId(s) ==
    /\ pc[s] # "idle"
    /\ pc' = [pc EXCEPT ![s] = "idle"]
    /\ state' = [i \in Ids |-> IF i \in Open(s) THEN "free" ELSE state[i]]
    /\ nextId' = nextId - 1
    /\ UNCHANGED <<log, sealed, target, myId, last>>

\* An exception in the caller, or the loss of its process, rolls back.
Rollback(s) ==
    /\ pc[s] # "idle"
    /\ pc' = [pc EXCEPT ![s] = "idle"]
    /\ state' = [i \in Ids |-> IF i \in Open(s) THEN "free" ELSE state[i]]
    /\ log' = [i \in Ids |-> IF i \in Open(s) THEN Blank ELSE log[i]]
    /\ sealed' = [i \in Ids |-> IF i \in Open(s) THEN Blank ELSE sealed[i]]
    /\ myId' = [myId EXCEPT ![s] = NoId]
    /\ last' = [last EXCEPT ![s] = NoId]
    /\ UNCHANGED <<nextId, target>>

\* Somebody with the rights to do so rewrites a committed row.
Tamper(i) ==
    /\ state[i] = "kept"
    /\ \E b \in Bodies \ {log[i].body} : log' = [log EXCEPT ![i].body = b]
    /\ UNCHANGED <<nextId, state, sealed, pc, target, myId, last>>

Next ==
    \/ \E s \in Sessions :
        \/ \E r \in Runs : Begin(s, r)
        \/ DrawId(s) \/ ReadLast(s) \/ Insert(s) \/ Commit(s) \/ Rollback(s)
    \/ \E i \in Ids : Tamper(i)

Spec == Init /\ [][Next]_vars

----------------------------------------------------------------------------
(***************************************************************************)
(* verify_chain: the rows of the run by id; one is bad when its prev_hash  *)
(* is not the hash of the row before it, or when its own hash is not that  *)
(* of what it now says.  The first bad row is what the call returns.       *)
(***************************************************************************)

Bad(i, r) ==
    \/ ~ IsLast(log[i].prev, Before(i, Kept(r)))
    \/ log[i] # sealed[i]

BrokenAt(r) == {i \in Kept(r) : Bad(i, r)}

----------------------------------------------------------------------------
(***************************************************************************)
(* Properties                                                              *)
(***************************************************************************)

\* The type invariant of the log.
TypeOK ==
    /\ nextId \in 1..(MaxId + 1)
    /\ state \in [Ids -> {"free", "open", "kept"}]
    /\ log \in [Ids -> Rows]
    /\ sealed \in [Ids -> Rows]
    /\ pc \in [Sessions -> {"idle", "open", "numbered", "read"}]
    /\ target \in [Sessions -> Runs]
    /\ myId \in [Sessions -> Ids \cup {NoId}]
    /\ last \in [Sessions -> Ids \cup {NoId}]

Tampered(r) == {i \in Kept(r) : log[i].body # sealed[i].body}

\* Where transactions follow one another verify_chain finds a fault with exactly
\* the rows that were rewritten: an untouched trail verifies whatever other
\* runs' sessions, rolled back transactions and gaps in the ids lie between its
\* rows, and the id returned for a rewritten one is its first rewritten row.
VerifyIsExact == \A r \in Serial : BrokenAt(r) = Tampered(r)

\* A trail nobody rewrote verifies.
UntamperedVerifies == \A r \in Runs : Tampered(r) = {} => BrokenAt(r) = {}

\* Even when transactions overlap, a committed row's prev_hash is that of a
\* committed row of its own run: nothing chains to a row that was rolled back,
\* nor to another run's trail.
PrevIsKept ==
    \A r \in Runs : \A i \in Kept(r) : log[i].prev \in Kept(r) \cup {NoId}

----------------------------------------------------------------------------
(***************************************************************************)
(* The refinement of AuditTrail: the trail of a run is what its committed  *)
(* rows recorded, read by id.                                              *)
(***************************************************************************)

\* The place of i among the ids S in their order, and the id at place k.
Rank(i, S) == Cardinality({j \in S : j <= i})
Nth(k, S) == CHOOSE i \in S : Rank(i, S) = k

Trail(r) == [k \in 1..Cardinality(Kept(r)) |-> sealed[Nth(k, Kept(r))].body]

Abstract ==
    INSTANCE AuditTrail WITH Runs <- Serial, trail <- [r \in Serial |-> Trail(r)]

\* Where transactions follow one another the log implements the abstract trail:
\* reading a run's committed rows by id, a transaction's entries appear at the
\* end and nothing before them moves.
RefinesTrail == Abstract!Spec

=============================================================================
