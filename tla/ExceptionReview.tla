--------------------------- MODULE ExceptionReview ---------------------------
(***************************************************************************)
(* The review of exceptions (app/api/exceptions.py): approve, reject and   *)
(* escalate one, approve many, by reviewers whose requests are served at   *)
(* the same time.                                                          *)
(*                                                                         *)
(* Each handler is one transaction: it reads the status of its items, and  *)
(* for each item in turn updates the row and appends an audit entry.  The  *)
(* update waits for the row's lock, which the first writer holds to the    *)
(* end of its transaction; it does not look at the status again.           *)
(***************************************************************************)
EXTENDS Naturals, FiniteSets

CONSTANTS
    Items,          \* rows of exception_item
    Confident,      \* those at or above BULK_APPROVE_MIN_CONFIDENCE
    Requests,       \* review requests, served at the same time
    Asks,           \* what a request may ask for: items, a decision, in bulk or not
    Free,           \* no request, no item
    BULK_APPROVE_MAX,
    MayFail,        \* whether a request may die before its commit
    MaxId           \* bound: audit ids drawn

Decisions == {"approved", "rejected", "escalated"}

\* Any decision on one item, or the bulk approval of one or several.
ASSUME AsksAssumption ==
    \A a \in Asks :
        /\ a \in [items : (SUBSET Items) \ {{}}, decision : Decisions, bulk : BOOLEAN]
        /\ a.bulk => IsFiniteSet(a.items) /\ a.decision = "approved"
        /\ ~a.bulk => \E e \in Items : a.items = {e}
ASSUME ConfidentAssumption == Confident \subseteq Items
ASSUME FreeAssumption == Free \notin Requests /\ Free \notin Items
ASSUME NumbersAssumption == BULK_APPROVE_MAX \in Nat /\ MaxId \in Nat
ASSUME MayFailAssumption == MayFail \in BOOLEAN

Ids == 1..MaxId
Entries == [id : Ids, item : Items, decision : Decisions]

VARIABLES
    status,         \* item -> exception_item.status
    reason,         \* item -> whether reject_reason_code is filled
    resolved,       \* item -> whether resolved_by is filled
    lock,           \* item -> the transaction that holds its row
    trail,          \* committed audit entries
    nextId,         \* the sequence behind audit_log.id
    pc,             \* request -> where its handler stands
    asked,          \* request -> the items it names
    decision,       \* request -> what it decides
    bulk,           \* request -> whether it came to /exceptions/bulk-approve
    todo,           \* request -> items still to be updated
    cur,            \* request -> the item it is updating
    mine,           \* request -> entries its transaction has appended
    reply           \* request -> how it was answered

rows == <<status, reason, resolved>>
request == <<asked, decision, bulk>>
vars == <<rows, lock, trail, nextId, pc, request, todo, cur, mine, reply>>

TypeOK ==
    /\ status \in [Items -> Decisions \cup {"open"}]
    /\ reason \in [Items -> BOOLEAN]
    /\ resolved \in [Items -> BOOLEAN]
    /\ lock \in [Items -> Requests \cup {Free}]
    /\ trail \subseteq Entries
    /\ nextId \in 1..(MaxId + 1)
    /\ pc \in [Requests -> {"new", "read", "update", "wait", "append", "commit", "ended"}]
    /\ asked \in [Requests -> SUBSET Items]
    /\ decision \in [Requests -> Decisions]
    /\ bulk \in [Requests -> BOOLEAN]
    /\ todo \in [Requests -> SUBSET Items]
    /\ cur \in [Requests -> Items \cup {Free}]
    /\ mine \in [Requests -> SUBSET Entries]
    /\ reply \in [Requests -> {"none", "done", "conflict", "refused", "failed"}]

Init ==
    /\ status = [e \in Items |-> "open"]
    /\ reason = [e \in Items |-> FALSE]
    /\ resolved = [e \in Items |-> FALSE]
    /\ lock = [e \in Items |-> Free]
    /\ trail = {}
    /\ nextId = 1
    /\ pc = [v \in Requests |-> "new"]
    /\ asked = [v \in Requests |-> {}]
    /\ decision = [v \in Requests |-> "approved"]
    /\ bulk = [v \in Requests |-> FALSE]
    /\ todo = [v \in Requests |-> {}]
    /\ cur = [v \in Requests |-> Free]
    /\ mine = [v \in Requests |-> {}]
    /\ reply = [v \in Requests |-> "none"]

----------------------------------------------------------------------------
Goto(v, p) == pc' = [pc EXCEPT ![v] = p]

\* The transaction ends, one way or the other.
EndAs(v, answer) ==
    /\ Goto(v, "ended")
    /\ reply' = [reply EXCEPT ![v] = answer]
    /\ lock' = [e \in Items |-> IF lock[e] = v THEN Free ELSE lock[e]]
    /\ todo' = [todo EXCEPT ![v] = {}]
    /\ cur' = [cur EXCEPT ![v] = Free]
    /\ mine' = [mine EXCEPT ![v] = {}]

\* A request arrives.
Ask(v, a) ==
    /\ pc[v] = "new"
    /\ asked' = [asked EXCEPT ![v] = a.items]
    /\ decision' = [decision EXCEPT ![v] = a.decision]
    /\ bulk' = [bulk EXCEPT ![v] = a.bulk]
    /\ Goto(v, "read")
    /\ UNCHANGED <<rows, lock, trail, nextId, todo, cur, mine, reply>>

\* Mutant: a row that another request is writing counts as decided.
Mut_IsOpen(e) == status[e] = "open" /\ lock[e] = Free

\* The status the SELECT sees: the committed one.
IsOpen(e) == status[e] = "open"

\* bulk_approve refuses requests that are too long or not confident enough.
Refused(v) ==
    /\ bulk[v]
    /\ \/ Cardinality(asked[v]) > BULK_APPROVE_MAX
       \/ \E e \in asked[v] : e \notin Confident

\* Mutant: SELECT ... FOR UPDATE SKIP LOCKED, which leaves out the rows that
\* another request is writing.
Mut_Read(v) ==
    /\ pc[v] = "read"
    /\ ~Refused(v)
    /\ bulk[v] \/ \A e \in asked[v] : IsOpen(e)
    /\ todo' = [todo EXCEPT ![v] = {e \in asked[v] : IsOpen(e) /\ lock[e] = Free}]
    /\ Goto(v, IF todo'[v] = {} THEN "commit" ELSE "update")
    /\ UNCHANGED <<rows, lock, trail, nextId, request, cur, mine, reply>>

\* The SELECT and the checks on what it returns.  A bulk request skips the
\* items that are decided, a single one is a conflict.
Read(v) ==
    /\ pc[v] = "read"
    /\ ~Refused(v)
    /\ bulk[v] \/ \A e \in asked[v] : IsOpen(e)
    /\ todo' = [todo EXCEPT ![v] = {e \in asked[v] : IsOpen(e)}]
    /\ Goto(v, IF todo'[v] = {} THEN "commit" ELSE "update")
    /\ UNCHANGED <<rows, lock, trail, nextId, request, cur, mine, reply>>

ReadRefused(v) ==
    /\ pc[v] = "read"
    /\ Refused(v)
    /\ EndAs(v, "refused")
    /\ UNCHANGED <<rows, trail, nextId, request>>

ReadConflict(v) ==
    /\ pc[v] = "read"
    /\ ~bulk[v] /\ \E e \in asked[v] : ~IsOpen(e)
    /\ EndAs(v, "conflict")
    /\ UNCHANGED <<rows, trail, nextId, request>>

\* The next UPDATE, in the order the SELECT happened to return the rows.
Update(v) ==
    /\ pc[v] = "update"
    /\ \E e \in todo[v] : cur' = [cur EXCEPT ![v] = e]
    /\ Goto(v, "wait")
    /\ UNCHANGED <<rows, lock, trail, nextId, request, todo, mine, reply>>

\* Mutant: the row is written without waiting for its lock.
Mut_Lock(v) ==
    /\ pc[v] = "wait"
    /\ lock' = [lock EXCEPT ![cur[v]] = v]
    /\ Goto(v, "append")
    /\ UNCHANGED <<rows, trail, nextId, request, todo, cur, mine, reply>>

\* The UPDATE gets the row: WHERE id = :id and nothing else.
Lock(v) ==
    /\ pc[v] = "wait"
    /\ lock[cur[v]] = Free
    /\ lock' = [lock EXCEPT ![cur[v]] = v]
    /\ Goto(v, "append")
    /\ UNCHANGED <<rows, trail, nextId, request, todo, cur, mine, reply>>

\* append_entry
AppendEntry(v) ==
    /\ pc[v] = "append"
    /\ nextId <= MaxId
    /\ mine' = [mine EXCEPT ![v] = @ \cup
                    {[id |-> nextId, item |-> cur[v], decision |-> decision[v]]}]
    /\ nextId' = nextId + 1
    /\ todo' = [todo EXCEPT ![v] = @ \ {cur[v]}]
    /\ cur' = [cur EXCEPT ![v] = Free]
    /\ Goto(v, IF todo'[v] = {} THEN "commit" ELSE "update")
    /\ UNCHANGED <<rows, lock, trail, request, reply>>

\* Mutant: the status of a match group that waits for review.
Mut_Write(S, d) ==
    /\ status' = [e \in Items |-> IF e \in S THEN "pending_review" ELSE status[e]]
    /\ reason' = [e \in Items |-> reason[e] \/ (e \in S /\ d = "rejected")]
    /\ resolved' = [e \in Items |-> resolved[e] \/ (e \in S /\ d # "escalated")]

\* What the UPDATE of a decision sets: escalating leaves the resolver alone,
\* and nothing clears a reason.
Write(S, d) ==
    /\ status' = [e \in Items |-> IF e \in S THEN d ELSE status[e]]
    /\ reason' = [e \in Items |-> reason[e] \/ (e \in S /\ d = "rejected")]
    /\ resolved' = [e \in Items |-> resolved[e] \/ (e \in S /\ d # "escalated")]

Commit(v) ==
    /\ pc[v] = "commit"
    /\ Write({m.item : m \in mine[v]}, decision[v])
    /\ trail' = trail \cup mine[v]
    /\ EndAs(v, "done")
    /\ UNCHANGED <<nextId, request>>

\* Transactions that wait for each other in a ring.
Deadlocked(v) ==
    \E C \in SUBSET Requests :
        /\ v \in C
        /\ \A w \in C : pc[w] = "wait" /\ lock[cur[w]] \in C
        /\ \A w \in C : \E x \in C : lock[cur[x]] = w

\* PostgreSQL breaks a ring by aborting one of its transactions.
BreakDeadlock(v) ==
    /\ Deadlocked(v)
    /\ EndAs(v, "failed")
    /\ UNCHANGED <<rows, trail, nextId, request>>

Die(v) ==
    /\ MayFail /\ pc[v] \notin {"new", "ended"}
    /\ EndAs(v, "failed")
    /\ UNCHANGED <<rows, trail, nextId, request>>

----------------------------------------------------------------------------
Proceed(v) ==
    \/ Read(v) \/ ReadRefused(v) \/ ReadConflict(v)
    \/ Update(v) \/ Lock(v) \/ AppendEntry(v) \/ Commit(v)
    \/ BreakDeadlock(v)

Next ==
    \E v \in Requests :
        \/ \E a \in Asks : Ask(v, a)
        \/ Proceed(v)
        \/ Die(v)

Spec == Init /\ [][Next]_vars

----------------------------------------------------------------------------
(* Properties.                                                             *)

Decided(e) == {m \in trail : m.item = e}
LastOf(S) == {m \in S : \A n \in S : n.id <= m.id}

\* However requests overlap, the status of an item is the decision of its last
\* audit entry, and an item without an entry is open: the row is locked before
\* the id of the entry is drawn.
StatusIsLastDecision ==
    \A e \in Items :
        /\ status[e] = "open" <=> Decided(e) = {}
        /\ \A m \in LastOf(Decided(e)) : status[e] = m.decision

\* stores/exceptions.ts:300-301, "A 409 here means someone else already
\* resolved the item": it is not open, now or later.
ConflictMeansDecided ==
    \A v \in Requests :
        reply[v] = "conflict" => \A e \in asked[v] : status[e] # "open"

\* A request that is told it is done has left none of its items open: neither
\* those it found decided, nor those it waited for while another request had
\* their rows and was then committed, aborted as one of a ring, or died.
DoneMeansDecided ==
    \A v \in Requests :
        reply[v] = "done" => \A e \in asked[v] : status[e] # "open"

\* tests/integration/test_api_routes.py:136, "approve reject are idempotent
\* against double action": an item is decided once.
DecidedOnce == \A e \in Items : Cardinality(Decided(e)) <= 1
=============================================================================
