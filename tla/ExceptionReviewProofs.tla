------------------------ MODULE ExceptionReviewProofs ------------------------
(***************************************************************************)
(* Proofs about the review of exceptions: for any items and any number of  *)
(* overlapping requests, some of which may die, the status of an item is   *)
(* the decision of its last audit entry, and a request that is told it is  *)
(* done, or that an item is decided, is told the truth.                    *)
(***************************************************************************)
EXTENDS ExceptionReview, TLAPS

USE FreeAssumption

(***************************************************************************)
(* The inductive invariant.                                                *)
(***************************************************************************)

\* A transaction that may hold rows.
InTransaction(v) == pc[v] \in {"update", "wait", "append", "commit"}

\* A row is held by a transaction that has not ended.
HeldByOne == \A e \in Items : lock[e] # Free => InTransaction(lock[e])

\* A handler that waits for a row, or has got it, knows which.
Current ==
    \A v \in Requests :
        /\ pc[v] \in {"wait", "append"} => cur[v] \in Items
        /\ pc[v] = "append" => lock[cur[v]] = v

\* The entries a transaction has appended are about rows it holds, and say
\* what its request decides.
MineIsHeld ==
    \A v \in Requests : \A m \in mine[v] :
        /\ lock[m.item] = v
        /\ m.decision = decision[v]
        /\ m.id < nextId

\* An entry is younger than all committed entries of its item, and committed
\* entries of one item differ in their ids.
MineIsLast ==
    /\ \A n \in trail : n.id < nextId
    /\ \A v \in Requests : \A m \in mine[v] : \A n \in trail :
          n.item = m.item => n.id < m.id

IInv ==
    /\ TypeOK
    /\ HeldByOne /\ Current
    /\ MineIsHeld /\ MineIsLast
    /\ StatusIsLastDecision

LEMMA InvInit == Init => IInv
<1>. SUFFICES ASSUME Init PROVE IInv
  OBVIOUS
<1>1. TypeOK
  BY NumbersAssumption DEF Init, TypeOK, Decisions, Entries, Ids
<1>. QED
  BY <1>1 DEF Init, IInv, HeldByOne, Current, MineIsHeld, MineIsLast,
     StatusIsLastDecision, Decided, LastOf

\* A request arrives: it holds nothing and has appended nothing.
LEMMA AskStep ==
    ASSUME IInv, NEW v \in Requests, NEW a \in Asks, Ask(v, a)
    PROVE  IInv'
<1>. USE DEF IInv, TypeOK, Ask, Goto, rows
<1>1. a.items \in SUBSET Items /\ a.decision \in Decisions /\ a.bulk \in BOOLEAN
  BY AsksAssumption
<1>2. TypeOK'
  <2>1. /\ asked' \in [Requests -> SUBSET Items] /\ decision' \in [Requests -> Decisions]
        /\ bulk' \in [Requests -> BOOLEAN]
    BY <1>1
  <2>. QED
    BY <2>1
<1>3. mine[v] = {}
  BY DEF MineIsHeld, HeldByOne, InTransaction, Entries
<1>4. HeldByOne' /\ Current'
  BY DEF HeldByOne, InTransaction, Current
<1>5. MineIsHeld' /\ MineIsLast'
  BY <1>3 DEF MineIsHeld, MineIsLast
<1>6. StatusIsLastDecision'
  BY DEF StatusIsLastDecision, Decided, LastOf
<1>. QED
  BY <1>2, <1>4, <1>5, <1>6

LEMMA ReadStep ==
    ASSUME IInv, NEW v \in Requests, Read(v)
    PROVE  IInv'
<1>. USE DEF IInv, TypeOK, Read, Goto, rows, request
<1>1. TypeOK'
  OBVIOUS
<1>2. HeldByOne' /\ Current'
  BY DEF HeldByOne, InTransaction, Current
<1>3. MineIsHeld' /\ MineIsLast'
  BY DEF MineIsHeld, MineIsLast
<1>4. StatusIsLastDecision'
  BY DEF StatusIsLastDecision, Decided, LastOf
<1>. QED
  BY <1>1, <1>2, <1>3, <1>4

LEMMA UpdateStep ==
    ASSUME IInv, NEW v \in Requests, Update(v)
    PROVE  IInv'
<1>. USE DEF IInv, TypeOK, Update, Goto, rows, request
<1>1. TypeOK'
  OBVIOUS
<1>2. HeldByOne' /\ Current'
  BY DEF HeldByOne, InTransaction, Current
<1>3. MineIsHeld' /\ MineIsLast'
  BY DEF MineIsHeld, MineIsLast
<1>4. StatusIsLastDecision'
  BY DEF StatusIsLastDecision, Decided, LastOf
<1>. QED
  BY <1>1, <1>2, <1>3, <1>4

\* The row was free, so nobody else has appended an entry about it.
LEMMA LockStep ==
    ASSUME IInv, NEW v \in Requests, Lock(v)
    PROVE  IInv'
<1>. USE DEF IInv, TypeOK, Lock, Goto, rows, request
<1>1. TypeOK'
  OBVIOUS
<1>2. cur[v] \in Items /\ lock[cur[v]] = Free
  BY DEF Current
<1>3. HeldByOne' /\ Current'
  BY <1>2 DEF HeldByOne, InTransaction, Current
<1>4. \A w \in Requests : \A m \in mine[w] : m.item \in Items /\ m.item # cur[v]
  BY <1>2 DEF MineIsHeld, Entries
<1>5. MineIsHeld' /\ MineIsLast'
  BY <1>2, <1>4 DEF MineIsHeld, MineIsLast
<1>6. StatusIsLastDecision'
  BY DEF StatusIsLastDecision, Decided, LastOf
<1>. QED
  BY <1>1, <1>3, <1>5, <1>6

\* The new entry is about the row that is held, and its id is the youngest.
LEMMA AppendStep ==
    ASSUME IInv, NEW v \in Requests, AppendEntry(v)
    PROVE  IInv'
<1>. DEFINE n == [id |-> nextId, item |-> cur[v], decision |-> decision[v]]
<1>. USE DEF IInv, TypeOK, AppendEntry, Goto, rows, request
<1>1. cur[v] \in Items /\ lock[cur[v]] = v
  BY DEF Current
<1>2. nextId \in Ids /\ nextId' \in 1..(MaxId + 1) /\ nextId' = nextId + 1
  BY NumbersAssumption DEF Ids
<1>3. n \in Entries
  BY <1>1, <1>2 DEF Entries
<1>4. mine' = [mine EXCEPT ![v] = @ \cup {n}]
  OBVIOUS
<1>5. TypeOK'
  BY <1>2, <1>3, <1>4
<1>6. HeldByOne' /\ Current'
  BY DEF HeldByOne, InTransaction, Current
<1>7. MineIsHeld'
  <2>. SUFFICES ASSUME NEW w \in Requests, NEW m \in mine'[w]
                PROVE  lock[m.item] = w /\ m.decision = decision[w] /\ m.id < nextId + 1
    BY <1>2 DEF MineIsHeld
  <2>1. CASE m \in mine[w]
    <3>1. m.id \in Nat /\ nextId \in Nat
      BY <2>1, <1>2 DEF Entries, Ids
    <3>. QED
      BY <2>1, <3>1 DEF MineIsHeld
  <2>2. CASE m = n /\ w = v
    BY <2>2, <1>1, <1>2 DEF Ids
  <2>. QED
    BY <2>1, <2>2, <1>4
<1>8. MineIsLast'
  <2>1. \A k \in trail : k.id \in Nat /\ k.id < nextId /\ nextId \in Nat
    BY <1>2 DEF MineIsLast, Entries, Ids
  <2>2. \A w \in Requests : \A m \in mine'[w] : m \in mine[w] \/ m = n
    BY <1>4
  <2>. QED
    BY <2>1, <2>2, <1>2 DEF MineIsLast
<1>9. StatusIsLastDecision'
  BY DEF StatusIsLastDecision, Decided, LastOf
<1>. QED
  BY <1>5, <1>6, <1>7, <1>8, <1>9

\* What a transaction that ends leaves behind, committed or not.
LEMMA EndLeaves ==
    ASSUME IInv, NEW v \in Requests,
           NEW answer \in {"done", "conflict", "refused", "failed"}, EndAs(v, answer)
    PROVE  /\ lock' \in [Items -> Requests \cup {Free}]
           /\ pc' \in [Requests -> {"new", "read", "update", "wait", "append",
                                     "commit", "ended"}]
           /\ todo' \in [Requests -> SUBSET Items]
           /\ cur' \in [Requests -> Items \cup {Free}]
           /\ mine' \in [Requests -> SUBSET Entries]
           /\ reply' \in [Requests -> {"none", "done", "conflict", "refused", "failed"}]
           /\ HeldByOne' /\ Current'
           /\ mine'[v] = {}
           /\ \A w \in Requests \ {v} : mine'[w] = mine[w]
           /\ \A w \in Requests \ {v} : \A m \in mine[w] :
                 m.item \in Items /\ lock'[m.item] = lock[m.item]
<1>. USE DEF IInv, TypeOK, EndAs, Goto
<1>1. HeldByOne'
  BY DEF HeldByOne, InTransaction
<1>2. Current'
  BY DEF Current
<1>3. \A w \in Requests \ {v} : \A m \in mine[w] :
        m.item \in Items /\ lock'[m.item] = lock[m.item]
  BY DEF MineIsHeld, Entries
<1>. QED
  BY <1>1, <1>2, <1>3

\* A request that is refused, aborted or killed writes nothing.
LEMMA AbortStep ==
    ASSUME IInv, NEW v \in Requests,
           NEW answer \in {"conflict", "refused", "failed"}, EndAs(v, answer),
           UNCHANGED <<rows, trail, nextId, request>>
    PROVE  IInv'
<1>. USE EndLeaves DEF IInv, rows, request
<1>1. TypeOK'
  BY DEF TypeOK
<1>2. MineIsHeld' /\ MineIsLast'
  BY DEF MineIsHeld, MineIsLast
<1>3. StatusIsLastDecision'
  BY DEF StatusIsLastDecision, Decided, LastOf
<1>. QED
  BY <1>1, <1>2, <1>3

\* The rows that are written are those the new entries are about, and these
\* entries are now the last of their items.
LEMMA CommitStep ==
    ASSUME IInv, NEW v \in Requests, Commit(v)
    PROVE  IInv'
<1>. DEFINE S == {m.item : m \in mine[v]}
<1>. USE DEF IInv
<1>1. /\ EndAs(v, "done")
      /\ trail' = trail \cup mine[v]
      /\ nextId' = nextId /\ asked' = asked /\ decision' = decision /\ bulk' = bulk
      /\ status' = [e \in Items |-> IF e \in S THEN decision[v] ELSE status[e]]
      /\ reason' = [e \in Items |-> reason[e] \/ (e \in S /\ decision[v] = "rejected")]
      /\ resolved' = [e \in Items |-> resolved[e] \/ (e \in S /\ decision[v] # "escalated")]
  BY DEF Commit, Write, request
<1>2. mine[v] \subseteq Entries /\ decision[v] \in Decisions
  BY DEF TypeOK
<1>3. TypeOK'
  <2>1. reason' \in [Items -> BOOLEAN] /\ resolved' \in [Items -> BOOLEAN]
    BY <1>1 DEF TypeOK
  <2>2. status' \in [Items -> Decisions \cup {"open"}] /\ trail' \subseteq Entries
    BY <1>1, <1>2 DEF TypeOK
  <2>. QED
    BY <1>1, <2>1, <2>2, EndLeaves DEF TypeOK
<1>4. MineIsHeld'
  BY <1>1, EndLeaves DEF MineIsHeld
<1>5. MineIsLast'
  <2>1. ASSUME NEW w \in Requests \ {v}, NEW m \in mine[w], NEW n \in mine[v]
        PROVE  n.item # m.item
    BY <2>1 DEF MineIsHeld
  <2>2. \A n \in trail' : n.id < nextId
    BY <1>1 DEF MineIsLast, MineIsHeld
  <2>. QED
    BY <2>1, <2>2, <1>1, EndLeaves DEF MineIsLast
<1>6. StatusIsLastDecision'
  <2>. SUFFICES ASSUME NEW e \in Items
                PROVE  /\ status'[e] = "open" <=> Decided(e)' = {}
                       /\ \A m \in LastOf(Decided(e)') : status'[e] = m.decision
    BY DEF StatusIsLastDecision, LastOf
  <2>1. Decided(e)' = Decided(e) \cup {m \in mine[v] : m.item = e}
    BY <1>1 DEF Decided
  <2>2. CASE e \in S
    <3>1. PICK m \in mine[v] : m.item = e
      BY <2>2
    <3>2. status'[e] = decision[v] /\ decision[v] # "open"
      BY <2>2, <1>1, <1>2 DEF Decisions
    <3>3. ASSUME NEW n \in LastOf(Decided(e)') PROVE n \in mine[v]
      <4>1. m.id <= n.id /\ m.id \in Nat /\ n.id \in Nat
        BY <3>1, <2>1, <1>2 DEF LastOf, Decided, Entries, Ids, TypeOK
      <4>2. n \in trail /\ n.item = e => n.id < m.id
        BY <3>1 DEF MineIsLast
      <4>. QED
        BY <4>1, <4>2, <2>1 DEF LastOf, Decided
    <3>4. \A n \in mine[v] : n.decision = decision[v]
      BY DEF MineIsHeld
    <3>. QED
      BY <2>1, <3>1, <3>2, <3>3, <3>4
  <2>3. CASE e \notin S
    <3>1. Decided(e)' = Decided(e) /\ status'[e] = status[e]
      BY <2>1, <2>3, <1>1
    <3>. QED
      BY <3>1 DEF StatusIsLastDecision
  <2>. QED
    BY <2>2, <2>3
<1>. QED
  BY <1>1, <1>3, <1>4, <1>5, <1>6, EndLeaves

LEMMA InvStep == IInv /\ [Next]_vars => IInv'
<1>. SUFFICES ASSUME IInv, [Next]_vars PROVE IInv'
  OBVIOUS
<1>1. ASSUME NEW v \in Requests, NEW a \in Asks, Ask(v, a) PROVE IInv'
  BY <1>1, AskStep
<1>2. ASSUME NEW v \in Requests, Read(v) PROVE IInv'
  BY <1>2, ReadStep
<1>3. ASSUME NEW v \in Requests, ReadRefused(v) PROVE IInv'
  BY <1>3, AbortStep DEF ReadRefused
<1>4. ASSUME NEW v \in Requests, ReadConflict(v) PROVE IInv'
  BY <1>4, AbortStep DEF ReadConflict
<1>5. ASSUME NEW v \in Requests, Update(v) PROVE IInv'
  BY <1>5, UpdateStep
<1>6. ASSUME NEW v \in Requests, Lock(v) PROVE IInv'
  BY <1>6, LockStep
<1>7. ASSUME NEW v \in Requests, AppendEntry(v) PROVE IInv'
  BY <1>7, AppendStep
<1>8. ASSUME NEW v \in Requests, Commit(v) PROVE IInv'
  BY <1>8, CommitStep
<1>9. ASSUME NEW v \in Requests, BreakDeadlock(v) PROVE IInv'
  BY <1>9, AbortStep DEF BreakDeadlock
<1>10. ASSUME NEW v \in Requests, Die(v) PROVE IInv'
  BY <1>10, AbortStep DEF Die
<1>11. CASE UNCHANGED vars
  BY <1>11 DEF vars, rows, request, IInv, TypeOK, HeldByOne, InTransaction, Current,
     MineIsHeld, MineIsLast, StatusIsLastDecision, Decided, LastOf
<1>. QED
  BY <1>1, <1>2, <1>3, <1>4, <1>5, <1>6, <1>7, <1>8, <1>9, <1>10, <1>11
     DEF Next, Proceed

\* Rows, locks and requests keep their types, for any items and requests.
THEOREM TypeCorrect == Spec => []TypeOK
<1>1. Init => IInv
  BY InvInit
<1>2. IInv /\ [Next]_vars => IInv'
  BY InvStep
<1>3. IInv => TypeOK
  BY DEF IInv
<1>. QED
  BY <1>1, <1>2, <1>3, PTL DEF Spec

\* For any items and any number of overlapping requests, of which any may be
\* aborted or die: the status of an item is the decision of its last audit
\* entry, and an item without an entry is open.
THEOREM StatusCorrect == Spec => []StatusIsLastDecision
<1>1. Init => IInv
  BY InvInit
<1>2. IInv /\ [Next]_vars => IInv'
  BY InvStep
<1>3. IInv => StatusIsLastDecision
  BY DEF IInv
<1>. QED
  BY <1>1, <1>2, <1>3, PTL DEF Spec

(***************************************************************************)
(* What a request was answered is final: decided items stay decided, and a *)
(* request that was answered asks for nothing else.                        *)
(***************************************************************************)

\* Of the items of a request that is under way some were found decided, some
\* have an entry in its transaction, and the others are still to be updated.
Covered(v) ==
    \A e \in asked[v] :
        \/ status[e] # "open"
        \/ e \in todo[v]
        \/ \E m \in mine[v] : m.item = e

Answered ==
    \A v \in Requests :
        /\ reply[v] \in {"conflict", "done"} => pc[v] = "ended"
        /\ ~ bulk[v] => \A d, e \in asked[v] : d = e
        /\ InTransaction(v) => Covered(v)
        /\ pc[v] = "commit" => todo[v] = {}

Kept == Answered /\ ConflictMeansDecided /\ DoneMeansDecided

\* A step of one request that decides no item leaves the others as they are.
LEMMA OthersKept ==
    ASSUME IInv, Kept, NEW v \in Requests,
           \A e \in Items : status[e] # "open" => status'[e] # "open",
           \A w \in Requests \ {v} :
              UNCHANGED <<pc[w], asked[w], bulk[w], todo[w], mine[w], reply[w]>>,
           NEW w \in Requests \ {v}
    PROVE  /\ reply'[w] \in {"conflict", "done"} => pc'[w] = "ended"
           /\ ~ bulk'[w] => \A d, e \in asked'[w] : d = e
           /\ InTransaction(w)' => Covered(w)'
           /\ pc'[w] = "commit" => todo'[w] = {}
           /\ reply'[w] \in {"conflict", "done"} => \A e \in asked'[w] : status'[e] # "open"
<1>. USE DEF Kept, Answered
<1>1. asked[w] \in SUBSET Items
  BY DEF IInv, TypeOK
<1>2. InTransaction(w)' => Covered(w)'
  BY <1>1 DEF InTransaction, Covered
<1>. QED
  BY <1>1, <1>2 DEF ConflictMeansDecided, DoneMeansDecided

\* So it is enough to look at the request that takes the step.
LEMMA OwnSuffices ==
    ASSUME IInv, Kept, NEW v \in Requests,
           \A e \in Items : status[e] # "open" => status'[e] # "open",
           \A w \in Requests \ {v} :
              UNCHANGED <<pc[w], asked[w], bulk[w], todo[w], mine[w], reply[w]>>,
           reply'[v] \in {"conflict", "done"} => pc'[v] = "ended",
           ~ bulk'[v] => \A d, e \in asked'[v] : d = e,
           InTransaction(v)' => Covered(v)',
           pc'[v] = "commit" => todo'[v] = {},
           reply'[v] \in {"conflict", "done"} => \A e \in asked'[v] : status'[e] # "open"
    PROVE  Kept'
<1>1. Answered'
  BY OthersKept DEF Answered
<1>2. ConflictMeansDecided' /\ DoneMeansDecided'
  BY OthersKept DEF ConflictMeansDecided, DoneMeansDecided
<1>. QED
  BY <1>1, <1>2 DEF Kept

LEMMA KeptStep == IInv /\ Kept /\ [Next]_vars => Kept'
<1>. SUFFICES ASSUME IInv, Kept, [Next]_vars
              PROVE  Kept'
  OBVIOUS
<1>. USE DEF IInv, TypeOK, Goto, EndAs, rows, request
<1>1. ASSUME NEW v \in Requests, NEW a \in Asks, Ask(v, a)
      PROVE  Kept'
  <2>1. ~ a.bulk => \A d, e \in a.items : d = e
    BY AsksAssumption
  <2>2. reply[v] \notin {"conflict", "done"}
    BY <1>1 DEF Ask, Kept, Answered
  <2>. QED
    BY <1>1, <2>1, <2>2, OwnSuffices DEF Ask, InTransaction
<1>2. ASSUME NEW v \in Requests, Read(v)
      PROVE  Kept'
  <2>1. reply[v] \notin {"conflict", "done"} /\ (~ bulk[v] => \A d, e \in asked[v] : d = e)
    BY <1>2 DEF Read, Kept, Answered
  <2>2. Covered(v)' /\ (pc'[v] = "commit" => todo'[v] = {})
    BY <1>2 DEF Read, Covered, IsOpen
  <2>. QED
    BY <1>2, <2>1, <2>2, OwnSuffices DEF Read
<1>3. ASSUME NEW v \in Requests, Update(v) \/ Lock(v)
      PROVE  Kept'
  <2>1. /\ reply[v] \notin {"conflict", "done"} /\ (~ bulk[v] => \A d, e \in asked[v] : d = e)
        /\ Covered(v)
    BY <1>3 DEF Update, Lock, Kept, Answered, InTransaction
  <2>2. Covered(v)' /\ pc'[v] # "commit"
    BY <1>3, <2>1 DEF Update, Lock, Covered
  <2>. QED
    BY <1>3, <2>1, <2>2, OwnSuffices DEF Update, Lock
<1>4. ASSUME NEW v \in Requests, AppendEntry(v)
      PROVE  Kept'
  <2>1. /\ reply[v] \notin {"conflict", "done"} /\ (~ bulk[v] => \A d, e \in asked[v] : d = e)
        /\ Covered(v)
    BY <1>4 DEF AppendEntry, Kept, Answered, InTransaction
  <2>2. Covered(v)'
    <3>1. PICK n : n.item = cur[v] /\ mine' = [mine EXCEPT ![v] = @ \cup {n}]
      BY <1>4 DEF AppendEntry
    <3>2. todo' = [todo EXCEPT ![v] = @ \ {cur[v]}] /\ UNCHANGED <<asked, status>>
      BY <1>4 DEF AppendEntry
    <3>. QED
      BY <2>1, <3>1, <3>2 DEF Covered
  <2>3. pc'[v] = "commit" => todo'[v] = {}
    BY <1>4 DEF AppendEntry
  <2>4. \A w \in Requests \ {v} :
          UNCHANGED <<pc[w], asked[w], bulk[w], todo[w], mine[w], reply[w]>>
    BY <1>4 DEF AppendEntry
  <2>. QED
    BY <1>4, <2>1, <2>2, <2>3, <2>4, OwnSuffices DEF AppendEntry
<1>5. ASSUME NEW v \in Requests, ReadRefused(v) \/ BreakDeadlock(v) \/ Die(v)
      PROVE  Kept'
  <2>1. ~ bulk[v] => \A d, e \in asked[v] : d = e
    BY DEF Kept, Answered
  <2>. QED
    BY <1>5, <2>1, OwnSuffices DEF ReadRefused, BreakDeadlock, Die, InTransaction
<1>6. ASSUME NEW v \in Requests, ReadConflict(v)
      PROVE  Kept'
  <2>1. \A d, e \in asked[v] : d = e
    BY <1>6 DEF ReadConflict, Kept, Answered
  <2>2. \A e \in asked[v] : status[e] # "open"
    BY <1>6, <2>1 DEF ReadConflict, IsOpen
  <2>. QED
    BY <1>6, <2>1, <2>2, OwnSuffices DEF ReadConflict, InTransaction
<1>7. ASSUME NEW v \in Requests, Commit(v)
      PROVE  Kept'
  <2>1. /\ Covered(v) /\ todo[v] = {} /\ decision[v] # "open"
        /\ ~ bulk[v] => \A d, e \in asked[v] : d = e
    BY <1>7 DEF Commit, Kept, Answered, InTransaction, Decisions
  <2>2. /\ status' = [e \in Items |-> IF e \in {m.item : m \in mine[v]}
                                     THEN decision[v] ELSE status[e]]
        /\ UNCHANGED <<asked, bulk>> /\ pc'[v] = "ended"
        /\ \A w \in Requests \ {v} : UNCHANGED <<pc[w], todo[w], mine[w], reply[w]>>
    BY <1>7 DEF Commit, Write
  <2>3. \A e \in Items : status[e] # "open" => status'[e] # "open"
    BY <2>1, <2>2
  <2>4. \A e \in asked[v] : status'[e] # "open"
    BY <2>1, <2>2 DEF Covered
  <2>. QED
    BY <2>1, <2>2, <2>3, <2>4, OwnSuffices DEF InTransaction
<1>8. CASE UNCHANGED vars
  BY <1>8 DEF vars, Kept, Answered, InTransaction, Covered, ConflictMeansDecided, DoneMeansDecided
<1>. QED
  BY <1>1, <1>2, <1>3, <1>4, <1>5, <1>6, <1>7, <1>8 DEF Next, Proceed

LEMMA KeptInit == Init => Kept
BY DEF Init, Kept, Answered, InTransaction, ConflictMeansDecided, DoneMeansDecided

\* For any items and requests: an item that a request was told is decided is
\* not open, then or later.
THEOREM ConflictCorrect == Spec => []ConflictMeansDecided
<1>1. Kept => ConflictMeansDecided
  BY DEF Kept
<1>. QED
  BY <1>1, InvInit, InvStep, KeptInit, KeptStep, PTL DEF Spec

\* For any items and any number of overlapping requests, of which any may be
\* aborted or die: a request that is told it is done has left none of its items
\* open.
THEOREM DoneCorrect == Spec => []DoneMeansDecided
<1>1. Kept => DoneMeansDecided
  BY DEF Kept
<1>. QED
  BY <1>1, InvInit, InvStep, KeptInit, KeptStep, PTL DEF Spec

=============================================================================
