-------------------------- MODULE AuditChainProofs --------------------------
(***************************************************************************)
(* Proofs about the audit log: its types, that verify_chain is exact on    *)
(* the runs whose transactions follow one another, that no row of any run  *)
(* is chained to a row that was rolled back, and that the log implements   *)
(* AuditTrail.                                                             *)
(***************************************************************************)
EXTENDS AuditChain, SequencesExt, FiniteSetTheorems, TLAPS

USE SerialAssumption DEF NoId

LEMMA BlankIsRow == Blank \in Rows
BY InhabitedAssumption DEF Blank, Rows

LEMMA TypeInit == Init => TypeOK
<1>1. Blank.run \in Runs
  BY BlankIsRow DEF Rows
<1>. QED
  BY <1>1, BlankIsRow, MaxIdAssumption DEF Init, TypeOK, Ids

LEMMA TypeStep == TypeOK /\ [Next]_vars => TypeOK'
<1>. SUFFICES ASSUME TypeOK, [Next]_vars PROVE TypeOK'
  OBVIOUS
<1>. USE MaxIdAssumption DEF TypeOK, Ids
<1>1. ASSUME NEW s \in Sessions, NEW r \in Runs, Begin(s, r) PROVE TypeOK'
  BY <1>1 DEF Begin
<1>2. ASSUME NEW s \in Sessions, DrawId(s) PROVE TypeOK'
  BY <1>2 DEF DrawId
<1>3. ASSUME NEW s \in Sessions, ReadLast(s) PROVE TypeOK'
  BY <1>3 DEF ReadLast
<1>4. ASSUME NEW s \in Sessions, Insert(s) PROVE TypeOK'
  <2>1. PICK b \in Bodies :
          log' = [log EXCEPT ![myId[s]] =
                    [run |-> target[s], by |-> s, body |-> b, prev |-> last[s]]]
          /\ sealed' = [sealed EXCEPT ![myId[s]] =
                    [run |-> target[s], by |-> s, body |-> b, prev |-> last[s]]]
    BY <1>4 DEF Insert
  <2>2. [run |-> target[s], by |-> s, body |-> b, prev |-> last[s]] \in Rows
    BY DEF Rows
  <2>3. log' \in [Ids -> Rows] /\ sealed' \in [Ids -> Rows]
    BY <2>1, <2>2
  <2>. QED
    BY <2>3, <1>4 DEF Insert
<1>5. ASSUME NEW s \in Sessions, Commit(s) PROVE TypeOK'
  BY <1>5 DEF Commit
<1>6. ASSUME NEW s \in Sessions, Rollback(s) PROVE TypeOK'
  BY <1>6, BlankIsRow DEF Rollback
<1>7. ASSUME NEW i \in Ids, Tamper(i) PROVE TypeOK'
  <2>1. PICK b \in Bodies : log' = [log EXCEPT ![i].body = b]
    BY <1>7 DEF Tamper
  <2>2. log[i] \in Rows
    OBVIOUS
  <2>5. [log[i] EXCEPT !.body = b] \in Rows
    BY <2>2 DEF Rows
  <2>3. log' = [log EXCEPT ![i] = [log[i] EXCEPT !.body = b]]
    BY <2>1
  <2>4. log' \in [Ids -> Rows]
    BY <2>5, <2>3
  <2>. QED
    BY <2>4, <1>7 DEF Tamper
<1>8. CASE UNCHANGED vars
  BY <1>8 DEF vars
<1>. QED
  BY <1>1, <1>2, <1>3, <1>4, <1>5, <1>6, <1>7, <1>8 DEF Next

\* Every variable keeps its type, whether or not transactions overlap: the ids
\* stay in the sequence's range and every row is a row.
THEOREM TypeCorrect == Spec => []TypeOK
<1>1. Init => TypeOK
  BY TypeInit
<1>2. TypeOK /\ [Next]_vars => TypeOK'
  BY TypeStep
<1>. QED
  BY <1>1, <1>2, PTL DEF Spec

----------------------------------------------------------------------------
(***************************************************************************)
(* The inductive invariant behind VerifyIsExact.                           *)
(***************************************************************************)

\* The rows of run r, committed or not.
Present(r) == {i \in Ids : state[i] # "free" /\ log[i].run = r}

Numbered(s) == pc[s] \in {"numbered", "read"}

\* Rows exist under ids that were drawn; an id a session holds has no row yet.
IdsDrawn ==
    /\ \A i \in Ids : state[i] # "free" => i < nextId
    /\ \A s \in Sessions : Numbered(s) =>
          /\ myId[s] \in Ids /\ myId[s] < nextId
          /\ state[myId[s]] = "free"

\* No two sessions hold one id.
IdsApart ==
    \A s, t \in Sessions : s # t /\ Numbered(s) /\ Numbered(t) => myId[s] # myId[t]

\* Open rows belong to the transaction of a busy session, and to its run.
OpenOwned ==
    \A i \in Ids : state[i] = "open" =>
        pc[log[i].by] # "idle" /\ log[i].run = target[log[i].by]

Busy(s) == pc[s] # "idle" /\ target[s] \in Serial

\* One transaction on a run of Serial at a time.
OneWriter ==
    \A s, t \in Sessions :
        s # t /\ Busy(s) /\ Busy(t) => target[s] # target[t]

\* Its open rows and the id it holds come after the committed rows of the run,
\* and that id after its open rows.
InOrder ==
    \A s \in Sessions : Busy(s) =>
        /\ \A i \in Kept(target[s]), j \in Open(s) : i < j
        /\ Numbered(s) => \A i \in Present(target[s]) : i < myId[s]

\* What a session read as the last row is still the last row.
LastRead ==
    \A s \in Sessions : pc[s] = "read" /\ target[s] \in Serial =>
        IsLast(last[s], Present(target[s]))

\* Every row is linked to the row before it.
Linked ==
    \A r \in Serial : \A i \in Present(r) :
        IsLast(log[i].prev, Before(i, Present(r)))

\* Rewriting changes nothing but what an entry says.
SealedButBody ==
    \A i \in Ids :
        /\ log[i].run = sealed[i].run /\ log[i].by = sealed[i].by
        /\ log[i].prev = sealed[i].prev

IInv ==
    /\ TypeOK
    /\ IdsDrawn /\ IdsApart
    /\ OpenOwned /\ OneWriter
    /\ InOrder /\ LastRead
    /\ Linked /\ SealedButBody

LEMMA InvInit == Init => IInv
<1>. SUFFICES ASSUME Init PROVE IInv
  OBVIOUS
<1>1. TypeOK
  BY TypeInit
<1>2. \A s \in Sessions : pc[s] = "idle"
  BY DEF Init
<1>3. \A i \in Ids : state[i] = "free" /\ log[i] = Blank /\ sealed[i] = Blank
  BY DEF Init
<1>. QED
  BY <1>1, <1>2, <1>3 DEF IInv, IdsDrawn, IdsApart, OpenOwned, OneWriter, Busy, InOrder,
     LastRead, Linked, SealedButBody, Numbered, Present

\* A session begins, draws an id or reads: no row changes.
LEMMA BeginStep ==
    ASSUME IInv, TypeOK', NEW s \in Sessions, NEW r \in Runs, Begin(s, r)
    PROVE  IInv'
<1>. USE DEF IInv, TypeOK, Begin
<1>1. IdsDrawn' /\ IdsApart'
  BY DEF IdsDrawn, IdsApart, Numbered
<1>2. OpenOwned'
  BY DEF OpenOwned
<1>3. OneWriter'
  BY DEF OneWriter, Busy
<1>4. InOrder'
  <2>1. ASSUME NEW i \in Ids, state[i] = "open" PROVE log[i].by # s
    BY <2>1 DEF OpenOwned
  <2>2. Open(s)' = {}
    BY <2>1 DEF Open
  <2>3. ASSUME NEW t \in Sessions, t # s, pc[t] # "idle"
        PROVE  /\ Kept(target[t])' = Kept(target[t]) /\ Open(t)' = Open(t)
               /\ Present(target[t])' = Present(target[t])
    BY <2>3 DEF Kept, InRun, Open, Present
  <2>. QED
    BY <2>2, <2>3 DEF InOrder, Busy, Numbered
<1>5. LastRead'
  BY DEF LastRead, Present, IsLast
<1>6. Linked' /\ SealedButBody'
  BY DEF Linked, SealedButBody, Present, Before, IsLast
<1>. QED
  BY <1>1, <1>2, <1>3, <1>4, <1>5, <1>6

LEMMA DrawIdStep ==
    ASSUME IInv, TypeOK', NEW s \in Sessions, DrawId(s)
    PROVE  IInv'
<1>. USE MaxIdAssumption DEF IInv, TypeOK, DrawId, Ids
<1>1. IdsDrawn' /\ IdsApart'
  BY DEF IdsDrawn, IdsApart, Numbered
<1>2. OpenOwned' /\ OneWriter'
  BY DEF OpenOwned, OneWriter, Busy
<1>3. InOrder'
  <2>1. \A i \in Present(target[s]) : i < nextId
    BY DEF IdsDrawn, Present
  <2>2. ASSUME NEW t \in Sessions
        PROVE  /\ Kept(target[t])' = Kept(target[t]) /\ Open(t)' = Open(t)
               /\ Present(target[t])' = Present(target[t])
    BY DEF Kept, InRun, Open, Present
  <2>. QED
    BY <2>1, <2>2 DEF InOrder, Busy, Numbered
<1>4. LastRead'
  BY DEF LastRead, Present, IsLast
<1>5. Linked' /\ SealedButBody'
  BY DEF Linked, SealedButBody, Present, Before, IsLast
<1>. QED
  BY <1>1, <1>2, <1>3, <1>4, <1>5

\* The rows a busy session sees are all the rows of its run: nobody else has
\* rows open there.
LEMMA SeesAll ==
    ASSUME IInv, NEW s \in Sessions, Busy(s)
    PROVE  Visible(s) = Present(target[s])
<1>1. ASSUME NEW i \in Ids, state[i] = "open", log[i].run = target[s]
      PROVE  log[i].by = s
  <2>1. log[i].by \in Sessions
    BY DEF IInv, TypeOK, Rows
  <2>. QED
    BY <1>1, <2>1 DEF IInv, OpenOwned, OneWriter, Busy
<1>2. \A i \in Ids : state[i] \in {"free", "open", "kept"}
  BY DEF IInv, TypeOK
<1>. QED
  BY <1>1, <1>2 DEF Visible, Kept, InRun, Open, Present

LEMMA ReadLastStep ==
    ASSUME IInv, TypeOK', NEW s \in Sessions, ReadLast(s)
    PROVE  IInv'
<1>. USE DEF IInv, TypeOK, ReadLast
<1>1. IdsDrawn' /\ IdsApart'
  BY DEF IdsDrawn, IdsApart, Numbered
<1>2. OpenOwned' /\ OneWriter'
  BY DEF OpenOwned, OneWriter, Busy
<1>3. \A t \in Sessions :
        /\ Kept(target[t])' = Kept(target[t]) /\ Open(t)' = Open(t)
        /\ Present(target[t])' = Present(target[t])
  BY DEF Kept, InRun, Open, Present
<1>4. InOrder'
  BY <1>3 DEF InOrder, Busy, Numbered
<1>5. LastRead'
  <2>1. target[s] \in Serial => IsLast(last'[s], Present(target[s]))
    BY SeesAll DEF Busy
  <2>2. ASSUME NEW t \in Sessions, pc'[t] = "read", target[t] \in Serial
        PROVE  IsLast(last'[t], Present(target[t]))
    <3>1. CASE t = s
      BY <2>1, <2>2, <3>1
    <3>2. CASE t # s
      BY <2>2, <3>2 DEF LastRead
    <3>. QED
      BY <3>1, <3>2
  <2>3. ASSUME NEW t \in Sessions, pc'[t] = "read", target'[t] \in Serial
        PROVE  IsLast(last'[t], Present(target[t])')
    BY <2>2, <2>3, <1>3
  <2>. QED
    BY <2>3 DEF LastRead, IsLast
<1>6. Linked' /\ SealedButBody'
  BY DEF Linked, SealedButBody, Present, Before, IsLast
<1>. QED
  BY <1>1, <1>2, <1>4, <1>5, <1>6

\* The new row comes after every row of its run and is linked to the last.
LEMMA InsertStep ==
    ASSUME IInv, TypeOK', NEW s \in Sessions, Insert(s)
    PROVE  IInv'
<1>. DEFINE m == myId[s]
            P == Present(target[s])
<1>. USE DEF IInv, TypeOK
<1>1. PICK b \in Bodies :
        LET row == [run |-> target[s], by |-> s, body |-> b, prev |-> last[s]]
        IN log' = [log EXCEPT ![m] = row] /\ sealed' = [sealed EXCEPT ![m] = row]
  BY DEF Insert
<1>2. /\ m \in Ids /\ m < nextId /\ state[m] = "free"
      /\ target[s] \in Serial => IsLast(last[s], P) /\ \A i \in P : i < m
  BY DEF Insert, IdsDrawn, LastRead, InOrder, Busy, Numbered
<1>3. /\ log'[m].run = target[s] /\ log'[m].by = s /\ log'[m].prev = last[s]
      /\ state'[m] = "open"
      /\ \A i \in Ids \ {m} : log'[i] = log[i] /\ state'[i] = state[i]
      /\ sealed'[m] = log'[m] /\ \A i \in Ids \ {m} : sealed'[i] = sealed[i]
  BY <1>1, <1>2 DEF Insert
<1>4. /\ pc' = [pc EXCEPT ![s] = "open"] /\ pc[s] = "read"
      /\ nextId' = nextId /\ target' = target
      /\ \A t \in Sessions \ {s} : myId'[t] = myId[t] /\ last'[t] = last[t]
  BY DEF Insert
<1>5. /\ Present(target[s])' = P \cup {m}
      /\ Kept(target[s])' = Kept(target[s])
      /\ Open(s)' = Open(s) \cup {m}
  BY <1>2, <1>3, <1>4 DEF Present, Kept, InRun, Open
<1>6. ASSUME NEW r \in Runs, r # target[s]
      PROVE  Present(r)' = Present(r) /\ Kept(r)' = Kept(r)
  BY <1>2, <1>3, <1>6 DEF Present, Kept, InRun
<1>7. IdsDrawn' /\ IdsApart'
  BY <1>2, <1>3, <1>4 DEF IdsDrawn, IdsApart, Numbered
<1>8. OpenOwned'
  <2>. SUFFICES ASSUME NEW i \in Ids, state'[i] = "open"
                PROVE  pc'[log'[i].by] # "idle" /\ log'[i].run = target[log'[i].by]
    BY <1>4 DEF OpenOwned
  <2>1. CASE i = m
    BY <2>1, <1>3, <1>4
  <2>2. CASE i # m
    <3>1. log[i].by \in Sessions
      BY DEF Rows
    <3>. QED
      BY <2>2, <3>1, <1>3, <1>4 DEF OpenOwned
  <2>. QED
    BY <2>1, <2>2
<1>9. OneWriter'
  BY <1>4 DEF OneWriter, Busy
<1>10. InOrder'
  <2>. SUFFICES ASSUME NEW t \in Sessions, Busy(t)'
                PROVE  /\ \A i \in Kept(target[t])', j \in Open(t)' : i < j
                       /\ Numbered(t)' => \A i \in Present(target[t])' : i < myId'[t]
    BY <1>4 DEF InOrder, Busy
  <2>1. CASE t = s
    <3>1. \A i \in Kept(target[s]) : i < m
      BY <2>1, <1>2, <1>4 DEF Present, Kept, InRun, Busy
    <3>. QED
      BY <2>1, <3>1, <1>4, <1>5 DEF InOrder, Busy, Numbered
  <2>2. CASE t # s
    <3>1. target[t] # target[s] /\ pc[t] # "idle" /\ target[t] \in Runs
      BY <2>2, <1>4 DEF OneWriter, Busy
    <3>2. Open(t)' = Open(t)
      BY <2>2, <1>2, <1>3 DEF Open
    <3>. QED
      BY <2>2, <3>1, <3>2, <1>4, <1>6 DEF InOrder, Busy, Numbered
  <2>. QED
    BY <2>1, <2>2
<1>11. LastRead'
  <2>. SUFFICES ASSUME NEW t \in Sessions, pc'[t] = "read", target[t] \in Serial
                PROVE  IsLast(last'[t], Present(target[t])')
    BY <1>4 DEF LastRead, IsLast
  <2>1. t # s /\ pc[t] = "read" /\ target[t] # target[s] /\ target[t] \in Runs
    BY <1>4 DEF OneWriter, Busy
  <2>. QED
    BY <2>1, <1>4, <1>6 DEF LastRead
<1>12. Linked'
  <2>. SUFFICES ASSUME NEW r \in Serial, NEW i \in Present(r)'
                PROVE  IsLast(log'[i].prev, Before(i, Present(r)'))
    BY DEF Linked, IsLast, Before
  <2>1. CASE r # target[s]
    <3>1. i # m /\ i \in Ids
      BY <2>1, <1>2, <1>3 DEF Present
    <3>. QED
      BY <2>1, <3>1, <1>3, <1>6 DEF Linked
  <2>2. ASSUME r = target[s]
        PROVE  Present(r)' = P \cup {m}
    BY <2>2, <1>2, <1>3 DEF Present
  <2>3. CASE r = target[s] /\ i = m
    <3>1. Before(m, P \cup {m}) = P
      BY <2>3, <1>2, MaxIdAssumption DEF Before, Present, Ids
    <3>2. Before(m, Present(r)') = P
      BY <2>2, <2>3, <3>1
    <3>3. IsLast(last[s], Before(i, Present(r)'))
      BY <3>2, <2>3, <1>2
    <3>. QED
      BY <2>3, <3>3, <1>3
  <2>4. CASE r = target[s] /\ i # m
    <3>1. i \in P /\ i \in Ids
      BY <2>2, <2>4 DEF Present
    <3>2. Before(i, P \cup {m}) = Before(i, P)
      BY <2>4, <3>1, <1>2, MaxIdAssumption DEF Before, Present, Ids
    <3>3. Before(i, Present(r)') = Before(i, P)
      BY <2>2, <2>4, <3>2
    <3>4. IsLast(log[i].prev, Before(i, P))
      BY <2>4, <3>1 DEF Linked
    <3>. QED
      BY <2>4, <3>1, <3>3, <3>4, <1>3
  <2>. QED
    BY <2>1, <2>3, <2>4
<1>13. SealedButBody'
  BY <1>3 DEF SealedButBody
<1>. QED
  BY <1>7, <1>8, <1>9, <1>10, <1>11, <1>12, <1>13

LEMMA CommitStep ==
    ASSUME IInv, TypeOK', NEW s \in Sessions, Commit(s)
    PROVE  IInv'
<1>. USE DEF IInv, TypeOK
<1>1. /\ pc' = [pc EXCEPT ![s] = "idle"] /\ pc[s] = "open"
      /\ nextId' = nextId /\ log' = log /\ sealed' = sealed
      /\ target' = target /\ myId' = myId /\ last' = last
      /\ \A i \in Ids : state'[i] = IF i \in Open(s) THEN "kept" ELSE state[i]
  BY DEF Commit
<1>2. \A r \in Runs : Present(r)' = Present(r)
  BY <1>1 DEF Present, Open
<1>3. IdsDrawn' /\ IdsApart'
  BY <1>1 DEF IdsDrawn, IdsApart, Numbered, Open
<1>4. OpenOwned' /\ OneWriter'
  <2>1. \A i \in Ids : log[i].by \in Sessions
    BY DEF Rows
  <2>. QED
    BY <2>1, <1>1 DEF OpenOwned, OneWriter, Busy, Open
<1>5. InOrder'
  <2>. SUFFICES ASSUME NEW t \in Sessions, Busy(t)'
                PROVE  /\ \A i \in Kept(target[t])', j \in Open(t)' : i < j
                       /\ Numbered(t)' => \A i \in Present(target[t])' : i < myId'[t]
    BY <1>1 DEF InOrder, Busy
  <2>1. t # s /\ pc[t] # "idle" /\ target[t] # target[s] /\ target[t] \in Runs
    BY <1>1 DEF OneWriter, Busy
  <2>2. Open(t)' = Open(t)
    BY <2>1, <1>1 DEF Open
  <2>3. Kept(target[t])' = Kept(target[t])
    BY <2>1, <1>1 DEF Kept, InRun, Open, OpenOwned
  <2>. QED
    BY <2>1, <2>2, <2>3, <1>1, <1>2 DEF InOrder, Busy, Numbered
<1>6. LastRead'
  BY <1>1, <1>2 DEF LastRead, IsLast
<1>7. Linked'
  BY <1>1, <1>2 DEF Linked, IsLast, Before
<1>8. SealedButBody'
  BY <1>1 DEF SealedButBody
<1>. QED
  BY <1>3, <1>4, <1>5, <1>6, <1>7, <1>8

\* The rows that go are the last of their run, so that no link breaks.
LEMMA RollbackStep ==
    ASSUME IInv, TypeOK', NEW s \in Sessions, Rollback(s)
    PROVE  IInv'
<1>. USE DEF IInv, TypeOK
<1>1. /\ pc' = [pc EXCEPT ![s] = "idle"] /\ pc[s] # "idle"
      /\ nextId' = nextId /\ target' = target
      /\ \A t \in Sessions \ {s} : myId'[t] = myId[t] /\ last'[t] = last[t]
      /\ \A i \in Ids \ Open(s) :
            state'[i] = state[i] /\ log'[i] = log[i] /\ sealed'[i] = sealed[i]
      /\ \A i \in Open(s) :
            state'[i] = "free" /\ log'[i] = Blank /\ sealed'[i] = Blank
  BY DEF Rollback, Open
<1>2. \A i \in Ids : log[i].by \in Sessions
  BY DEF Rows
<1>3. ASSUME NEW r \in Runs
      PROVE  Present(r)' = Present(r) \ Open(s) /\ Kept(r)' = Kept(r)
  BY <1>1 DEF Present, Kept, InRun, Open
<1>4. ASSUME NEW r \in Runs, r # target[s]
      PROVE  Present(r)' = Present(r)
  BY <1>4, <1>3 DEF Present, Open, OpenOwned
<1>5. ASSUME NEW t \in Sessions, t # s
      PROVE  Open(t)' = Open(t)
  BY <1>5, <1>1 DEF Open
<1>6. IdsDrawn' /\ IdsApart'
  BY <1>1 DEF IdsDrawn, IdsApart, Numbered, Open
<1>7. OpenOwned' /\ OneWriter'
  BY <1>1, <1>2 DEF OpenOwned, OneWriter, Busy, Open
<1>8. ASSUME NEW t \in Sessions, Busy(t)'
      PROVE  t # s /\ pc[t] # "idle" /\ target[t] # target[s] /\ target[t] \in Runs
  BY <1>1, <1>8 DEF OneWriter, Busy
<1>9. InOrder'
  BY <1>1, <1>3, <1>4, <1>5, <1>8 DEF InOrder, Busy, Numbered
<1>10. LastRead'
  <2>. SUFFICES ASSUME NEW t \in Sessions, pc'[t] = "read", target[t] \in Serial
                PROVE  IsLast(last'[t], Present(target[t])')
    BY <1>1 DEF LastRead, IsLast
  <2>1. t # s /\ pc[t] = "read" /\ target[t] # target[s] /\ target[t] \in Runs
    BY <1>1, <1>8 DEF Busy
  <2>. QED
    BY <2>1, <1>1, <1>4 DEF LastRead
<1>11. Linked'
  <2>. SUFFICES ASSUME NEW r \in Serial, NEW i \in Present(r)'
                PROVE  IsLast(log'[i].prev, Before(i, Present(r)'))
    BY DEF Linked, IsLast, Before
  <2>1. i \in Present(r) /\ i \in Ids /\ i \notin Open(s) /\ log'[i] = log[i]
    BY <1>1, <1>3 DEF Present
  <2>2. CASE r # target[s]
    BY <2>1, <2>2, <1>4 DEF Linked
  <2>3. CASE r = target[s]
    <3>1. i \in Kept(r)
      BY <2>1, <2>3, <1>1, SeesAll DEF Visible, Busy
    <3>2. \A j \in Open(s) : ~ (j < i)
      BY <3>1, <2>3, <1>1 DEF InOrder, Busy, Kept, InRun, Open, Ids
    <3>3. Before(i, Present(r)') = Before(i, Present(r))
      BY <3>2, <1>3 DEF Before
    <3>. QED
      BY <2>1, <3>3 DEF Linked
  <2>. QED
    BY <2>2, <2>3
<1>12. SealedButBody'
  BY <1>1 DEF SealedButBody
<1>. QED
  BY <1>6, <1>7, <1>9, <1>10, <1>11, <1>12

LEMMA TamperStep ==
    ASSUME IInv, TypeOK', NEW k \in Ids, Tamper(k)
    PROVE  IInv'
<1>. USE DEF IInv, TypeOK
<1>1. \A i \in Ids : /\ log'[i].run = log[i].run /\ log'[i].by = log[i].by
                     /\ log'[i].prev = log[i].prev
  <2>1. PICK b \in Bodies : log' = [log EXCEPT ![k].body = b]
    BY DEF Tamper
  <2>2. log[k] \in Rows
    OBVIOUS
  <2>. QED
    BY <2>1, <2>2 DEF Rows
<1>2. UNCHANGED <<nextId, state, sealed, pc, target, myId, last>>
  BY DEF Tamper
<1>3. /\ \A r \in Runs : Present(r)' = Present(r) /\ Kept(r)' = Kept(r)
      /\ \A s \in Sessions : Open(s)' = Open(s)
  BY <1>1, <1>2 DEF Present, Kept, InRun, Open
<1>4. IdsDrawn' /\ IdsApart' /\ OpenOwned' /\ OneWriter' /\ SealedButBody'
  BY <1>1, <1>2 DEF IdsDrawn, IdsApart, OpenOwned, OneWriter, Busy, SealedButBody, Numbered
<1>5. InOrder' /\ LastRead'
  BY <1>2, <1>3 DEF InOrder, Busy, LastRead, Numbered, IsLast
<1>6. Linked'
  BY <1>1, <1>3 DEF Linked, IsLast, Before, Present
<1>. QED
  BY <1>4, <1>5, <1>6

LEMMA InvStep == IInv /\ [Next]_vars => IInv'
<1>. SUFFICES ASSUME IInv, [Next]_vars PROVE IInv'
  OBVIOUS
<1>1. TypeOK'
  BY TypeStep DEF IInv
<1>2. ASSUME NEW s \in Sessions, NEW r \in Runs, Begin(s, r) PROVE IInv'
  BY <1>1, <1>2, BeginStep
<1>3. ASSUME NEW s \in Sessions, DrawId(s) PROVE IInv'
  BY <1>1, <1>3, DrawIdStep
<1>4. ASSUME NEW s \in Sessions, ReadLast(s) PROVE IInv'
  BY <1>1, <1>4, ReadLastStep
<1>5. ASSUME NEW s \in Sessions, Insert(s) PROVE IInv'
  BY <1>1, <1>5, InsertStep
<1>6. ASSUME NEW s \in Sessions, Commit(s) PROVE IInv'
  BY <1>1, <1>6, CommitStep
<1>7. ASSUME NEW s \in Sessions, Rollback(s) PROVE IInv'
  BY <1>1, <1>7, RollbackStep
<1>8. ASSUME NEW i \in Ids, Tamper(i) PROVE IInv'
  BY <1>1, <1>8, TamperStep
<1>9. CASE UNCHANGED vars
  BY <1>9 DEF vars, IInv, TypeOK, IdsDrawn, IdsApart, OpenOwned, OneWriter, Busy, InOrder,
     LastRead, Linked, SealedButBody, Numbered, Present, Kept, InRun, Open, IsLast, Before
<1>. QED
  BY <1>2, <1>3, <1>4, <1>5, <1>6, <1>7, <1>8, <1>9 DEF Next

\* A row is linked, among the committed rows, as among all rows of its run:
\* the open ones come later.
LEMMA InvExact == IInv => VerifyIsExact
<1>. SUFFICES ASSUME IInv, NEW r \in Serial, NEW i \in Kept(r)
              PROVE  Bad(i, r) <=> log[i].body # sealed[i].body
  BY DEF VerifyIsExact, BrokenAt, Tampered
<1>. USE DEF IInv, TypeOK
<1>1. i \in Ids /\ i \in Present(r)
  BY DEF Kept, InRun, Present
<1>2. Before(i, Kept(r)) = Before(i, Present(r))
  <2>1. ASSUME NEW j \in Present(r), j < i PROVE j \in Kept(r)
    <3>1. j \in Ids /\ log[j].by \in Sessions
      BY DEF Present, Rows
    <3>2. CASE state[j] = "open"
      <4>1. target[log[j].by] = r /\ pc[log[j].by] # "idle"
        BY <3>1, <3>2 DEF OpenOwned, Present
      <4>2. i < j
        BY <3>1, <3>2, <4>1 DEF InOrder, Busy, Open
      <4>. QED
        BY <4>2, <2>1, <3>1, <1>1 DEF Ids
    <3>3. CASE state[j] = "kept"
      BY <3>3 DEF Kept, InRun, Present
    <3>. QED
      BY <3>1, <3>2, <3>3 DEF Present
  <2>. QED
    BY <2>1 DEF Before, Kept, InRun, Present
<1>3. IsLast(log[i].prev, Before(i, Kept(r)))
  BY <1>1, <1>2 DEF Linked
<1>4. log[i] = sealed[i] <=> log[i].body = sealed[i].body
  <2>1. log[i] \in Rows /\ sealed[i] \in Rows
    BY <1>1
  <2>. QED
    BY <1>1, <2>1 DEF SealedButBody, Rows
<1>. QED
  BY <1>3, <1>4 DEF Bad

\* For every number of sessions, runs and entries: on a run whose transactions
\* follow one another, whatever overlaps on other runs, verify_chain finds a
\* fault with exactly the rows that were rewritten.
THEOREM VerifyExact == Spec => []VerifyIsExact
<1>1. Init => IInv
  BY InvInit
<1>2. IInv /\ [Next]_vars => IInv'
  BY InvStep
<1>3. IInv => VerifyIsExact
  BY InvExact
<1>. QED
  BY <1>1, <1>2, <1>3, PTL DEF Spec

----------------------------------------------------------------------------
(***************************************************************************)
(* Which rows a row can be chained to, overlap or not.                     *)
(***************************************************************************)

\* What a session has read is a row it still sees.
ReadSeen ==
    \A s \in Sessions : pc[s] = "read" => last[s] \in Visible(s) \cup {NoId}

\* A committed row is chained to a committed row of its run; an open one to a
\* row that its own transaction sees.
LinkSeen ==
    \A i \in Ids :
        /\ state[i] = "kept" => log[i].prev \in Kept(log[i].run) \cup {NoId}
        /\ state[i] = "open" => log[i].prev \in Visible(log[i].by) \cup {NoId}

LEMMA SeenStep ==
    ASSUME IInv, ReadSeen, LinkSeen, [Next]_vars
    PROVE  ReadSeen' /\ LinkSeen'
<1>. USE DEF IInv, TypeOK
<1>1. \A i \in Ids : log[i].by \in Sessions /\ log[i].run \in Runs
  BY DEF Rows
<1>2. ASSUME NEW s \in Sessions, NEW r \in Runs, Begin(s, r)
      PROVE  ReadSeen' /\ LinkSeen'
  <2>1. \A i \in Ids : state[i] = "open" => log[i].by # s
    BY <1>2 DEF Begin, OpenOwned
  <2>2. \A t \in Sessions \ {s} : Visible(t)' = Visible(t)
    BY <1>2 DEF Begin, Visible, Kept, InRun, Open
  <2>. QED
    BY <1>1, <1>2, <2>1, <2>2 DEF Begin, ReadSeen, LinkSeen, Kept, InRun
<1>3. ASSUME NEW s \in Sessions, DrawId(s)
      PROVE  ReadSeen' /\ LinkSeen'
  <2>1. \A t \in Sessions : Visible(t)' = Visible(t)
    BY <1>3 DEF DrawId, Visible, Kept, InRun, Open
  <2>. QED
    BY <1>1, <1>3, <2>1 DEF DrawId, ReadSeen, LinkSeen, Kept, InRun
<1>4. ASSUME NEW s \in Sessions, ReadLast(s)
      PROVE  ReadSeen' /\ LinkSeen'
  <2>1. \A t \in Sessions : Visible(t)' = Visible(t)
    BY <1>4 DEF ReadLast, Visible, Kept, InRun, Open
  <2>2. last'[s] \in Visible(s) \cup {NoId}
    BY <1>4 DEF ReadLast, IsLast
  <2>. QED
    BY <1>1, <1>4, <2>1, <2>2 DEF ReadLast, ReadSeen, LinkSeen, Kept, InRun
<1>5. ASSUME NEW s \in Sessions, Insert(s)
      PROVE  ReadSeen' /\ LinkSeen'
  <2>. DEFINE m == myId[s]
  <2>1. m \in Ids /\ state[m] = "free" /\ last[s] \in Visible(s) \cup {NoId}
    BY <1>5 DEF Insert, IdsDrawn, Numbered, ReadSeen
  <2>2. /\ log'[m].run = target[s] /\ log'[m].by = s /\ log'[m].prev = last[s]
        /\ state'[m] = "open"
        /\ \A i \in Ids \ {m} : log'[i] = log[i] /\ state'[i] = state[i]
    BY <1>5, <2>1 DEF Insert
  <2>3. \A r \in Runs : Kept(r)' = Kept(r)
    BY <2>1, <2>2 DEF Kept, InRun
  <2>4. \A t \in Sessions : Visible(t) \subseteq Visible(t)'
    BY <1>5, <2>1, <2>2, <2>3 DEF Insert, Visible, Open
  <2>5. ReadSeen'
    BY <1>5, <2>4 DEF Insert, ReadSeen
  <2>6. LinkSeen'
    <3>. SUFFICES ASSUME NEW i \in Ids
                  PROVE  /\ state'[i] = "kept" => log'[i].prev \in Kept(log[i].run)' \cup {NoId}
                         /\ state'[i] = "open" => log'[i].prev \in Visible(log[i].by)' \cup {NoId}
      BY DEF LinkSeen
    <3>1. CASE i = m
      <4>1. Visible(log[i].by)' = Visible(s)'
        BY <3>1, <2>2 DEF Visible, Open
      <4>. QED
        BY <3>1, <4>1, <2>1, <2>2, <2>4
    <3>2. CASE i # m
      <4>1. /\ Kept(log[i].run)' = Kept(log[i].run)
            /\ Visible(log[i].by) \subseteq Visible(log[i].by)'
        <5>1. log'[i] = log[i]
          BY <3>2, <2>2
        <5>. QED
          BY <5>1, <1>1, <2>3, <2>4 DEF Visible, Kept, InRun, Open
      <4>. QED
        BY <3>2, <4>1, <2>2 DEF LinkSeen
    <3>. QED
      BY <3>1, <3>2
  <2>. QED
    BY <2>5, <2>6
<1>6. ASSUME NEW s \in Sessions, Commit(s)
      PROVE  ReadSeen' /\ LinkSeen'
  <2>1. /\ log' = log /\ target' = target /\ last' = last
        /\ \A i \in Ids : state'[i] = IF i \in Open(s) THEN "kept" ELSE state[i]
        /\ \A t \in Sessions : pc'[t] = "read" => pc[t] = "read"
    BY <1>6 DEF Commit
  <2>2. \A r \in Runs : Kept(r) \subseteq Kept(r)'
    BY <2>1 DEF Kept, InRun, Open
  <2>3. Visible(s) \subseteq Kept(target[s])'
    BY <2>1, <2>2 DEF Visible, Kept, InRun, Open
  <2>4. \A t \in Sessions : Visible(t) \subseteq Visible(t)'
    BY <2>1, <2>2, <2>3 DEF Visible, Open
  <2>5. ReadSeen'
    BY <2>1, <2>4 DEF ReadSeen
  <2>6. LinkSeen'
    <3>. SUFFICES ASSUME NEW i \in Ids
                  PROVE  /\ state'[i] = "kept" => log[i].prev \in Kept(log[i].run)' \cup {NoId}
                         /\ state'[i] = "open" => log[i].prev \in Visible(log[i].by)' \cup {NoId}
      BY <2>1 DEF LinkSeen
    <3>1. CASE i \in Open(s)
      BY <3>1, <2>1, <2>3 DEF LinkSeen, OpenOwned, Open
    <3>2. CASE i \notin Open(s)
      BY <3>2, <1>1, <2>1, <2>2, <2>4 DEF LinkSeen
    <3>. QED
      BY <3>1, <3>2
  <2>. QED
    BY <2>5, <2>6
<1>7. ASSUME NEW s \in Sessions, Rollback(s)
      PROVE  ReadSeen' /\ LinkSeen'
  <2>1. /\ \A i \in Ids \ Open(s) : state'[i] = state[i] /\ log'[i] = log[i]
        /\ \A i \in Open(s) : state[i] = "open" /\ state'[i] = "free" /\ log[i].by = s
        /\ target' = target /\ pc' = [pc EXCEPT ![s] = "idle"]
        /\ \A t \in Sessions \ {s} : last'[t] = last[t]
    BY <1>7 DEF Rollback, Open
  <2>2. \A r \in Runs : Kept(r)' = Kept(r)
    BY <2>1 DEF Kept, InRun, Open
  <2>3. \A t \in Sessions \ {s} : Visible(t)' = Visible(t)
    BY <2>1, <2>2 DEF Visible, Open
  <2>4. \A i \in Ids : state'[i] = "open" => i \notin Open(s) /\ log[i].by # s
    BY <2>1 DEF Open
  <2>. QED
    BY <1>1, <2>1, <2>2, <2>3, <2>4 DEF ReadSeen, LinkSeen
<1>8. ASSUME NEW k \in Ids, Tamper(k)
      PROVE  ReadSeen' /\ LinkSeen'
  <2>1. \A i \in Ids : /\ log'[i].run = log[i].run /\ log'[i].by = log[i].by
                       /\ log'[i].prev = log[i].prev
    <3>1. PICK b \in Bodies : log' = [log EXCEPT ![k].body = b]
      BY <1>8 DEF Tamper
    <3>2. log[k] \in Rows
      OBVIOUS
    <3>. QED
      BY <3>1, <3>2 DEF Rows
  <2>2. UNCHANGED <<nextId, state, sealed, pc, target, myId, last>>
    BY <1>8 DEF Tamper
  <2>3. /\ \A r \in Runs : Kept(r)' = Kept(r)
        /\ \A t \in Sessions : Visible(t)' = Visible(t)
    BY <2>1, <2>2 DEF Visible, Kept, InRun, Open
  <2>. QED
    BY <1>1, <2>1, <2>2, <2>3 DEF ReadSeen, LinkSeen
<1>9. CASE UNCHANGED vars
  BY <1>9 DEF vars, ReadSeen, LinkSeen, Visible, Kept, InRun, Open
<1>. QED
  BY <1>2, <1>3, <1>4, <1>5, <1>6, <1>7, <1>8, <1>9 DEF Next

\* For every number of sessions, runs and entries, overlapping or not: the
\* prev_hash of a committed row is that of a committed row of its own run.
THEOREM LinksStayInRun == Spec => []PrevIsKept
<1>1. Init => IInv
  BY InvInit
<1>2. Init => ReadSeen /\ LinkSeen
  BY DEF Init, ReadSeen, LinkSeen
<1>3. IInv /\ [Next]_vars => IInv'
  BY InvStep
<1>4. IInv /\ ReadSeen /\ LinkSeen /\ [Next]_vars => ReadSeen' /\ LinkSeen'
  BY SeenStep
<1>5. LinkSeen => PrevIsKept
  BY DEF LinkSeen, PrevIsKept, Kept, InRun
<1>. QED
  BY <1>1, <1>2, <1>3, <1>4, <1>5, PTL DEF Spec

----------------------------------------------------------------------------
(***************************************************************************)
(* The refinement of AuditTrail.                                           *)
(***************************************************************************)

LEMMA IdsFinite ==
    ASSUME NEW S \in SUBSET Ids
    PROVE  IsFiniteSet(S) /\ Cardinality(S) \in Nat
<1>1. IsFiniteSet(Ids)
  BY MaxIdAssumption, FS_Interval DEF Ids
<1>. QED
  BY <1>1, FS_Subset, FS_CardinalityType

\* The places of a set of ids are the numbers up to its size, and each is the
\* place of one id.
LEMMA RankFacts ==
    ASSUME NEW S \in SUBSET Ids
    PROVE  /\ \A i \in S : Rank(i, S) \in 1..Cardinality(S)
           /\ \A i, j \in S : Rank(i, S) = Rank(j, S) => i = j
           /\ \A k \in 1..Cardinality(S) : \E i \in S : Rank(i, S) = k
<1>. DEFINE UpTo(i) == {j \in S : j <= i}
<1>1. IsFiniteSet(S) /\ Cardinality(S) \in Nat
  BY IdsFinite
<1>2. \A i \in S : Rank(i, S) \in 1..Cardinality(S)
  <2>1. ASSUME NEW i \in S PROVE Rank(i, S) \in 1..Cardinality(S)
    <3>1. i \in UpTo(i) /\ UpTo(i) \in SUBSET S
      BY MaxIdAssumption DEF Ids
    <3>2. /\ IsFiniteSet(UpTo(i)) /\ Cardinality(UpTo(i)) <= Cardinality(S)
          /\ Cardinality(UpTo(i)) \in Nat
      BY <1>1, <3>1, FS_Subset, FS_CardinalityType
    <3>3. Cardinality(UpTo(i)) # 0
      BY <3>1, <3>2, FS_EmptySet
    <3>. QED
      BY <1>1, <3>2, <3>3 DEF Rank
  <2>. QED
    BY <2>1
<1>3. ASSUME NEW i \in S, NEW j \in S, i < j
      PROVE  Rank(i, S) # Rank(j, S)
  <2>0. \A x \in Ids : x \in Nat
    BY MaxIdAssumption DEF Ids
  <2>1. UpTo(i) \in SUBSET UpTo(j) /\ UpTo(j) \in SUBSET S
    BY <1>3, <2>0
  <2>2. j \in UpTo(j) /\ j \notin UpTo(i)
    BY <1>3, MaxIdAssumption DEF Ids
  <2>. HIDE DEF UpTo
  <2>3. IsFiniteSet(UpTo(j))
    BY <1>1, <2>1, FS_Subset
  <2>4. Cardinality(UpTo(j)) # Cardinality(UpTo(i))
    BY <2>1, <2>2, <2>3, FS_Subset
  <2>. QED
    BY <2>4 DEF Rank, UpTo
<1>4. \A i, j \in S : Rank(i, S) = Rank(j, S) => i = j
  <2>1. \A i, j \in S : i = j \/ i < j \/ j < i
    BY MaxIdAssumption DEF Ids
  <2>. QED
    BY <1>3, <2>1
<1>5. \A k \in 1..Cardinality(S) : \E i \in S : Rank(i, S) = k
  <2>. DEFINE f == [i \in S |-> Rank(i, S)]
              T == 1..Cardinality(S)
  <2>1. f \in Injection(S, T)
    BY <1>2, <1>4 DEF Injection, IsInjective
  <2>2. IsFiniteSet(T) /\ Cardinality(T) = Cardinality(S)
    BY <1>1, FS_Interval
  <2>. HIDE DEF f, T
  <2>3. f \in Surjection(S, T)
    BY <2>1, <2>2, FS_Injection
  <2>4. \A k \in T : \E i \in S : f[i] = k
    BY <2>3 DEF Surjection
  <2>. QED
    BY <2>4 DEF f, T
<1>. QED
  BY <1>2, <1>4, <1>5

\* Ids that come after all those of S leave their places as they are.
LEMMA LaterKeepsPlaces ==
    ASSUME NEW S \in SUBSET Ids, NEW D \in SUBSET Ids,
           \A i \in S, j \in D : i < j
    PROVE  /\ Cardinality(S) <= Cardinality(S \cup D)
           /\ D # {} => Cardinality(S) < Cardinality(S \cup D)
           /\ \A k \in 1..Cardinality(S) : Nth(k, S \cup D) = Nth(k, S)
<1>1. /\ IsFiniteSet(S) /\ Cardinality(S) \in Nat
      /\ IsFiniteSet(S \cup D) /\ Cardinality(S \cup D) \in Nat
  BY IdsFinite
<1>2. Cardinality(S) <= Cardinality(S \cup D)
  BY <1>1, FS_Subset
<1>3. ASSUME D # {} PROVE Cardinality(S) < Cardinality(S \cup D)
  <2>1. PICK j \in D : TRUE
    BY <1>3
  <2>2. j \notin S
    BY <2>1, MaxIdAssumption DEF Ids
  <2>3. Cardinality(S) # Cardinality(S \cup D)
    BY <1>1, <2>1, <2>2, FS_Subset
  <2>. QED
    BY <1>1, <1>2, <2>3
<1>4. ASSUME NEW k \in 1..Cardinality(S) PROVE Nth(k, S \cup D) = Nth(k, S)
  <2>1. PICK i \in S : Rank(i, S) = k
    BY RankFacts
  <2>2. {j \in S \cup D : j <= i} = {j \in S : j <= i}
    <3>1. \A x \in Ids : x \in Nat
      BY MaxIdAssumption DEF Ids
    <3>. QED
      BY <2>1, <3>1
  <2>3. Rank(i, S \cup D) = k
    BY <2>1, <2>2 DEF Rank
  <2>4. \A j \in S : Rank(j, S) = k => j = i
    BY <2>1, RankFacts
  <2>5. \A j \in S \cup D : Rank(j, S \cup D) = k => j = i
    <3>1. \A j, m \in S \cup D : Rank(j, S \cup D) = Rank(m, S \cup D) => j = m
      <4>1. S \cup D \in SUBSET Ids
        OBVIOUS
      <4>. QED
        BY <4>1, RankFacts
    <3>. QED
      BY <2>1, <2>3, <3>1
  <2>6. Nth(k, S) = i
    BY <2>1, <2>4 DEF Nth
  <2>7. Nth(k, S \cup D) = i
    BY <2>1, <2>3, <2>5 DEF Nth
  <2>. QED
    BY <2>6, <2>7
<1>. QED
  BY <1>2, <1>3, <1>4

\* What is read of committed rows is a sequence of entries.
LEMMA TrailType ==
    ASSUME NEW S \in SUBSET Ids, NEW rows \in [Ids -> Rows]
    PROVE  LET t == [k \in 1..Cardinality(S) |-> rows[Nth(k, S)].body]
           IN  t \in Seq(Bodies) /\ Len(t) = Cardinality(S)
<1>. DEFINE n == Cardinality(S)
            t == [k \in 1..n |-> rows[Nth(k, S)].body]
<1>1. n \in Nat
  BY IdsFinite
<1>2. \A k \in 1..n : Nth(k, S) \in Ids
  BY RankFacts DEF Nth
<1>3. \A i \in Ids : rows[i].body \in Bodies
  BY DEF Rows
<1>4. t \in [1..n -> Bodies]
  BY <1>2, <1>3
<1>. HIDE DEF n
<1>. QED
  BY <1>1, <1>4 DEF n

\* A step that neither adds to the committed rows of a run nor seals them anew
\* leaves its trail.
LEMMA TrailStays ==
    ASSUME NEW r \in Serial, Kept(r)' = Kept(r),
           \A i \in Kept(r) : sealed'[i] = sealed[i]
    PROVE  Trail(r)' = Trail(r)
<1>1. Kept(r) \in SUBSET Ids
  BY DEF Kept, InRun
<1>2. \A k \in 1..Cardinality(Kept(r)) : Nth(k, Kept(r)) \in Kept(r)
  BY <1>1, RankFacts DEF Nth
<1>3. Trail(r)' = [k \in 1..Cardinality(Kept(r)) |-> sealed'[Nth(k, Kept(r))].body]
  BY DEF Trail
<1>. QED
  BY <1>2, <1>3 DEF Trail

\* Only a commit adds committed rows, and none is sealed anew.
LEMMA OnlyCommits ==
    ASSUME IInv, [Next]_vars, \A s \in Sessions : ~ Commit(s), NEW r \in Serial
    PROVE  Trail(r)' = Trail(r)
<1>. USE DEF IInv, TypeOK
<1>. DEFINE Same == Kept(r)' = Kept(r) /\ \A i \in Kept(r) : sealed'[i] = sealed[i]
<1>1. ASSUME NEW s \in Sessions, NEW q \in Runs, Begin(s, q) PROVE Same
  BY <1>1 DEF Begin, Kept, InRun
<1>2. ASSUME NEW s \in Sessions, DrawId(s) \/ ReadLast(s) PROVE Same
  BY <1>2 DEF DrawId, ReadLast, Kept, InRun
<1>3. ASSUME NEW s \in Sessions, Insert(s) PROVE Same
  <2>1. myId[s] \in Ids /\ state[myId[s]] = "free"
    BY <1>3 DEF Insert, IdsDrawn, Numbered
  <2>2. /\ state'[myId[s]] = "open"
        /\ \A i \in Ids \ {myId[s]} :
              state'[i] = state[i] /\ log'[i] = log[i] /\ sealed'[i] = sealed[i]
    BY <1>3, <2>1 DEF Insert
  <2>. QED
    BY <2>1, <2>2 DEF Kept, InRun
<1>4. ASSUME NEW s \in Sessions, Rollback(s) PROVE Same
  BY <1>4 DEF Rollback, Kept, InRun, Open
<1>5. ASSUME NEW k \in Ids, Tamper(k) PROVE Same
  <2>1. PICK b \in Bodies : log' = [log EXCEPT ![k].body = b]
    BY <1>5 DEF Tamper
  <2>2. \A i \in Ids : log'[i].run = log[i].run
    BY <2>1 DEF Rows
  <2>. QED
    BY <1>5, <2>2 DEF Tamper, Kept, InRun
<1>6. CASE UNCHANGED vars
  BY <1>6, TrailStays DEF vars, Kept, InRun
<1>7. CASE Next
  BY <1>1, <1>2, <1>3, <1>4, <1>5, <1>7, TrailStays DEF Next
<1>. QED
  BY <1>6, <1>7

\* A commit leaves the trails of other runs, and adds entries at the end of the
\* trail of its own, if it wrote any.
LEMMA CommitRecords ==
    ASSUME IInv, NEW s \in Sessions, Commit(s), NEW r \in Serial
    PROVE  \/ Trail(r)' = Trail(r)
           \/ target[s] = r /\ IsStrictPrefix(Trail(r), Trail(r)')
<1>. USE DEF IInv, TypeOK
<1>1. /\ log' = log /\ sealed' = sealed
      /\ \A i \in Ids : state'[i] = IF i \in Open(s) THEN "kept" ELSE state[i]
      /\ pc[s] # "idle" /\ Open(s) \in SUBSET Ids
  BY DEF Commit, Open
<1>2. \A i \in Open(s) : log[i].run = target[s]
  BY DEF OpenOwned, Open
<1>3. CASE target[s] # r
  <2>1. Kept(r)' = Kept(r)
    BY <1>1, <1>2, <1>3 DEF Kept, InRun
  <2>. QED
    BY <1>1, <2>1, TrailStays
<1>4. CASE target[s] = r
  <2>. DEFINE K == Kept(r)
              L == K \cup Open(s)
              t == [k \in 1..Cardinality(K) |-> sealed[Nth(k, K)].body]
              u == [k \in 1..Cardinality(L) |-> sealed[Nth(k, L)].body]
  <2>1. Kept(r)' = L
    BY <1>1, <1>2, <1>4 DEF Kept, InRun, Open
  <2>2. Trail(r) = t /\ Trail(r)' = u
    BY <1>1, <2>1 DEF Trail
  <2>3. K \in SUBSET Ids /\ L \in SUBSET Ids /\ \A i \in K, j \in Open(s) : i < j
    BY <1>1, <1>4 DEF InOrder, Busy, Kept, InRun
  <2>4. /\ Cardinality(K) <= Cardinality(L)
        /\ Open(s) # {} => Cardinality(K) < Cardinality(L)
        /\ \A k \in 1..Cardinality(K) : Nth(k, L) = Nth(k, K)
    <3>. HIDE DEF K
    <3>. QED
      BY <1>1, <2>3, LaterKeepsPlaces
  <2>5. CASE Open(s) = {}
    <3>1. L = K
      BY <2>5
    <3>. QED
      BY <2>2, <3>1
  <2>6. CASE Open(s) # {}
    <3>. HIDE DEF K, L
    <3>1. t \in Seq(Bodies) /\ Len(t) = Cardinality(K)
      BY <2>3, TrailType
    <3>2. u \in Seq(Bodies) /\ Len(u) = Cardinality(L)
      BY <2>3, TrailType
    <3>3. Cardinality(K) \in Nat /\ Cardinality(L) \in Nat
      BY <2>3, IdsFinite
    <3>4. \A k \in 1..Len(t) : u[k] = t[k]
      BY <2>4, <3>1, <3>3
    <3>5. Len(t) < Len(u)
      BY <2>4, <2>6, <3>1, <3>2
    <3>. HIDE DEF t, u
    <3>6. SubSeq(t, 1, Len(t)) = SubSeq(u, 1, Len(t))
      BY <3>1, <3>2, <3>4, <3>5
    <3>7. IsStrictPrefix(t, u)
      BY <3>1, <3>2, <3>5, <3>6 DEF IsStrictPrefix, IsPrefix
    <3>. QED
      BY <1>4, <2>2, <3>7
  <2>. QED
    BY <2>5, <2>6
<1>. QED
  BY <1>3, <1>4

\* Where transactions follow one another, append_entry in concurrent sessions
\* implements the trail that grows at its end only, a transaction at a time.
THEOREM TrailRefined == Spec => RefinesTrail
<1>1. Init => Abstract!Init
  <2>. SUFFICES ASSUME Init, NEW r \in Serial PROVE Trail(r) = <<>>
    BY DEF Abstract!Init
  <2>1. Kept(r) = {}
    BY DEF Init, Kept, InRun
  <2>2. Cardinality(Kept(r)) = 0
    BY <2>1, FS_EmptySet
  <2>. QED
    BY <2>2 DEF Trail
<1>2. IInv /\ IInv' /\ [Next]_vars => [Abstract!Next]_([r \in Serial |-> Trail(r)])
  <2>. SUFFICES ASSUME IInv, IInv', [Next]_vars
                PROVE  \/ \A r \in Serial : Trail(r)' = Trail(r)
                       \/ \E q \in Serial : Abstract!Record(q)
    BY DEF Abstract!Next
  <2>1. CASE \A s \in Sessions : ~ Commit(s)
    BY <2>1, OnlyCommits
  <2>2. ASSUME NEW s \in Sessions, Commit(s)
        PROVE  \/ \A r \in Serial : Trail(r)' = Trail(r)
               \/ \E q \in Serial : Abstract!Record(q)
    <3>. SUFFICES ASSUME NEW q \in Serial, Trail(q)' # Trail(q)
                  PROVE  Abstract!Record(q)
      OBVIOUS
    <3>. DEFINE t == [r \in Serial |-> Trail(r)]
                u == [r \in Serial |-> Trail(r)']
    <3>1. target[s] = q /\ IsStrictPrefix(Trail(q), Trail(q)')
      BY <2>2, CommitRecords
    <3>2. Abstract!IsStrictPrefix(t[q], u[q])
      BY <3>1 DEF Abstract!IsStrictPrefix, Abstract!IsPrefix, IsStrictPrefix, IsPrefix
    <3>3. \A r \in Serial \ {q} : u[r] = t[r]
      BY <2>2, <3>1, CommitRecords
    <3>4. ASSUME NEW r \in Serial PROVE Trail(r)' \in Seq(Bodies)
      <4>1. Kept(r)' \in SUBSET Ids /\ sealed' \in [Ids -> Rows]
        BY DEF IInv, TypeOK, Kept, InRun
      <4>. QED
        BY <4>1, TrailType DEF Trail
    <3>5. u \in [Serial -> Seq(Bodies)] /\ t' = u
      BY <3>4
    <3>. HIDE DEF u
    <3>. QED
      BY <3>2, <3>3, <3>5 DEF Abstract!Record
  <2>. QED
    BY <2>1, <2>2
<1>3. Init => IInv
  BY InvInit
<1>4. IInv /\ [Next]_vars => IInv'
  BY InvStep
<1>. QED
  BY <1>1, <1>2, <1>3, <1>4, PTL DEF Spec, RefinesTrail, Abstract!Spec
=============================================================================
