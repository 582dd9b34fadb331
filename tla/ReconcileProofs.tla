-------------------------- MODULE ReconcileProofs --------------------------
(***************************************************************************)
(* Proofs about what a run does with its records: for any records, facts,  *)
(* rate card instruments, tolerances and caps on the search.               *)
(***************************************************************************)
EXTENDS Reconcile, CascadeProofs

(***************************************************************************)
(* What the groups of the cascade are made of, partial settlements or not. *)
(***************************************************************************)

\* T1 visits the payment ids of payment lines.
Opening == tier = "T1" => \A p \in todo : p \in PayIds /\ PaymentLines(p) # {}

\* A group without a bank is as T1 made it.
Bare == \A g \in Groups : BanksIn(g) = {} /\ members[g] # {} => Original(g)

\* An order brings the lines of its payment into every group it enters.
Accompanied ==
    \A g \in Groups : \A o \in members[g] \cap Orders :
        /\ batch.orderPid[o] \in PayIds
        /\ PaymentLines(batch.orderPid[o]) # {}
        /\ PaymentLines(batch.orderPid[o]) \subseteq members[g]

\* Where an order with a single line is in a group with a bank, that line backs
\* a bank there.
Backing ==
    \A g \in Reach : BanksIn(g) # {} =>
        \A o \in members[g] \cap Orders, l \in Lines :
            PaymentLines(batch.orderPid[o]) = {l} => \E b \in BanksIn(g) : l \in tie[b]

Formed == Opening /\ Bare /\ Accompanied /\ Backing

LEMMA FormedInit == Init => Formed
<1>. SUFFICES ASSUME Init PROVE Formed
  OBVIOUS
<1>1. \A g \in Groups : members[g] = {}
  BY DEF Init
<1>2. Reach = {}
  BY DEF Reach, Init
<1>3. Opening
  BY DEF Init, Opening
<1>. QED
  BY <1>1, <1>2, <1>3 DEF Formed, Bare, Accompanied, Backing

\* What is said of the groups reads these variables only.
LEMMA SameGroupsFormed ==
    ASSUME Formed, tier' = tier \/ tier' # "T1", tier' = tier => todo' \subseteq todo,
           UNCHANGED <<batch, members, tie>>, Reach' \subseteq Reach
    PROVE  Formed'
<1>. USE DEF Formed
<1>1. /\ \A g : BanksIn(g)' = BanksIn(g)
      /\ \A p : PaymentLines(p)' = PaymentLines(p) /\ CandidateOrders(p)' = CandidateOrders(p)
  BY DEF BanksIn, PaymentLines, CandidateOrders
<1>2. Opening'
  BY <1>1 DEF Opening
<1>3. Bare'
  BY <1>1 DEF Bare, Original
<1>4. Accompanied'
  BY <1>1 DEF Accompanied
<1>5. Backing'
  BY <1>1 DEF Backing
<1>. QED
  BY <1>2, <1>3, <1>4, <1>5

LEMMA T1MatchFormed ==
    ASSUME Typed, Evidenced, Formed, NEW p \in PayIds, T1Match(p)
    PROVE  Formed'
<1>. DEFINE h == <<"T1", p>>
            placed == CandidateOrders(p) \cup PaymentLines(p)
<1>1. /\ members \in [Groups -> SUBSET Entities] /\ h \in Groups
      /\ members' = [members EXCEPT ![h] = placed]
      /\ tier = "T1" /\ p \in todo /\ todo' = todo \ {p} /\ UNCHANGED <<batch, tier, tie>>
  BY DEF T1Match, Takes, Typed, TypeOK, Groups
<1>2. PICK o \in Orders : CandidateOrders(p) = {o}
  BY DEF T1Match
<1>3. /\ \A q : PaymentLines(q)' = PaymentLines(q) /\ CandidateOrders(q)' = CandidateOrders(q)
      /\ batch.orderPid[o] = p /\ PaymentLines(p) # {} /\ PaymentLines(p) \subseteq Lines
  BY <1>1, <1>2 DEF PaymentLines, CandidateOrders, Formed, Opening
<1>4. Opening'
  BY <1>1, <1>3 DEF Formed, Opening
<1>5. /\ members'[h] = placed
      /\ \A g \in Groups \ {h} : members'[g] = members[g]
  BY <1>1
<1>6. Bare'
  <2>. SUFFICES ASSUME NEW g \in Groups, BanksIn(g)' = {}, members'[g] # {} PROVE Original(g)'
    BY DEF Bare
  <2>1. CASE g = h
    BY <1>3, <1>5, <2>1 DEF Original
  <2>2. CASE g # h
    <3>1. Original(g)
      BY <1>5, <2>2 DEF Formed, Bare, BanksIn
    <3>. QED
      BY <1>3, <1>5, <2>2, <3>1 DEF Original
  <2>. QED
    BY <2>1, <2>2
<1>7. Accompanied'
  <2>. SUFFICES ASSUME NEW g \in Groups, NEW d \in members'[g] \cap Orders
                PROVE  /\ batch.orderPid[d] \in PayIds
                       /\ PaymentLines(batch.orderPid[d]) # {}
                       /\ PaymentLines(batch.orderPid[d]) \subseteq members'[g]
    BY <1>1, <1>3 DEF Accompanied
  <2>1. CASE g = h
    <3>1. d = o
      BY <1>2, <1>3, <1>5, <2>1, EntityAssumption
    <3>. QED
      BY <1>3, <1>5, <2>1, <3>1
  <2>2. CASE g # h
    BY <1>5, <2>2 DEF Formed, Accompanied
  <2>. QED
    BY <2>1, <2>2
<1>8. Backing'
  <2>1. \A g \in Groups : BanksIn(g)' = {}
    BY <1>1, T1MatchEvidenced DEF Evidenced, ByUtr
  <2>2. Reach' \subseteq Groups
    BY T1MatchTyped DEF Typed, TypeOK, Reach
  <2>. QED
    BY <2>1, <2>2 DEF Backing
<1>. QED
  BY <1>4, <1>6, <1>7, <1>8 DEF Formed

\* A match brings the lines of the bank beside it, and the groups it merges
\* bring theirs: one without a bank is merged for the sake of its own lines.
LEMMA AttachFormed ==
    ASSUME TypeOK, Homed, Formed, tier # "T1", tier' = tier,
           NEW b \in Banks, NEW ls \in SUBSET Lines, NEW new \in Groups, NEW label,
           NEW target \in Groups, Attached(b, ls, new, label, target),
           Unopened(new), UNCHANGED <<batch, home>>,
           \A g \in Reach : b \notin members[g]
    PROVE  Formed'
<1>. DEFINE refs == Referenced(ls)
<1>1. /\ refs \subseteq Groups /\ refs \subseteq Reach
      /\ \A h \in refs : \E m \in ls : home[m] = h /\ m \in members[h]
  BY DEF Referenced, Reach, TypeOK, Homed
<1>2. /\ members'[target] = Gathered(target, refs) \cup ls \cup {b}
      /\ \A g \in Groups \ {target} : members'[g] = members[g]
      /\ tie'[b] = ls /\ \A c \in Banks \ {b} : tie'[c] = tie[c]
      /\ b \in BanksIn(target)'
  BY DEF Attached, TypeOK, BanksIn
<1>3. \A q : PaymentLines(q)' = PaymentLines(q) /\ CandidateOrders(q)' = CandidateOrders(q)
  BY DEF PaymentLines, CandidateOrders
<1>4. ASSUME NEW o \in members'[target] \cap Orders
      PROVE  \E h \in refs : o \in members[h] /\ members[h] \subseteq members'[target]
  <2>1. o \notin ls /\ o # b
    BY EntityAssumption
  <2>2. PICK h \in {target} \cup refs : o \in members[h]
    BY <1>2, <2>1 DEF Gathered, Consumed
  <2>3. h \in refs
    BY <2>2 DEF Attached, Unopened
  <2>. QED
    BY <1>2, <2>2, <2>3 DEF Gathered, Consumed
<1>. HIDE DEF refs
<1>5. Opening'
  BY DEF Opening
<1>6. Bare'
  <2>. SUFFICES ASSUME NEW g \in Groups, BanksIn(g)' = {}, members'[g] # {} PROVE Original(g)'
    BY DEF Bare
  <2>1. members'[g] = members[g]
    BY <1>2
  <2>2. Original(g)
    BY <2>1 DEF Formed, Bare, BanksIn
  <2>. QED
    BY <1>3, <2>1, <2>2 DEF Original
<1>7. Accompanied'
  <2>. SUFFICES ASSUME NEW g \in Groups, NEW o \in members'[g] \cap Orders
                PROVE  /\ batch.orderPid[o] \in PayIds
                       /\ PaymentLines(batch.orderPid[o]) # {}
                       /\ PaymentLines(batch.orderPid[o]) \subseteq members'[g]
    BY <1>3 DEF Accompanied
  <2>1. \E h \in Groups : o \in members[h] /\ members[h] \subseteq members'[g]
    BY <1>1, <1>2, <1>4
  <2>. QED
    BY <2>1 DEF Formed, Accompanied
<1>8. Backing'
  <2>. SUFFICES ASSUME NEW g \in Reach', BanksIn(g)' # {},
                       NEW o \in members'[g] \cap Orders, NEW l \in Lines,
                       PaymentLines(batch.orderPid[o]) = {l}
                PROVE  \E c \in BanksIn(g)' : l \in tie'[c]
    BY <1>3 DEF Backing
  <2>1. ASSUME NEW h \in Reach, o \in members[h], members[h] \subseteq members'[g],
               BanksIn(h) # {}
        PROVE  \E c \in BanksIn(g)' : l \in tie'[c]
    <3>1. PICK c \in BanksIn(h) : l \in tie[c]
      BY <2>1 DEF Formed, Backing
    <3>2. c \in Banks \ {b} /\ c \in BanksIn(g)'
      BY <2>1, <3>1 DEF BanksIn
    <3>. QED
      BY <1>2, <3>1, <3>2
  <2>2. CASE g # target
    <3>1. g \in Reach /\ g \in Groups
      BY <2>2 DEF Reach, Attached, TypeOK
    <3>2. members'[g] = members[g]
      BY <1>2, <2>2, <3>1
    <3>. QED
      BY <2>1, <3>1, <3>2 DEF BanksIn
  <2>3. CASE g = target
    <3>1. PICK h \in refs : o \in members[h] /\ members[h] \subseteq members'[g]
      BY <1>4, <2>3
    <3>2. CASE l \in ls
      BY <1>2, <2>3, <3>2
    <3>3. CASE l \notin ls /\ BanksIn(h) = {}
      <4>1. PICK p \in PayIds : members[h] = CandidateOrders(p) \cup PaymentLines(p)
        BY <1>1, <3>1, <3>3 DEF Formed, Bare, Original
      <4>2. batch.orderPid[o] = p
        BY <3>1, <4>1, EntityAssumption DEF CandidateOrders, PaymentLines
      <4>3. PICK m \in ls : m \in members[h]
        BY <1>1, <3>1
      <4>4. m \in PaymentLines(p)
        BY <4>1, <4>3, EntityAssumption DEF CandidateOrders, PaymentLines
      <4>. QED
        BY <3>3, <4>2, <4>3, <4>4
    <3>4. CASE BanksIn(h) # {}
      BY <1>1, <2>1, <3>1, <3>4
    <3>. QED
      BY <3>2, <3>3, <3>4
  <2>. QED
    BY <2>2, <2>3
<1>. QED
  BY <1>5, <1>6, <1>7, <1>8 DEF Formed

LEMMA T2MatchFormed ==
    ASSUME Typed, Evidenced, Formed, NEW u \in Utrs, T2Match(u)
    PROVE  Formed'
<1>. DEFINE ls == LinesOfUtr(u)
            new == <<"T2", u>>
<1>1. PICK b \in Banks : Evidence(b, u) /\ Attach(b, ls, new, "T2")
  BY DEF T2Match
<1>2. ls \in SUBSET Lines /\ new \in Groups
  BY DEF LinesOfUtr, Groups
<1>3. PICK target \in Groups : Attached(b, ls, new, "T2", target)
  BY <1>1, <1>2, AttachTarget DEF Typed
<1>4. /\ tier = "T2" /\ u \in todo /\ tier' = tier /\ UNCHANGED <<batch, home>>
      /\ Unopened(new) /\ batch.bankUtr[b] = u /\ Reach \subseteq Groups
  BY <1>1 DEF T2Match, Takes, Typed, TypeOK, Fresh, Evidence, BanksOfUtr, Reach
<1>5. \A g \in Reach : b \notin members[g]
  BY <1>4 DEF Evidenced, ByUtr, BanksIn
<1>. HIDE DEF ls, new
<1>. QED
  BY <1>2, <1>3, <1>4, <1>5, AttachFormed DEF Typed

LEMMA T3MatchFormed ==
    ASSUME Typed, Evidenced, Formed, NEW b \in Banks, T3Match(b)
    PROVE  Formed'
<1>. DEFINE new == <<"T3", b>>
<1>1. PICK ls \in Solutions(b) : Attach(b, ls, new, "T3")
  BY DEF T3Match
<1>2. ls \in SUBSET Lines /\ new \in Groups
  BY DEF Solutions, Combos, Candidates, InWindow, Groups, Typed, TypeOK
<1>3. PICK target \in Groups : Attached(b, ls, new, "T3", target)
  BY <1>1, <1>2, AttachTarget DEF Typed
<1>4. /\ tier = "T3" /\ b \in todo /\ tier' = tier /\ UNCHANGED <<batch, home>>
      /\ Unopened(new)
  BY DEF T3Match, TakesBank, Typed, Fresh
<1>5. \A g \in Reach : b \notin members[g]
  BY <1>4 DEF Evidenced, Offered, BanksIn
<1>. HIDE DEF new
<1>. QED
  BY <1>2, <1>3, <1>4, <1>5, AttachFormed DEF Typed

LEMMA NextFormed == Typed /\ Evidenced /\ Formed /\ [Next]_vars => Formed'
<1>. SUFFICES ASSUME Typed, Evidenced, Formed, [Next]_vars PROVE Formed'
  OBVIOUS
<1>1. ASSUME NEW p \in PayIds, T1Match(p) PROVE Formed'
  BY <1>1, T1MatchFormed
<1>2. ASSUME UNCHANGED <<batch, tier, members, live, home, tie>>, todo' \subseteq todo PROVE Formed'
  BY <1>2, SameGroupsFormed DEF Reach
<1>3. CASE StartT2
  BY <1>3, StartT2Typed, SameGroupsFormed DEF StartT2, Reach
<1>4. ASSUME NEW u \in Utrs, T2Match(u) PROVE Formed'
  BY <1>4, T2MatchFormed
<1>5. CASE StartT3
  BY <1>5, StartT3Typed, SameGroupsFormed DEF StartT3, Reach
<1>6. ASSUME NEW b \in Banks, T3Match(b) PROVE Formed'
  BY <1>6, T3MatchFormed
<1>7. CASE Finish
  BY <1>7, SameGroupsFormed DEF Finish, Reach
<1>8. ASSUME NEW p \in PayIds, T1Refuse(p) PROVE Formed'
  BY <1>2, <1>8 DEF T1Refuse, Takes
<1>9. ASSUME NEW u \in Utrs, T2Refuse(u) \/ T2Decline(u) PROVE Formed'
  BY <1>2, <1>9 DEF T2Refuse, T2Decline, Takes
<1>10. ASSUME NEW b \in Banks, T3Refuse(b) \/ T3Skip(b) PROVE Formed'
  BY <1>2, <1>10 DEF T3Refuse, T3Skip, TakesBank
<1>11. CASE Returned \/ UNCHANGED vars
  BY <1>2, <1>11 DEF Returned, vars
<1>. QED
  BY <1>1, <1>3, <1>4, <1>5, <1>6, <1>7, <1>8, <1>9, <1>10, <1>11 DEF Next

(***************************************************************************)
(* What the tiers must have matched.                                       *)
(***************************************************************************)

\* T1 has made a group of every payment it has visited that one order claims.
Claimed ==
    \A p \in PayIds :
        /\ PaymentLines(p) # {} /\ (tier = "T1" => p \notin todo)
        /\ \E o \in Orders : CandidateOrders(p) = {o}
        => grade[<<"T1", p>>] # "none"

\* A bank that its UTR accounts for is matched with the lines of the UTR, and
\* where the parts of each payment bear one UTR, T3 never offers it again.
Accounted ==
    Uniform =>
        \A u \in Utrs, b \in Banks :
            /\ Evidence(b, u) /\ LinesOfUtr(u) # {}
            /\ tier \in {"T3", "done"} \/ (tier = "T2" /\ u \notin todo)
            => tie[b] = LinesOfUtr(u)

Paired == Claimed /\ Accounted

LEMMA PairedInit == Init => Paired
  BY DEF Init, Paired, Claimed, Accounted, PaymentLines

\* A label, once given, is replaced by another one.
LEMMA GradeStays ==
    ASSUME TypeOK, NEW b, NEW ls, NEW new, NEW label \in {"T2", "T3"}, NEW target,
           Attached(b, ls, new, label, target),
           NEW g \in Groups, grade[g] # "none"
    PROVE  grade'[g] # "none"
  BY DEF Attached, TypeOK

\* A tier that matches nothing in a step must have had nothing to match.
LEMMA SamePaired ==
    ASSUME Paired, UNCHANGED <<batch, grade, tie>>,
           tier' = "T1" =>
              /\ tier = "T1"
              /\ \A p \in todo \ todo' : ~ \E o \in Orders : CandidateOrders(p) = {o},
           tier = "T1" /\ tier' # "T1" => todo = {},
           \A u \in Utrs, b \in Banks :
               /\ Evidence(b, u) /\ LinesOfUtr(u) # {}
               /\ tier' \in {"T3", "done"} \/ (tier' = "T2" /\ u \notin todo')
               => tier \in {"T3", "done"} \/ (tier = "T2" /\ u \notin todo)
    PROVE  Paired'
<1>. USE DEF Paired
<1>1. /\ \A p : PaymentLines(p)' = PaymentLines(p) /\ CandidateOrders(p)' = CandidateOrders(p)
      /\ \A u : LinesOfUtr(u)' = LinesOfUtr(u)
      /\ \A b, u : Evidence(b, u)' = Evidence(b, u)
      /\ Uniform' = Uniform
  BY SameDivision DEF PaymentLines, CandidateOrders, LinesOfUtr, Evidence, BanksOfUtr, SumOfNets
<1>2. Claimed'
  BY <1>1 DEF Claimed
<1>3. Accounted'
  BY <1>1 DEF Accounted
<1>. QED
  BY <1>2, <1>3

LEMMA T1MatchPaired ==
    ASSUME Typed, Paired, NEW p \in PayIds, T1Match(p)
    PROVE  Paired'
<1>1. /\ tier = "T1" /\ tier' = "T1" /\ todo' = todo \ {p} /\ UNCHANGED <<batch, tie>>
      /\ grade' = [grade EXCEPT ![<<"T1", p>>] = "T1"]
      /\ grade \in [Groups -> {"none", "T1", "T2", "T3"}] /\ <<"T1", p>> \in Groups
  BY DEF T1Match, Takes, Typed, TypeOK, Groups
<1>2. Claimed'
  <2>1. \A q : PaymentLines(q)' = PaymentLines(q) /\ CandidateOrders(q)' = CandidateOrders(q)
    BY <1>1 DEF PaymentLines, CandidateOrders
  <2>2. \A q \in PayIds : /\ <<"T1", q>> \in Groups
                          /\ grade'[<<"T1", q>>] = IF q = p THEN "T1" ELSE grade[<<"T1", q>>]
    BY <1>1 DEF Groups
  <2>. QED
    BY <1>1, <2>1, <2>2 DEF Paired, Claimed
<1>3. Accounted'
  BY <1>1 DEF Accounted
<1>. QED
  BY <1>2, <1>3 DEF Paired

\* What holds of the labels after a match of T2 or T3.
LEMMA MatchClaimed ==
    ASSUME Typed, Claimed, NEW b, NEW ls, NEW new, NEW label \in {"T2", "T3"}, NEW target,
           Attached(b, ls, new, label, target), tier # "T1", tier' # "T1", batch' = batch
    PROVE  Claimed'
<1>1. \A p : PaymentLines(p)' = PaymentLines(p) /\ CandidateOrders(p)' = CandidateOrders(p)
  BY DEF PaymentLines, CandidateOrders
<1>. SUFFICES ASSUME NEW p \in PayIds, PaymentLines(p) # {},
                     \E o \in Orders : CandidateOrders(p) = {o}
              PROVE  grade'[<<"T1", p>>] # "none"
  BY <1>1 DEF Claimed
<1>2. <<"T1", p>> \in Groups /\ grade[<<"T1", p>>] # "none"
  BY DEF Claimed, Groups
<1>. QED
  BY <1>2, GradeStays DEF Typed

LEMMA T2MatchPaired ==
    ASSUME Typed, Paired, NEW u \in Utrs, T2Match(u)
    PROVE  Paired'
<1>. DEFINE ls == LinesOfUtr(u)
            new == <<"T2", u>>
<1>1. PICK b \in Banks : Evidence(b, u) /\ Attach(b, ls, new, "T2")
  BY DEF T2Match
<1>2. ls \in SUBSET Lines /\ new \in Groups
  BY DEF LinesOfUtr, Groups
<1>3. PICK target \in Groups : Attached(b, ls, new, "T2", target)
  BY <1>1, <1>2, AttachTarget DEF Typed
<1>4. tier = "T2" /\ tier' = "T2" /\ todo' = todo \ {u} /\ batch' = batch
  BY DEF T2Match, Takes
<1>5. Claimed'
  <2>. HIDE DEF ls, new
  <2>. QED
    BY <1>3, <1>4, MatchClaimed DEF Paired
<1>6. Accounted'
  <2>1. /\ \A v : LinesOfUtr(v)' = LinesOfUtr(v)
        /\ \A c, v : Evidence(c, v)' = Evidence(c, v)
        /\ Uniform' = Uniform
    BY <1>4 DEF LinesOfUtr, Evidence, BanksOfUtr, SumOfNets, Uniform, OnePayment
  <2>2. tie' = [tie EXCEPT ![b] = ls] /\ tie \in [Banks -> SUBSET Lines]
    BY <1>3 DEF Attached, Typed, TypeOK
  <2>. SUFFICES ASSUME Uniform, NEW v \in Utrs, NEW c \in Banks,
                       Evidence(c, v), LinesOfUtr(v) # {}, v \notin todo \ {u}
                PROVE  tie'[c] = LinesOfUtr(v)
    BY <1>4, <2>1 DEF Accounted
  <2>3. batch.bankUtr[b] = u /\ batch.bankUtr[c] = v /\ BanksOfUtr(u) = {b}
    BY <1>1 DEF Evidence, BanksOfUtr
  <2>4. CASE v = u
    <3>1. c = b
      BY <2>3, <2>4 DEF Evidence
    <3>. QED
      BY <2>2, <2>4, <3>1
  <2>5. CASE v # u
    <3>1. c # b /\ v \notin todo
      BY <2>3, <2>5
    <3>. QED
      BY <1>4, <2>2, <3>1 DEF Paired, Accounted
  <2>. QED
    BY <2>4, <2>5
<1>. QED
  BY <1>5, <1>6 DEF Paired

LEMMA T3MatchPaired ==
    ASSUME Typed, Evidenced, Whole, Paired, NEW b \in Banks, T3Match(b)
    PROVE  Paired'
<1>. DEFINE new == <<"T3", b>>
<1>1. PICK ls \in Solutions(b) : Attach(b, ls, new, "T3")
  BY DEF T3Match
<1>2. ls \in SUBSET Lines /\ new \in Groups
  BY DEF Solutions, Combos, Candidates, InWindow, Groups, Typed, TypeOK
<1>3. PICK target \in Groups : Attached(b, ls, new, "T3", target)
  BY <1>1, <1>2, AttachTarget DEF Typed
<1>4. tier = "T3" /\ tier' = "T3" /\ b \in todo /\ batch' = batch
  BY DEF T3Match, TakesBank
<1>. HIDE DEF new
<1>5. Claimed'
  BY <1>3, <1>4, MatchClaimed DEF Paired
<1>6. Accounted'
  <2>1. /\ \A v : LinesOfUtr(v)' = LinesOfUtr(v)
        /\ \A c, v : Evidence(c, v)' = Evidence(c, v)
        /\ Uniform' = Uniform
    BY <1>4 DEF LinesOfUtr, Evidence, BanksOfUtr, SumOfNets, Uniform, OnePayment
  <2>. SUFFICES ASSUME Uniform, NEW v \in Utrs, NEW c \in Banks,
                       Evidence(c, v), LinesOfUtr(v) # {}
                PROVE  tie'[c] = LinesOfUtr(v)
    BY <2>1 DEF Accounted
  <2>2. tie[c] = LinesOfUtr(v)
    BY <1>4 DEF Paired, Accounted
  <2>3. c \notin todo
    BY <1>4, <2>2 DEF Whole, Once
  <2>. QED
    BY <1>3, <1>4, <2>2, <2>3 DEF Attached, Typed, TypeOK
<1>. QED
  BY <1>5, <1>6 DEF Paired

LEMMA NextPaired == Typed /\ Evidenced /\ Whole /\ Paired /\ [Next]_vars => Paired'
<1>. SUFFICES ASSUME Typed, Evidenced, Whole, Paired, [Next]_vars PROVE Paired'
  OBVIOUS
<1>1. ASSUME NEW p \in PayIds, T1Match(p) PROVE Paired'
  BY <1>1, T1MatchPaired
<1>2. ASSUME NEW p \in PayIds, T1Refuse(p) PROVE Paired'
  BY <1>2, SamePaired DEF T1Refuse, Takes
<1>3. CASE StartT2
  BY <1>3, SamePaired DEF StartT2, Evidence
<1>4. ASSUME NEW u \in Utrs, T2Match(u) PROVE Paired'
  BY <1>4, T2MatchPaired
<1>5. ASSUME NEW u \in Utrs, T2Refuse(u) \/ T2Decline(u) PROVE Paired'
  <2>1. \A b \in Banks : ~ Evidence(b, u)
    <3>1. ASSUME NEW b \in Banks, Evidence(b, u) PROVE Cardinality(BanksOfUtr(u)) = 1
      BY <3>1, FS_Singleton DEF Evidence
    <3>. QED
      BY <1>5, <3>1 DEF T2Refuse, T2Decline
  <2>2. /\ tier = "T2" /\ tier' = "T2" /\ todo' = todo \ {u}
        /\ UNCHANGED <<batch, grade, tie>>
    BY <1>5 DEF T2Refuse, T2Decline, Takes
  <2>. QED
    BY <2>1, <2>2, SamePaired
<1>6. CASE StartT3
  BY <1>6, SamePaired DEF StartT3
<1>7. ASSUME NEW b \in Banks, T3Match(b) PROVE Paired'
  BY <1>7, T3MatchPaired
<1>8. ASSUME NEW b \in Banks, T3Refuse(b) \/ T3Skip(b) PROVE Paired'
  BY <1>8, SamePaired DEF T3Refuse, T3Skip, TakesBank
<1>9. CASE Finish
  BY <1>9, SamePaired DEF Finish
<1>10. CASE Returned \/ UNCHANGED vars
  BY <1>10, SamePaired DEF Returned, vars
<1>. QED
  BY <1>1, <1>2, <1>3, <1>4, <1>5, <1>6, <1>7, <1>8, <1>9, <1>10 DEF Next

(***************************************************************************)
(* The pipeline: its types, and the case it was given.                     *)
(***************************************************************************)

\* A run works on one case, and its cascade goes on until it has returned.
Loaded == \E c \in Cases : batch = c.batch /\ facts = c.facts
Staged == stage \in {"CLASSIFY_EXCEPTIONS", "PERSIST", "COMMIT", "METRICS", "AWAIT_REVIEW"}
             => tier = "done"

\* What a case says of the records that the batch has not.
LEMMA CaseFacts ==
    ASSUME Loaded
    PROVE  /\ facts \in FactsType
           /\ \A l \in Lines :
                 batch.linePid[l] = IF facts.kind[l] = "payment" THEN facts.payId[l] ELSE NoKey
           /\ \A l \in Lines \ facts.present : facts.payId[l] = NoKey /\ batch.lineUtr[l] = NoKey
  BY CaseAssumption DEF Loaded, Entities

\* Every step of the pipeline is a step of the cascade, or leaves it alone.
LEMMA PipelineStep == [ReconcileNext]_<<vars, pipeline>> => [Next]_vars
  BY DEF ReconcileNext, Match, VerifyFees, Classify, PersistGroups, PersistRefused, Commit,
         CommitRefused, Measure, Finished

LEMMA PipelineInit == ReconcileInit => Init
  BY DEF ReconcileInit

\* The cascade in a run implements the cascade by itself.
THEOREM RunsTheCascade == ReconcileSpec => Spec
  BY PipelineInit, PipelineStep, PTL DEF ReconcileSpec, Spec

LEMMA RoundedType ==
    ASSUME NEW n \in Int
    PROVE  RoundHalfUp(n, 10000) \in Int
<1>1. Magnitude(n) \in Int
  BY DEF Magnitude
<1>. DEFINE q == (2 * Magnitude(n) + 10000) \div (2 * 10000)
<1>2. q \in Int
  BY <1>1
<1>. HIDE DEF q
<1>3. RoundHalfUp(n, 10000) = IF n < 0 THEN -q ELSE q
  BY DEF RoundHalfUp, q
<1>. QED
  BY <1>2, <1>3

\* The rate card has one band at most for a line, and it bears whole paise.
LEMMA VerdictType ==
    ASSUME NEW start \in Nat, NEW instrument, NEW gross \in Int, NEW fee \in Int, NEW tax \in Int,
           NEW day \in Nat
    PROVE  Verdict(default_rate_card(start), instrument, gross, fee, tax, day)
              \in [delta : Int, within : BOOLEAN]
<1>. DEFINE bands == default_rate_card(start)
            candidates == {b \in bands : Applies(b, instrument, gross, day)}
            found == ApplicableBand(bands, instrument, gross, day)
            band == CHOOSE b \in found : TRUE
<1>1. CASE found = {}
  BY <1>1 DEF Verdict
<1>2. CASE found # {}
  <2>1. /\ \A b \in bands : /\ b.max = CardLimit /\ b.min = 0 /\ b.bps = 200 /\ b.flat = 0
                            /\ b.taxBps = 1800 /\ b.from = start
        /\ \A b, c \in candidates : b = c
    BY DEF default_rate_card, Applies
  <2>2. candidates # {}
    BY <1>2 DEF ApplicableBand
  <2>3. PICK b \in candidates : TRUE
    BY <2>2
  <2>4. \A c \in candidates : Preferred(b, c)
    BY <2>1, CardAssumption DEF Preferred
  <2>5. found \subseteq candidates
    BY <2>2, <2>3, <2>4 DEF ApplicableBand
  <2>6. band \in bands
    BY <1>2, <2>5
  <2>7. band.bps = 200 /\ band.flat = 0 /\ band.taxBps = 1800
    BY <2>1, <2>6
  <2>. HIDE DEF band
  <2>8. ExpectedFee(band, gross) \in Int
    <3>1. gross * band.bps + 10000 * band.flat = gross * 200
      BY <2>7
    <3>. QED
      BY <3>1, RoundedType DEF ExpectedFee
  <2>9. ExpectedTax(band, gross) \in Int
    <3>1. ExpectedFee(band, gross) * band.taxBps \in Int
      BY <2>7, <2>8
    <3>. QED
      BY <3>1, RoundedType DEF ExpectedTax
  <2>10. Verdict(bands, instrument, gross, fee, tax, day) =
            LET delta == (fee + tax) - (ExpectedFee(band, gross) + ExpectedTax(band, gross))
            IN [delta |-> delta, within |-> Within(delta)]
    BY <1>2 DEF Verdict, band
  <2>11. (fee + tax) - (ExpectedFee(band, gross) + ExpectedTax(band, gross)) \in Int
    BY <2>8, <2>9
  <2>. QED
    BY <2>10, <2>11 DEF Within
<1>. QED
  BY <1>1, <1>2

\* The entity of an item is one of the run's, and its category one of the twelve.
LEMMA ItemsType ==
    ASSUME TypeOK, facts \in FactsType
    PROVE  LineItems \cup BankItems \cup OrderItems \cup FeeItems \cup TieItems
              \subseteq Categories \X Entities
<1>1. LineItems \subseteq Categories \X Entities
  <2>1. \A l \in Present(Lines) \ Payments : StrayCategory(facts.kind[l]) \in Categories
    <3>. SUFFICES ASSUME NEW l \in Lines, facts.kind[l] # "payment"
                  PROVE  StrayCategory(facts.kind[l]) \in Categories
      BY DEF Payments, Present
    <3>1. facts.kind[l] \in {"refund", "chargeback", "adjustment", "reversal"}
      BY DEF FactsType, LineKinds
    <3>. QED
      BY <3>1 DEF StrayCategory, Categories
  <2>2. Present(Lines) \subseteq Entities /\ Payments \subseteq Entities
    BY DEF Payments, Present, Entities
  <2>3. /\ WithOrder \subseteq Entities /\ Unresolved \subseteq Entities
        /\ {k \in Payments : Late(k)} \subseteq Entities
    BY <2>2 DEF WithOrder, Unresolved
  <2>. QED
    BY <2>1, <2>2, <2>3 DEF LineItems, Categories
<1>2. BankItems \subseteq Categories \X Entities
  BY DEF BankItems, Categories, Present, Entities
<1>3. OrderItems \subseteq Categories \X Entities
  BY DEF OrderItems, Categories, Present, Entities
<1>4. FeeItems \subseteq Categories \X Entities
  BY DEF FeeItems, Categories, Payments, Present, Entities
<1>5. TieItems \subseteq Categories \X Entities
  <2>1. \A t \in Ties : OwnLines(t[1], t[2]) # {} /\ OwnLines(t[1], t[2]) \subseteq Lines
    BY DEF Ties, OwnLines, LinesIn
  <2>2. \A t \in Ties : Min(OwnLines(t[1], t[2])) \in Lines
    <3>. SUFFICES ASSUME NEW t \in Ties PROVE Min(OwnLines(t[1], t[2])) \in Lines
      OBVIOUS
    <3>1. IsFiniteSet(OwnLines(t[1], t[2])) /\ OwnLines(t[1], t[2]) \subseteq Nat
      BY <2>1, EntityAssumption, FS_Subset DEF Entities
    <3>. QED
      BY <2>1, <3>1, MinIsSmallest
  <2>. QED
    BY <2>1, <2>2 DEF TieItems, Categories, Entities
<1>. QED
  BY <1>1, <1>2, <1>3, <1>4, <1>5

Kept == ReconcileTypeOK /\ Loaded /\ Staged

LEMMA KeptInit == ReconcileInit => Kept
<1>. SUFFICES ASSUME ReconcileInit PROVE Kept
  OBVIOUS
<1>1. Loaded /\ Staged
  BY DEF ReconcileInit, Loaded, Staged
<1>2. TypeOK /\ facts \in FactsType
  BY <1>1, TypedInit, CaseFacts DEF ReconcileInit, Typed
<1>3. fees \in [Lines -> [delta : Int, within : BOOLEAN]]
  BY DEF ReconcileInit, NotVerified
<1>. QED
  BY <1>1, <1>2, <1>3 DEF ReconcileInit, Kept, ReconcileTypeOK, NoRows

LEMMA NextKept == Typed /\ Kept /\ [ReconcileNext]_<<vars, pipeline>> => Kept'
<1>. SUFFICES ASSUME Typed, Kept, [ReconcileNext]_<<vars, pipeline>> PROVE Kept'
  OBVIOUS
<1>. USE DEF Kept
<1>1. TypeOK'
  BY PipelineStep, NextTyped DEF Typed
<1>2. facts' = facts /\ batch' = batch /\ facts \in FactsType
  <2>1. facts' = facts
    BY DEF ReconcileNext, Match, VerifyFees, Classify, PersistGroups, PersistRefused, Commit,
           CommitRefused, Measure, Finished, pipeline
  <2>2. batch' = batch
    BY PipelineStep DEF Next, T1Match, T1Refuse, StartT2, T2Match, T2Refuse, T2Decline, StartT3,
           T3Match, T3Refuse, T3Skip, Finish, Returned, vars
  <2>. QED
    BY <2>1, <2>2 DEF ReconcileTypeOK
<1>3. Loaded'
  BY <1>2 DEF Loaded
<1>4. ASSUME UNCHANGED <<fees, items, rows, metrics>>,
             stage' \in {"CLASSIFY_EXCEPTIONS", "PERSIST", "COMMIT", "METRICS",
                         "AWAIT_REVIEW", "FAILED"} \/ stage' = stage
      PROVE  ReconcileTypeOK'
  BY <1>1, <1>2, <1>4 DEF ReconcileTypeOK
<1>5. CASE Match
  <2>1. stage = "MATCH" /\ UNCHANGED pipeline
    BY <1>5 DEF Match
  <2>. QED
    BY <1>3, <1>4, <2>1 DEF pipeline, Staged
<1>6. CASE VerifyFees
  <2>. DEFINE verdict(l) == Verdict(default_rate_card(facts.start), facts.instrument[l],
                                    batch.gross[l], facts.fee[l], facts.tax[l],
                                    batch.settledOn[l])
  <2>1. \A l \in Lines : verdict(l) \in [delta : Int, within : BOOLEAN]
    <3>. SUFFICES ASSUME NEW l \in Lines PROVE verdict(l) \in [delta : Int, within : BOOLEAN]
      OBVIOUS
    <3>1. /\ facts.start \in Nat /\ facts.fee[l] \in Int /\ facts.tax[l] \in Int
      BY <1>2 DEF FactsType
    <3>2. batch.gross[l] \in Int /\ batch.settledOn[l] \in Nat
      BY DEF ReconcileTypeOK, TypeOK, BatchType
    <3>. QED
      BY <3>1, <3>2, VerdictType
  <2>2. fees' = [l \in Lines |-> IF l \notin Payments THEN NotVerified ELSE verdict(l)]
    BY <1>6 DEF VerifyFees
  <2>3. fees' \in [Lines -> [delta : Int, within : BOOLEAN]]
    <3>. HIDE DEF verdict
    <3>. QED
      BY <2>1, <2>2 DEF NotVerified
  <2>4. /\ tier = "done" /\ stage' = "CLASSIFY_EXCEPTIONS"
        /\ UNCHANGED <<vars, items, rows, metrics>>
    BY <1>6 DEF VerifyFees
  <2>. QED
    BY <1>1, <1>2, <1>3, <2>3, <2>4 DEF ReconcileTypeOK, Staged, vars
<1>7. CASE Classify
  <2>1. /\ items' \subseteq Categories \X Entities
        /\ stage = "CLASSIFY_EXCEPTIONS" /\ stage' = "PERSIST"
        /\ UNCHANGED <<vars, fees, rows, metrics>>
    BY <1>7, ItemsType DEF Classify, ReconcileTypeOK
  <2>. QED
    BY <1>1, <1>2, <1>3, <2>1 DEF ReconcileTypeOK, Staged, vars
<1>8. CASE PersistGroups
  <2>. DEFINE D == UNION {{g} \X members[g] : g \in live}
  <2>1. /\ rows' = [r \in D |-> amount[r[1]][r[2]]]
        /\ stage = "PERSIST" /\ stage' = "COMMIT"
        /\ UNCHANGED <<vars, fees, items, metrics>>
    BY <1>8 DEF PersistGroups
  <2>2. D \subseteq Groups \X Entities
    BY DEF ReconcileTypeOK, TypeOK
  <2>3. \A r \in D : amount[r[1]][r[2]] \in Int
    <3>. SUFFICES ASSUME NEW r \in D PROVE amount[r[1]][r[2]] \in Int
      OBVIOUS
    <3>1. r[1] \in Groups /\ r[2] \in Entities
      BY <2>2
    <3>. QED
      BY <3>1 DEF ReconcileTypeOK, TypeOK
  <2>. HIDE DEF D
  <2>4. DOMAIN rows' \subseteq Groups \X Entities /\ rows' \in [DOMAIN rows' -> Int]
    BY <2>1, <2>2, <2>3
  <2>. QED
    BY <1>1, <1>2, <1>3, <2>1, <2>4 DEF ReconcileTypeOK, Staged, vars
<1>9. CASE PersistRefused
  <2>1. stage' = "FAILED" /\ UNCHANGED <<fees, items, rows, metrics>>
    BY <1>9 DEF PersistRefused
  <2>. QED
    BY <1>3, <1>4, <2>1 DEF Staged
<1>10. CASE Commit
  <2>1. /\ stage = "COMMIT" /\ stage' = "METRICS"
        /\ UNCHANGED <<vars, fees, items, rows, metrics>>
    BY <1>10 DEF Commit
  <2>. QED
    BY <1>3, <1>4, <2>1 DEF Staged, vars
<1>11. CASE CommitRefused
  <2>1. stage' = "FAILED" /\ rows' = NoRows /\ UNCHANGED <<fees, items, metrics>>
    BY <1>11 DEF CommitRefused
  <2>. QED
    BY <1>1, <1>2, <1>3, <2>1 DEF ReconcileTypeOK, Staged, NoRows
<1>12. CASE Measure
  <2>1. /\ DOMAIN metrics' = DOMAIN NoMetrics
        /\ stage = "METRICS" /\ stage' = "AWAIT_REVIEW"
        /\ UNCHANGED <<vars, fees, items, rows>>
    BY <1>12 DEF Measure, NoMetrics
  <2>. QED
    BY <1>1, <1>2, <1>3, <2>1 DEF ReconcileTypeOK, Staged, vars
<1>13. CASE Finished \/ UNCHANGED <<vars, pipeline>>
  <2>1. UNCHANGED <<vars, pipeline>>
    BY <1>13 DEF Finished
  <2>. QED
    BY <1>3, <1>4, <2>1 DEF pipeline, Staged, vars
<1>. QED
  BY <1>5, <1>6, <1>7, <1>8, <1>9, <1>10, <1>11, <1>12, <1>13 DEF ReconcileNext

THEOREM ReconcileTypeCorrect == ReconcileSpec => []ReconcileTypeOK
<1>1. ReconcileInit => Typed /\ Kept
  BY PipelineInit, TypedInit, KeptInit
<1>2. Typed /\ Kept /\ [ReconcileNext]_<<vars, pipeline>> => (Typed /\ Kept)'
  BY PipelineStep, NextTyped, NextKept
<1>3. Kept => ReconcileTypeOK
  BY DEF Kept
<1>. QED
  BY <1>1, <1>2, <1>3, PTL DEF ReconcileSpec

(***************************************************************************)
(* The database refuses no run unless a payment is divided.                 *)
(***************************************************************************)

\* The rows that await the commit balance.
Committable == stage = "COMMIT" /\ Undivided => \A r \in DOMAIN rows : Balanced(r[1])

Sound == WholeIsCommitted /\ Committable

\* What is inserted of a group that balances, balances.
LEMMA InsertedBalances ==
    ASSUME TypeOK, GroupsBalance, PersistGroups
    PROVE  \A r \in DOMAIN rows' : Balanced(r[1])'
<1>. DEFINE D == UNION {{g} \X members[g] : g \in live}
<1>1. rows' = [r \in D |-> amount[r[1]][r[2]]] /\ UNCHANGED <<members, amount, live>>
  BY DEF PersistGroups, vars
<1>2. DOMAIN rows' = D
  BY <1>1
<1>. SUFFICES ASSUME NEW g \in live PROVE Balanced(g)'
  BY <1>2
<1>3. ASSUME NEW S
      PROVE  /\ Inserted(g, S)' = members[g] \cap S
             /\ Allocation(g, S)' = SumFunction([e \in members[g] \cap S |-> amount[g][e]])
  <2>1. \A e : <<g, e>> \in D <=> e \in members[g]
    OBVIOUS
  <2>2. {e \in S : <<g, e>> \in DOMAIN rows'} = members[g] \cap S
    BY <1>2, <2>1
  <2>3. \A e \in members[g] \cap S : rows'[<<g, e>>] = amount[g][e]
    BY <1>1, <2>1
  <2>. HIDE DEF D
  <2>4. [e \in {e \in S : <<g, e>> \in DOMAIN rows'} |-> rows'[<<g, e>>]]
           = [e \in members[g] \cap S |-> amount[g][e]]
    BY <2>2, <2>3
  <2>. QED
    BY <2>2, <2>4 DEF Allocation, Inserted
<1>4. /\ Inserted(g, Banks)' = BanksIn(g)
      /\ Allocation(g, Banks)' = SumFunction([e \in BanksIn(g) |-> amount[g][e]])
      /\ Allocation(g, Lines)' = SumFunction([e \in LinesIn(g) |-> amount[g][e]])
  BY <1>3 DEF BanksIn, LinesIn
<1>. QED
  BY <1>4 DEF Balanced, GroupsBalance

LEMMA SoundInit == ReconcileInit => Sound
  BY DEF ReconcileInit, Sound, WholeIsCommitted, Committable

LEMMA NextSound ==
    Typed /\ Evidenced /\ Whole /\ Sound /\ [ReconcileNext]_<<vars, pipeline>> => Sound'
<1>. SUFFICES ASSUME Typed, Evidenced, Whole, Sound, [ReconcileNext]_<<vars, pipeline>>
              PROVE  Sound'
  OBVIOUS
<1>. USE DEF Sound
<1>2. Undivided' => Undivided
  BY PipelineStep, UndividedBefore
<1>3. ASSUME stage' # "FAILED", stage' # "COMMIT" PROVE Sound'
  BY <1>3 DEF WholeIsCommitted, Committable
<1>4. CASE Match
  BY <1>2, <1>3, <1>4 DEF Match, pipeline
<1>5. CASE VerifyFees \/ Classify \/ Commit \/ Measure
  BY <1>3, <1>5 DEF VerifyFees, Classify, Commit, Measure
<1>6. CASE PersistGroups
  <2>1. stage' = "COMMIT"
    BY <1>6 DEF PersistGroups
  <2>2. Undivided => \A r \in DOMAIN rows' : Balanced(r[1])'
    BY <1>6, WholeBalances, InsertedBalances DEF Typed
  <2>. QED
    BY <1>2, <2>1, <2>2 DEF WholeIsCommitted, Committable
<1>7. CASE PersistRefused
  BY <1>2, <1>7 DEF PersistRefused, Whole, WholeIsCommitted, Committable
<1>8. CASE CommitRefused
  BY <1>2, <1>8 DEF CommitRefused, WholeIsCommitted, Committable
<1>9. CASE Finished \/ UNCHANGED <<vars, pipeline>>
  BY <1>2, <1>9
     DEF Finished, pipeline, WholeIsCommitted, Committable, Balanced, Inserted, Allocation
<1>. QED
  BY <1>4, <1>5, <1>6, <1>7, <1>8, <1>9 DEF ReconcileNext

THEOREM CommitCorrect == ReconcileSpec => []WholeIsCommitted
<1>1. ReconcileInit => Typed /\ Evidenced /\ Whole /\ Sound
  BY PipelineInit, TypedInit, EvidencedInit, WholeInit, SoundInit
<1>2. Typed /\ Evidenced /\ Whole /\ Sound /\ [ReconcileNext]_<<vars, pipeline>>
         => (Typed /\ Evidenced /\ Whole /\ Sound)'
  BY PipelineStep, NextTyped, NextEvidenced, NextWhole, NextSound
<1>3. Sound => WholeIsCommitted
  BY DEF Sound
<1>. QED
  BY <1>1, <1>2, <1>3, PTL DEF ReconcileSpec

(***************************************************************************)
(* What raises no exception is reconciled.                                 *)
(***************************************************************************)

\* The classifier looks at one group of a line: the one that is listed last.
LEMMA GroupOfIsOne ==
    ASSUME TypeOK, NEW l, NEW g \in GroupOf(l), NEW h \in GroupOf(l)
    PROVE  g = h
<1>1. g \in live /\ h \in live /\ l \in members[g]
  BY DEF GroupOf, Holders
<1>2. /\ g \in Groups /\ h \in Groups
      /\ \A b \in Banks : batch.valueDate[b] \in Nat
  <2>1. live \subseteq Groups /\ batch \in BatchType
    BY DEF TypeOK
  <2>2. batch.valueDate \in [Banks -> Nat]
    BY <2>1 DEF BatchType
  <2>. QED
    BY <1>1, <2>1, <2>2
<1>3. ASSUME NEW x \in Groups
      PROVE  /\ x[1] \in {"T1", "T2", "T3"} /\ x[2] \in Nat
             /\ x[1] = "T3" => x[2] \in Banks
  <2>1. PayIds \subseteq Nat /\ Utrs \subseteq Nat /\ Banks \subseteq Nat
    BY KeyAssumption, EntityAssumption DEF Entities
  <2>2. CASE x \in {"T1"} \X PayIds
    BY <2>1, <2>2
  <2>3. CASE x \in {"T2"} \X Utrs
    BY <2>1, <2>3
  <2>4. CASE x \in {"T3"} \X Banks
    BY <2>1, <2>4
  <2>. QED
    BY <2>2, <2>3, <2>4 DEF Groups
<1>4. ASSUME g # h PROVE ListedFirst(h, g) /\ ListedFirst(g, h)
  BY <1>4 DEF GroupOf
<1>5. ~ (ListedFirst(h, g) /\ ListedFirst(g, h))
  <2>1. /\ g[2] \in Nat /\ h[2] \in Nat
        /\ g[1] = "T3" => g[2] \in Banks
        /\ h[1] = "T3" => h[2] \in Banks
    BY <1>2, <1>3
  <2>2. CASE g[1] = "T3" /\ h[1] = "T3"
    <3>1. batch.valueDate[g[2]] \in Nat /\ batch.valueDate[h[2]] \in Nat
      BY <1>2, <2>1, <2>2
    <3>. QED
      BY <2>1, <2>2, <3>1 DEF ListedFirst
  <2>3. CASE ~ (g[1] = "T3" /\ h[1] = "T3")
    BY <2>1, <2>3 DEF ListedFirst, ListedBefore
  <2>. QED
    BY <2>2, <2>3
<1>. QED
  BY <1>4, <1>5

\* A set with more than one element is told by its cardinality.
LEMMA OneAtMost ==
    ASSUME NEW S, IsFiniteSet(S), NEW x \in S, ~ (Cardinality(S) > 1)
    PROVE  S = {x}
<1>. SUFFICES ASSUME NEW y \in S PROVE y = x
  OBVIOUS
<1>1. Cardinality({x} \cup {y}) <= Cardinality(S) /\ Cardinality(S) \in Nat
  BY FS_Subset, FS_CardinalityType
<1>2. ASSUME y # x PROVE Cardinality({x} \cup {y}) = 2
  <2>1. IsFiniteSet({x}) /\ Cardinality({x}) = 1 /\ y \notin {x}
    BY <1>2, FS_Singleton
  <2>2. Cardinality({x} \cup {y}) = 1 + 1
    BY <2>1, FS_AddElement
  <2>. QED
    BY <2>2
<1>3. Cardinality({x} \cup {y}) \in Nat
  BY FS_Singleton, FS_AddElement, FS_CardinalityType
<1>. QED
  BY <1>1, <1>2, <1>3

\* Of a payment line that part 1 raises nothing about, the classifier has seen
\* its own order and a bank in one group.
LEMMA SilentLine ==
    ASSUME TypeOK, NEW l \in Present(Lines), \A i \in LineItems \cup FeeItems : i[2] # l
    PROVE  /\ facts.kind[l] = "payment" /\ ~ Late(l) /\ fees[l].within
           /\ facts.payId[l] # NoKey
           /\ \E g \in GroupOf(l) :
                 /\ BanksIn(g) # {}
                 /\ \E o \in members[g] \cap Orders : batch.orderPid[o] = facts.payId[l]
<1>1. l \in Payments
  <2>1. ASSUME l \notin Payments
        PROVE  <<StrayCategory(facts.kind[l]), l>> \in LineItems
    BY <2>1 DEF LineItems
  <2>. QED
    BY <2>1
<1>2. ~ Late(l)
  <2>1. ASSUME Late(l) PROVE <<"period_boundary_timing", l>> \in LineItems
    BY <1>1, <2>1 DEF LineItems
  <2>. QED
    BY <2>1
<1>3. l \notin Unresolved
  <2>1. ASSUME l \in Unresolved \ WithOrder
        PROVE  <<"ambiguous_multi_candidate", l>> \in LineItems
    BY <2>1 DEF LineItems
  <2>2. ASSUME l \in WithOrder
        PROVE  <<IF AmbiguousUtr(batch.lineUtr[l]) THEN "duplicate_utr" ELSE "missing_in_bank", l>>
                  \in LineItems
    BY <2>2 DEF LineItems
  <2>. QED
    BY <2>1, <2>2
<1>4. OwnOrderTie(l) /\ BankTie(l)
  BY <1>1, <1>2, <1>3 DEF Unresolved
<1>5. fees[l].within
  <2>1. ASSUME ~ fees[l].within PROVE <<"fee_variance", l>> \in FeeItems
    BY <1>1, <2>1 DEF FeeItems
  <2>. QED
    BY <2>1
<1>6. PICK g \in GroupOf(l) : BanksIn(g) # {}
  BY <1>4 DEF BankTie
<1>7. PICK h \in GroupOf(l) : \E o \in members[h] \cap Orders : batch.orderPid[o] = facts.payId[l]
  BY <1>4 DEF OwnOrderTie
<1>8. g = h
  BY GroupOfIsOne
<1>9. facts.kind[l] = "payment"
  BY <1>1 DEF Payments
<1>. QED
  BY <1>2, <1>4, <1>5, <1>6, <1>7, <1>8, <1>9 DEF OwnOrderTie

\* A line, the only one of its payment id in a group with its order, about which
\* part 5 raises nothing: it has the order's gross, and its payment no other line.
LEMMA SilentTie ==
    ASSUME TypeOK, Formed, Loaded, NEW g \in live, NEW l \in LinesIn(g),
           facts.kind[l] = "payment", facts.payId[l] # NoKey,
           NEW o \in members[g] \cap Orders, batch.orderPid[o] = facts.payId[l],
           \A i \in TieItems : i[2] # l
    PROVE  /\ Magnitude(batch.gross[o] - batch.gross[l]) <= Tolerance
           /\ PaymentLines(batch.orderPid[o]) = {l}
<1>. DEFINE own == OwnLines(o, g)
            t == <<o, g>>
<1>1. l \in own /\ own \subseteq Lines
  BY DEF OwnLines, LinesIn
<1>2. t \in Ties
  BY <1>1 DEF Ties
<1>3. IsFiniteSet(own)
  BY <1>1, EntityAssumption, FS_Subset DEF Entities
<1>4. own = {l}
  <2>1. ASSUME Cardinality(own) > 1
        PROVE  <<"partial_settlement", l>> \in TieItems
    <3>1. t \in {u \in Ties : Cardinality(OwnLines(u[1], u[2])) > 1}
      BY <1>2, <2>1
    <3>2. <<"partial_settlement", l>> \in {<<"partial_settlement", k>> : k \in OwnLines(t[1], t[2])}
      BY <1>1
    <3>. QED
      BY <3>1, <3>2 DEF TieItems
  <2>2. ~ (Cardinality(own) > 1)
    BY <2>1
  <2>. QED
    BY <1>1, <1>3, <2>2, OneAtMost
<1>5. batch.gross[o] \in Int /\ batch.gross[l] \in Int
  BY <1>1 DEF TypeOK, BatchType
<1>6. GrossGap(o, g) = Magnitude(batch.gross[o] - batch.gross[l])
  <2>1. [k \in own |-> batch.gross[k]] = [k \in {l} |-> batch.gross[l]]
    BY <1>4
  <2>2. SumFunction([k \in {l} |-> batch.gross[l]]) = batch.gross[l]
    BY <1>5, SumOfOne
  <2>. QED
    BY <2>1, <2>2 DEF GrossGap
<1>7. Min(own) = l
  <2>1. own \subseteq Nat
    BY <1>1, EntityAssumption DEF Entities
  <2>. QED
    BY <1>3, <1>4, <2>1, MinIsSmallest
<1>8. ~ (GrossGap(o, g) > Tolerance)
  <2>1. ASSUME GrossGap(o, g) > Tolerance
        PROVE  <<"amount_mismatch", l>> \in TieItems
    <3>1. t \in {u \in Ties : GrossGap(u[1], u[2]) > Tolerance}
      BY <1>2, <2>1
    <3>2. Min(OwnLines(t[1], t[2])) = l
      BY <1>7
    <3>. QED
      BY <3>1, <3>2 DEF TieItems
  <2>. QED
    BY <2>1
<1>9. Magnitude(batch.gross[o] - batch.gross[l]) <= Tolerance
  <2>1. batch.gross[o] - batch.gross[l] \in Int
    BY <1>5
  <2>2. Magnitude(batch.gross[o] - batch.gross[l]) \in Int
    BY <2>1 DEF Magnitude
  <2>. QED
    BY <1>6, <1>8, <2>2, ToleranceAssumption
<1>10. PaymentLines(batch.orderPid[o]) = {l}
  <2>1. g \in Groups
    BY DEF TypeOK
  <2>2. /\ PaymentLines(batch.orderPid[o]) # {}
        /\ PaymentLines(batch.orderPid[o]) \subseteq members[g]
    BY <2>1 DEF Formed, Accompanied
  <2>3. ASSUME NEW k \in PaymentLines(batch.orderPid[o]) PROVE k = l
    <3>1. k \in Lines /\ batch.linePid[k] = facts.payId[l]
      BY DEF PaymentLines
    <3>2. facts.payId[k] = facts.payId[l]
      BY <3>1, CaseFacts
    <3>3. k \in own
      BY <2>2, <3>1, <3>2 DEF OwnLines, LinesIn
    <3>. QED
      BY <1>4, <3>3
  <2>. QED
    BY <2>2, <2>3
<1>. QED
  BY <1>9, <1>10

LEMMA ClassifyReconciles ==
    ASSUME Typed, Evidenced, Formed, Loaded, facts \in FactsType, Classify
    PROVE  Reconciled'
<1>1. /\ items' = LineItems \cup BankItems \cup OrderItems \cup FeeItems \cup TieItems
      /\ UNCHANGED <<vars, facts, fees>>
  BY DEF Classify
<1>2. ASSUME NEW l \in Present(Lines), \A i \in items' : i[2] # l
      PROVE  /\ facts.kind[l] = "payment" /\ batch.settledOn[l] <= facts.end
             /\ fees[l].within
             /\ \E g \in live :
                 /\ l \in members[g]
                 /\ \E o \in members[g] \cap CandidateOrders(facts.payId[l]) :
                       Magnitude(batch.gross[o] - batch.gross[l]) <= Tolerance
                 /\ \E b \in BanksIn(g) : Covered(l, b)
  <2>1. /\ facts.kind[l] = "payment" /\ ~ Late(l) /\ fees[l].within
        /\ facts.payId[l] # NoKey
        /\ \E g \in GroupOf(l) :
              /\ BanksIn(g) # {}
              /\ \E o \in members[g] \cap Orders : batch.orderPid[o] = facts.payId[l]
    BY <1>1, <1>2, SilentLine DEF Typed
  <2>2. PICK g \in GroupOf(l) :
              /\ BanksIn(g) # {}
              /\ \E o \in members[g] \cap Orders : batch.orderPid[o] = facts.payId[l]
    BY <2>1
  <2>3. PICK o \in members[g] \cap Orders : batch.orderPid[o] = facts.payId[l]
    BY <2>2
  <2>4. g \in live /\ g \in Reach /\ l \in Lines /\ l \in members[g] /\ l \in LinesIn(g)
    BY DEF GroupOf, Holders, Reach, Present, LinesIn
  <2>5. /\ Magnitude(batch.gross[o] - batch.gross[l]) <= Tolerance
        /\ PaymentLines(batch.orderPid[o]) = {l}
    BY <1>1, <1>2, <2>1, <2>3, <2>4, SilentTie DEF Typed
  <2>6. PICK b \in BanksIn(g) : l \in tie[b]
    BY <2>2, <2>4, <2>5 DEF Formed, Backing
  <2>7. Covered(l, b)
    BY <2>4, <2>6 DEF Covered, Evidenced, Evident
  <2>8. o \in members[g] \cap CandidateOrders(facts.payId[l])
    BY <2>3 DEF CandidateOrders
  <2>9. batch.settledOn[l] <= facts.end
    <3>1. batch.settledOn[l] \in Nat /\ facts.end \in Nat
      BY <2>4 DEF Typed, TypeOK, BatchType, FactsType
    <3>. QED
      BY <2>1, <3>1 DEF Late
  <2>. QED
    BY <2>1, <2>4, <2>5, <2>6, <2>7, <2>8, <2>9
<1>3. ASSUME NEW b \in Present(Banks), \A i \in items' : i[2] # b
      PROVE  tie[b] # {} /\ \A l \in tie[b] : Covered(l, b)
  <2>1. b \in Grouped(Banks)
    <3>1. ASSUME b \notin Grouped(Banks)
          PROVE  <<IF AmbiguousUtr(batch.bankUtr[b]) THEN "duplicate_utr" ELSE "orphan_bank_credit", b>>
                    \in BankItems
      BY <3>1 DEF BankItems
    <3>. QED
      BY <1>1, <1>3, <3>1
  <2>2. PICK g \in live : b \in BanksIn(g)
    BY <2>1 DEF Grouped, Holders, BanksIn, Present
  <2>. QED
    BY <2>2 DEF Covered, Evidenced, Evident, Reach
<1>4. ASSUME NEW o \in Present(Orders), \A i \in items' : i[2] # o
      PROVE  \E g \in live :
                /\ o \in members[g]
                /\ PaymentLines(batch.orderPid[o]) # {}
                /\ PaymentLines(batch.orderPid[o]) \subseteq members[g]
  <2>1. o \in Grouped(Orders)
    <3>1. ASSUME o \notin Grouped(Orders) PROVE <<"missing_in_gateway", o>> \in OrderItems
      BY <3>1 DEF OrderItems
    <3>. QED
      BY <1>1, <1>4, <3>1
  <2>2. PICK g \in live : o \in members[g] /\ o \in Orders
    BY <2>1 DEF Grouped, Holders, Present
  <2>3. g \in Groups
    BY <2>2 DEF Typed, TypeOK
  <2>. QED
    BY <2>2, <2>3 DEF Formed, Accompanied
<1>5. /\ \A e : Raised(e)' = {} => \A i \in items' : i[2] # e
      /\ \A S : (S \cap facts.present)' = S \cap facts.present
      /\ \A p : PaymentLines(p)' = PaymentLines(p) /\ CandidateOrders(p)' = CandidateOrders(p)
      /\ \A g : BanksIn(g)' = BanksIn(g)
      /\ \A l, b : Covered(l, b)' = Covered(l, b)
  BY <1>1 DEF Raised, PaymentLines, CandidateOrders, BanksIn, Covered, SumOfNets, vars
<1>6. /\ Present(Lines)' = Present(Lines) /\ Present(Banks)' = Present(Banks)
      /\ Present(Orders)' = Present(Orders)
  BY <1>1 DEF Present
<1>. QED
  BY <1>1, <1>2, <1>3, <1>4, <1>5, <1>6 DEF Reconciled, vars

\* Once classified, what raises no exception is reconciled, and stays so.
Clear == stage \in {"PERSIST", "COMMIT", "METRICS", "AWAIT_REVIEW"} => Reconciled

\* The invariant of the pipeline without the part on the baseline.
Steady == Typed /\ Evidenced /\ Formed /\ Kept /\ Clear

LEMMA NextClear ==
    Typed /\ Evidenced /\ Formed /\ Kept /\ Clear /\ [ReconcileNext]_<<vars, pipeline>> => Clear'
<1>. SUFFICES ASSUME Typed, Evidenced, Formed, Kept, Clear, [ReconcileNext]_<<vars, pipeline>>
              PROVE  Clear'
  OBVIOUS
<1>1. ASSUME stage' \notin {"PERSIST", "COMMIT", "METRICS", "AWAIT_REVIEW"} PROVE Clear'
  BY <1>1 DEF Clear
<1>2. ASSUME stage \in {"PERSIST", "COMMIT", "METRICS", "AWAIT_REVIEW"},
             UNCHANGED <<vars, facts, fees, items>>
      PROVE  Clear'
  <2>1. Reconciled
    BY <1>2 DEF Clear
  <2>2. /\ \A e : Raised(e)' = Raised(e)
        /\ \A p : PaymentLines(p)' = PaymentLines(p) /\ CandidateOrders(p)' = CandidateOrders(p)
        /\ \A g : BanksIn(g)' = BanksIn(g)
        /\ \A l, b : Covered(l, b)' = Covered(l, b)
    BY <1>2 DEF Raised, PaymentLines, CandidateOrders, BanksIn, Covered, SumOfNets, vars
  <2>3. /\ Present(Lines)' = Present(Lines) /\ Present(Banks)' = Present(Banks)
        /\ Present(Orders)' = Present(Orders)
    BY <1>2 DEF Present
  <2>4. Reconciled'
    BY <1>2, <2>1, <2>2, <2>3 DEF Reconciled, vars
  <2>. QED
    BY <2>4 DEF Clear
<1>3. CASE Match \/ VerifyFees \/ PersistRefused \/ CommitRefused
  BY <1>1, <1>3 DEF Match, pipeline, VerifyFees, PersistRefused, CommitRefused
<1>4. CASE Classify
  BY <1>4, ClassifyReconciles DEF Clear, Kept, ReconcileTypeOK
<1>5. CASE PersistGroups \/ Commit \/ Measure
  BY <1>2, <1>5 DEF PersistGroups, Commit, Measure
<1>6. CASE Finished \/ UNCHANGED <<vars, pipeline>>
  <2>1. UNCHANGED <<vars, pipeline>>
    BY <1>6 DEF Finished
  <2>2. stage' = stage /\ UNCHANGED <<vars, facts, fees, items>>
    BY <2>1 DEF pipeline
  <2>. QED
    BY <1>1, <1>2, <2>2
<1>. QED
  BY <1>3, <1>4, <1>5, <1>6 DEF ReconcileNext

THEOREM CleanCorrect == ReconcileSpec => []CleanIsReconciled
<1>1. ReconcileInit => Steady
  BY PipelineInit, TypedInit, EvidencedInit, FormedInit, KeptInit
     DEF Steady, Clear, ReconcileInit
<1>2. Steady /\ [ReconcileNext]_<<vars, pipeline>> => Steady'
  BY PipelineStep, NextTyped, NextEvidenced, NextFormed, NextKept, NextClear DEF Steady
<1>3. Steady => CleanIsReconciled
  BY DEF Steady, Clear, CleanIsReconciled, Done
<1>. QED
  BY <1>1, <1>2, <1>3, PTL DEF ReconcileSpec

(***************************************************************************)
(* The baseline finds no line that the cascade leaves out.                 *)
(***************************************************************************)

\* What the metrics compare, once they are taken.
Compared ==
    stage = "AWAIT_REVIEW" /\ Undivided =>
        \A l \in metrics.baseline \ metrics.lines :
            batch.lineUtr[l] # NoKey /\ LinesOfUtr(batch.lineUtr[l]) # {l}

\* The line that the baseline pairs with an order is in T1's group of it.
LEMMA PairIsGrouped ==
    ASSUME Loaded, Whole, Paired, Undivided, tier = "done", NEW l \in BaselinePaired
    PROVE  l \in Grouped(Lines)
<1>1. PICK p \in PayIds, o \in Orders : CandidateOrders(p) = {o} /\ PaymentLines(p) = {l}
  BY DEF BaselinePaired
<1>2. grade[<<"T1", p>>] # "none"
  BY <1>1 DEF Paired, Claimed
<1>3. PICK g \in live : l \in members[g]
  BY <1>1, <1>2 DEF Whole, OrdersKept
<1>4. l \in Lines /\ batch.linePid[l] # NoKey
  BY <1>1, KeyAssumption DEF PaymentLines
<1>5. l \in facts.present
  BY <1>4, CaseFacts
<1>. QED
  BY <1>3, <1>4, <1>5 DEF Grouped, Present, Holders

\* The line that the baseline takes for the whole of a credit is the one T2
\* matched with it, or shares its UTR.
LEMMA CreditIsGrouped ==
    ASSUME Typed, Loaded, Whole, Paired, Undivided, tier = "done",
           NEW l \in Lines, NEW b \in Banks, BaselineCredits(l, b),
           LinesOfUtr(batch.lineUtr[l]) = {l}
    PROVE  l \in Grouped(Lines)
<1>. DEFINE u == batch.lineUtr[l]
<1>1. u \in Utrs /\ BanksOfUtr(u) = {b} /\ batch.credit[b] = batch.net[l]
  BY DEF BaselineCredits, Typed, TypeOK, BatchType
<1>2. SumOfNets({l}) = batch.net[l]
  <2>1. batch.net[l] \in Int
    BY DEF Typed, TypeOK, BatchType
  <2>2. [k \in {l} |-> batch.net[k]] = [k \in {l} |-> batch.net[l]]
    OBVIOUS
  <2>3. SumFunction([k \in {l} |-> batch.net[l]]) = batch.net[l]
    BY <2>1, SumOfOne
  <2>. QED
    BY <2>2, <2>3 DEF SumOfNets
<1>3. Evidence(b, u)
  BY <1>1, <1>2 DEF Evidence
<1>4. tie[b] = {l}
  BY <1>1, <1>3 DEF Undivided, Paired, Accounted
<1>5. PICK g \in live : l \in members[g]
  BY <1>4 DEF Whole, BanksKept
<1>6. l \in facts.present
  BY CaseFacts DEF BaselineCredits
<1>. QED
  BY <1>5, <1>6 DEF Grouped, Present, Holders

LEMMA NextCompared ==
    Typed /\ Whole /\ Paired /\ Kept /\ Compared /\ [ReconcileNext]_<<vars, pipeline>> => Compared'
<1>. SUFFICES ASSUME Typed, Whole, Paired, Kept, Compared, [ReconcileNext]_<<vars, pipeline>>
              PROVE  Compared'
  OBVIOUS
<1>1. ASSUME stage' # "AWAIT_REVIEW" PROVE Compared'
  BY <1>1 DEF Compared
<1>2. CASE Match
  <2>1. stage' = "MATCH"
    BY <1>2 DEF Match, pipeline
  <2>. QED
    BY <1>1, <2>1
<1>3. CASE \/ VerifyFees \/ Classify \/ PersistGroups \/ PersistRefused \/ Commit \/ CommitRefused
  BY <1>1, <1>3 DEF VerifyFees, Classify, PersistGroups, PersistRefused, Commit, CommitRefused
<1>4. CASE Measure
  <2>1. /\ metrics'.lines = Grouped(Lines) /\ metrics'.baseline = BaselineLines
        /\ batch' = batch /\ tier = "done"
    BY <1>4 DEF Measure, vars, Kept, Staged
  <2>2. \A u : LinesOfUtr(u)' = LinesOfUtr(u)
    BY <2>1 DEF LinesOfUtr
  <2>9. Undivided' => Undivided
    BY PipelineStep, UndividedBefore
  <2>. SUFFICES ASSUME Undivided, NEW l \in BaselineLines \ Grouped(Lines)
                PROVE  batch.lineUtr[l] # NoKey /\ LinesOfUtr(batch.lineUtr[l]) # {l}
    BY <2>1, <2>2, <2>9 DEF Compared
  <2>3. l \notin BaselinePaired
    BY <2>1, PairIsGrouped DEF Kept
  <2>4. PICK b \in Banks : l \in Lines /\ BaselineCredits(l, b)
    BY <2>3 DEF BaselineLines
  <2>. QED
    BY <2>1, <2>4, CreditIsGrouped DEF Kept, BaselineCredits
<1>5. CASE Finished \/ UNCHANGED <<vars, pipeline>>
  <2>1. UNCHANGED <<batch, stage, metrics>>
    BY <1>5 DEF Finished, vars, pipeline
  <2>2. \A u : LinesOfUtr(u)' = LinesOfUtr(u)
    BY <2>1 DEF LinesOfUtr
  <2>3. Undivided' => Undivided
    BY PipelineStep, UndividedBefore
  <2>. QED
    BY <2>1, <2>2, <2>3 DEF Compared
<1>. QED
  BY <1>2, <1>3, <1>4, <1>5 DEF ReconcileNext

THEOREM BaselineCorrect == ReconcileSpec => []BaselineIsNoBetter
<1>. DEFINE Inv == Typed /\ Evidenced /\ Whole /\ Paired /\ Kept /\ Compared
<1>1. ReconcileInit => Inv
  BY PipelineInit, TypedInit, EvidencedInit, WholeInit, PairedInit, KeptInit
     DEF Compared, ReconcileInit
<1>2. Inv /\ [ReconcileNext]_<<vars, pipeline>> => Inv'
  BY PipelineStep, NextTyped, NextEvidenced, NextWhole, NextPaired, NextKept, NextCompared
<1>3. Inv => BaselineIsNoBetter
  BY DEF Compared, BaselineIsNoBetter, Done
<1>. QED
  BY <1>1, <1>2, <1>3, PTL DEF ReconcileSpec

=============================================================================
