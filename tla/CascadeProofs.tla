--------------------------- MODULE CascadeProofs ---------------------------
(***************************************************************************)
(* Proofs about the matching cascade: for any records of a run, any keys,  *)
(* amounts and dates, and any caps on the search.                          *)
(***************************************************************************)
EXTENDS Cascade, FiniteSetTheorems, WellFoundedInduction, TLAPS

(***************************************************************************)
(* Finite orders have a first and a last element.                          *)
(***************************************************************************)

\* A finite set that is strictly ordered has a last element: one whose set of
\* successors is smallest has none.
LEMMA LastExists ==
    ASSUME NEW S, IsFiniteSet(S), S # {}, NEW R,
           \A x \in S : <<x, x>> \notin R,
           \A x, y, z \in S : <<x, y>> \in R /\ <<y, z>> \in R => <<x, z>> \in R,
           \A x, y \in S : x # y => <<x, y>> \in R \/ <<y, x>> \in R
    PROVE  \E x \in S : \A y \in S \ {x} : <<y, x>> \in R
<1>. DEFINE Above(x) == {y \in S : <<x, y>> \in R}
            T == {Above(x) : x \in S}
            L == StrictSubsetOrdering(S)
<1>1. IsWellFoundedOn(L, SUBSET S)
  BY FS_StrictSubsetOrderingWellFounded, FS_FiniteSubsetsOfFinite
<1>2. T \subseteq SUBSET S /\ T # {}
  <2>1. PICK x \in S : TRUE
    OBVIOUS
  <2>2. Above(x) \in T
    BY <2>1
  <2>3. \A n \in T : n \subseteq S
    <3>1. \A z \in S : Above(z) \subseteq S
      OBVIOUS
    <3>. HIDE DEF Above
    <3>. QED
      BY <3>1
  <2>. QED
    BY <2>2, <2>3
<1>3. PICK m \in T : \A n \in T : <<n, m>> \notin L
  <2>. HIDE DEF T, L
  <2>. QED
    BY <1>1, <1>2, WFMin
<1>4. PICK x \in S : m = Above(x)
  BY <1>3
<1>5. ASSUME NEW y \in Above(x)
      PROVE  FALSE
  <2>1. Above(y) \in T /\ Above(y) \subseteq Above(x) /\ y \notin Above(y)
    OBVIOUS
  <2>2. <<Above(y), Above(x)>> \in L
    BY <2>1 DEF StrictSubsetOrdering
  <2>. QED
    BY <1>3, <1>4, <2>1, <2>2
<1>. QED
  BY <1>5

\* It has a first element, the last one of the reversed order.
LEMMA FirstExists ==
    ASSUME NEW S, IsFiniteSet(S), S # {}, NEW R,
           \A x \in S : <<x, x>> \notin R,
           \A x, y, z \in S : <<x, y>> \in R /\ <<y, z>> \in R => <<x, z>> \in R,
           \A x, y \in S : x # y => <<x, y>> \in R \/ <<y, x>> \in R
    PROVE  \E x \in S : \A y \in S \ {x} : <<x, y>> \in R
<1>. DEFINE Q == {p \in S \X S : <<p[2], p[1]>> \in R}
<1>1. \A x, y \in S : <<x, y>> \in Q <=> <<y, x>> \in R
  OBVIOUS
<1>. HIDE DEF Q
<1>2. \A x \in S : <<x, x>> \notin Q
  BY <1>1
<1>3. \A x, y, z \in S : <<x, y>> \in Q /\ <<y, z>> \in Q => <<x, z>> \in Q
  BY <1>1
<1>4. \A x, y \in S : x # y => <<x, y>> \in Q \/ <<y, x>> \in Q
  BY <1>1
<1>5. \E x \in S : \A y \in S \ {x} : <<y, x>> \in Q
  BY <1>2, <1>3, <1>4, LastExists
<1>. QED
  BY <1>1, <1>5

\* A finite set of numbers has a least one: one with nothing below it.
LEMMA LeastExists ==
    ASSUME NEW S, IsFiniteSet(S), S # {}
    PROVE  S \subseteq Nat => \E x \in S : \A y \in S : x <= y
<1>. SUFFICES ASSUME S \subseteq Nat PROVE \E x \in S : \A y \in S : x <= y
  OBVIOUS
<1>. DEFINE Beyond(x) == {y \in S : y < x}
            T == {Beyond(x) : x \in S}
            L == StrictSubsetOrdering(S)
<1>1. IsWellFoundedOn(L, SUBSET S)
  BY FS_StrictSubsetOrderingWellFounded, FS_FiniteSubsetsOfFinite
<1>2. T \subseteq SUBSET S /\ T # {}
  <2>1. PICK x \in S : TRUE
    OBVIOUS
  <2>2. Beyond(x) \in T
    BY <2>1
  <2>3. \A n \in T : n \subseteq S
    <3>1. \A z \in S : Beyond(z) \subseteq S
      OBVIOUS
    <3>. HIDE DEF Beyond
    <3>. QED
      BY <3>1
  <2>. QED
    BY <2>2, <2>3
<1>3. PICK m \in T : \A n \in T : <<n, m>> \notin L
  <2>. HIDE DEF T, L
  <2>. QED
    BY <1>1, <1>2, WFMin
<1>4. PICK x \in S : m = Beyond(x)
  BY <1>3
<1>5. ASSUME NEW y \in Beyond(x) PROVE FALSE
  <2>1. y \in S /\ y \in Nat /\ x \in Nat /\ y < x
    OBVIOUS
  <2>2. \A z \in S : z \in Nat
    OBVIOUS
  <2>3. Beyond(y) \subseteq Beyond(x) /\ y \notin Beyond(y)
    <3>1. ASSUME NEW z \in S, z < y PROVE z < x
      BY <2>1, <2>2, <3>1
    <3>2. ~ (y < y)
      BY <2>1
    <3>. QED
      BY <3>1, <3>2
  <2>4. <<Beyond(y), Beyond(x)>> \in L
    BY <2>1, <2>3 DEF StrictSubsetOrdering
  <2>. QED
    BY <1>3, <1>4, <2>1, <2>4
<1>6. ASSUME NEW y \in S PROVE x <= y
  <2>1. x \in Nat /\ y \in Nat /\ ~ (y < x)
    BY <1>5
  <2>. QED
    BY <2>1
<1>. QED
  BY <1>6

\* Min of FiniteSetsExt is the smallest element.
LEMMA MinIsSmallest ==
    ASSUME NEW S, IsFiniteSet(S), S # {}
    PROVE  S \subseteq Nat => Min(S) \in S /\ \A x \in S : Min(S) <= x
  BY LeastExists DEF Min

(***************************************************************************)
(* The invariant of the groups and their evidence.                         *)
(***************************************************************************)

\* The groups that an iteration may still fill: those of the result and those
\* that a line refers to.
Reach == live \cup ({home[l] : l \in Lines} \ {NoGroup})

\* A line is a member of the group it refers to.
Homed == \A l \in Lines : home[l] # NoGroup => l \in members[home[l]]

\* A group has a member, and bears a label, once it is in the result.
Named == \A g \in live : members[g] # {}

\* A group that a tier has still to open is empty.
Unopened(g) == members[g] = {} /\ g \notin live
Fresh ==
    /\ tier = "T1" =>
          /\ home = [l \in Lines |-> NoGroup]
          /\ \A u \in Utrs : Unopened(<<"T2", u>>)
    /\ tier = "T2" => \A u \in todo \cap Utrs : Unopened(<<"T2", u>>)
    /\ tier \in {"T1", "T2"} => \A b \in Banks : Unopened(<<"T3", b>>)
    /\ tier = "T3" => \A b \in todo \cap Banks : Unopened(<<"T3", b>>)

\* What the UTRs say of a bank that T2 has matched.
MatchedByUtr(b) ==
    /\ batch.bankUtr[b] \in Utrs
    /\ Evidence(b, batch.bankUtr[b])
    /\ LinesOfUtr(batch.bankUtr[b]) # {}
    /\ tie[b] = LinesOfUtr(batch.bankUtr[b])

\* Until T3 starts the groups hold only banks that T2 has matched.
ByUtr ==
    /\ tier = "T1" => \A g \in Groups : BanksIn(g) = {}
    /\ tier = "T2" =>
          /\ \A u \in todo \cap Utrs : LinesOfUtr(u) # {}
          /\ \A g \in Groups : \A b \in BanksIn(g) :
                MatchedByUtr(b) /\ batch.bankUtr[b] \notin todo

\* T3 offers neither a bank that is in a group nor a line that backs one.
Offered ==
    tier = "T3" => \A g \in Reach : \A b \in BanksIn(g) : b \notin todo /\ tie[b] \cap pool = {}

\* The lines of a bank are beside it, in every group that may be filled again.
Evident ==
    \A g \in Reach : \A b \in BanksIn(g) :
        /\ tie[b] # {} /\ tie[b] \subseteq members[g]
        /\ SumOfNets(tie[b]) = batch.credit[b]

\* The banks there share no line.
Backed ==
    \A g, h \in Reach : \A b \in BanksIn(g), c \in BanksIn(h) : b # c => tie[b] \cap tie[c] = {}

\* A bank that its UTR does not account for is in groups marked as inferred.
Marked ==
    \A g \in Groups : \A b \in BanksIn(g) :
        (~ \E u \in Utrs : LinesOfUtr(u) # {} /\ Evidence(b, u)) => grade[g] = "T3"

Typed == TypeOK /\ Homed /\ Named /\ Fresh
Evidenced == ByUtr /\ Offered /\ Evident /\ Backed /\ Marked

(***************************************************************************)
(* Groups and their order.                                                 *)
(***************************************************************************)

LEMMA GroupsFinite == IsFiniteSet(Groups) /\ NoGroup \notin Groups
<1>1. IsFiniteSet(Banks)
  BY EntityAssumption, FS_Subset DEF Entities
<1>2. /\ IsFiniteSet({"T1"} \X PayIds)
      /\ IsFiniteSet({"T2"} \X Utrs)
      /\ IsFiniteSet({"T3"} \X Banks)
  BY <1>1, KeyAssumption, FS_Product, FS_Singleton
<1>3. NoGroup \notin Groups
  BY DEF NoGroup, Groups
<1>. QED
  BY <1>2, <1>3, FS_Union DEF Groups

\* The groups of some lines, in the order the merge takes them: no two tie.
LEMMA ReferencedOrder ==
    ASSUME TypeOK, Homed, NEW ls \in SUBSET Lines
    PROVE  /\ Referenced(ls) \in SUBSET Groups /\ IsFiniteSet(Referenced(ls))
           /\ \A g \in Referenced(ls) : ~ SortsBefore(g, g, ls)
           /\ \A g, h, k \in Referenced(ls) :
                 SortsBefore(g, h, ls) /\ SortsBefore(h, k, ls) => SortsBefore(g, k, ls)
           /\ \A g, h \in Referenced(ls) :
                 g # h => SortsBefore(g, h, ls) \/ SortsBefore(h, g, ls)
<1>1. Referenced(ls) \in SUBSET Groups
  BY DEF TypeOK, Referenced
<1>2. IsFiniteSet(Referenced(ls))
  BY <1>1, GroupsFinite, FS_Subset
<1>3. \A g \in Referenced(ls) : Min(members[g]) \in Nat
  <2>. SUFFICES ASSUME NEW g \in Referenced(ls)
                PROVE  Min(members[g]) \in Nat
    OBVIOUS
  <2>1. members[g] \in SUBSET Entities /\ members[g] # {}
    BY <1>1 DEF TypeOK, Homed, Referenced
  <2>2. members[g] \subseteq Nat /\ IsFiniteSet(members[g])
    BY <2>1, EntityAssumption, FS_Subset
  <2>3. Min(members[g]) \in members[g]
    BY <2>1, <2>2, MinIsSmallest
  <2>. QED
    BY <2>2, <2>3
<1>4. \A g \in Referenced(ls) : SeenAt(g, ls) \in Nat /\ home[SeenAt(g, ls)] = g
  <2>. SUFFICES ASSUME NEW g \in Referenced(ls)
                PROVE  SeenAt(g, ls) \in Nat /\ home[SeenAt(g, ls)] = g
    OBVIOUS
  <2>. DEFINE seen == {l \in ls : home[l] = g}
  <2>1. seen \in SUBSET Entities /\ seen # {}
    BY DEF Referenced, Entities
  <2>2. seen \subseteq Nat /\ IsFiniteSet(seen)
    BY <2>1, EntityAssumption, FS_Subset
  <2>3. Min(seen) \in seen
    BY <2>1, <2>2, MinIsSmallest
  <2>. QED
    BY <2>2, <2>3 DEF SeenAt
<1>5. \A g \in Referenced(ls) : ~ SortsBefore(g, g, ls)
  BY <1>3, <1>4 DEF SortsBefore
<1>6. ASSUME NEW g \in Referenced(ls), NEW h \in Referenced(ls), NEW k \in Referenced(ls),
             SortsBefore(g, h, ls), SortsBefore(h, k, ls)
      PROVE  SortsBefore(g, k, ls)
  BY <1>3, <1>4, <1>6 DEF SortsBefore
<1>7. ASSUME NEW g \in Referenced(ls), NEW h \in Referenced(ls), g # h
      PROVE  SortsBefore(g, h, ls) \/ SortsBefore(h, g, ls)
  <2>1. SeenAt(g, ls) # SeenAt(h, ls)
    BY <1>4, <1>7
  <2>. QED
    BY <1>3, <1>4, <2>1 DEF SortsBefore
<1>. QED
  BY <1>1, <1>2, <1>5, <1>6, <1>7

\* What a merge has allocated to an entity is an amount.
LEMMA InheritedType ==
    ASSUME TypeOK, Homed, NEW ls \in SUBSET Lines, NEW e \in Entities
    PROVE  Inherited(e, Referenced(ls), ls) \in Int
<1>. DEFINE refs == Referenced(ls)
            H == {g \in refs : e \in members[g]}
            R == {p \in H \X H : SortsBefore(p[1], p[2], ls)}
<1>1. CASE H = {}
  BY <1>1 DEF Inherited
<1>2. CASE H # {}
  <2>1. \A g, h \in H : <<g, h>> \in R <=> SortsBefore(g, h, ls)
    OBVIOUS
  <2>2. H \subseteq refs /\ IsFiniteSet(H)
    BY ReferencedOrder, FS_Subset
  <2>. HIDE DEF H, R
  <2>3. /\ \A g \in H : <<g, g>> \notin R
        /\ \A g, h \in H : g # h => <<g, h>> \in R \/ <<h, g>> \in R
    BY <2>1, <2>2, ReferencedOrder
  <2>4. \A g, h, k \in H : <<g, h>> \in R /\ <<h, k>> \in R => <<g, k>> \in R
    BY <2>1, <2>2, ReferencedOrder
  <2>5. PICK g \in H : \A h \in H \ {g} : <<h, g>> \in R
    BY <1>2, <2>2, <2>3, <2>4, LastExists
  <2>6. /\ g \in refs /\ e \in members[g]
        /\ \A h \in refs \ {g} : e \in members[h] => SortsBefore(h, g, ls)
    BY <2>1, <2>5 DEF H
  <2>7. LastHolder(e, refs, ls) \in refs
    BY <2>6 DEF LastHolder
  <2>8. LastHolder(e, refs, ls) \in Groups
    BY <2>7, ReferencedOrder
  <2>. QED
    BY <2>6, <2>8 DEF Inherited, TypeOK
<1>. QED
  BY <1>1, <1>2

(***************************************************************************)
(* What a match does to the groups.                                        *)
(***************************************************************************)

\* The groups after a match: one target has gathered the others, and the rest
\* is as it was.
Attached(b, ls, new, label, target) ==
    LET refs == Referenced(ls)
    IN /\ target \in Groups
       /\ IF refs = {} THEN target = new ELSE target \in refs
       /\ members' = [members EXCEPT ![target] = Gathered(target, refs) \cup ls \cup {b}]
       /\ amount' = [amount EXCEPT ![target] = Allocated(b, refs, ls)]
       /\ grade' = [grade EXCEPT ![target] = label]
       /\ live' = (live \ (refs \ {target})) \cup (IF refs = {} THEN {target} ELSE {})
       /\ tie' = [tie EXCEPT ![b] = ls]

LEMMA AttachTarget ==
    ASSUME TypeOK, NEW b \in Banks, NEW ls \in SUBSET Lines, NEW new \in Groups,
           NEW label, Attach(b, ls, new, label)
    PROVE  \E target \in Groups : Attached(b, ls, new, label, target)
<1>1. PICK target \in IF Referenced(ls) = {} THEN {new} ELSE Referenced(ls) :
          /\ members' = [members EXCEPT ![target] = Gathered(target, Referenced(ls)) \cup ls \cup {b}]
          /\ amount' = [amount EXCEPT ![target] = Allocated(b, Referenced(ls), ls)]
          /\ grade' = [grade EXCEPT ![target] = label]
          /\ live' = (live \ Consumed(target, Referenced(ls)))
                        \cup (IF Referenced(ls) = {} THEN {new} ELSE {})
          /\ tie' = [tie EXCEPT ![b] = ls]
  BY DEF Attach, Upgraded
<1>2. Referenced(ls) \subseteq Groups
  BY DEF Referenced, TypeOK
<1>3. target \in Groups /\ IF Referenced(ls) = {} THEN target = new ELSE target \in Referenced(ls)
  BY <1>2
<1>. QED
  BY <1>1, <1>3 DEF Attached, Consumed

\* A match keeps types, and no line leaves the group it refers to.
LEMMA AttachTyped ==
    ASSUME TypeOK, Homed, Named,
           NEW b \in Banks, NEW ls \in SUBSET Lines, NEW new \in Groups,
           NEW label \in {"T2", "T3"}, NEW target \in Groups,
           Attached(b, ls, new, label, target)
    PROVE  /\ members' \in [Groups -> SUBSET Entities]
           /\ amount' \in [Groups -> [Entities -> Int]]
           /\ live' \in SUBSET Groups
           /\ grade' \in [Groups -> {"none", "T1", "T2", "T3"}]
           /\ tie' \in [Banks -> SUBSET Lines]
           /\ \A g \in Groups : members[g] \subseteq members'[g]
           /\ \A g \in live' : members'[g] # {}
<1>. USE DEF TypeOK
<1>1. Referenced(ls) \subseteq Groups
  BY DEF Referenced
<1>2. Gathered(target, Referenced(ls)) \cup ls \cup {b} \in SUBSET Entities
  BY <1>1 DEF Gathered, Consumed, Entities
<1>3. members[target] \subseteq Gathered(target, Referenced(ls))
  BY DEF Gathered
<1>4. Allocated(b, Referenced(ls), ls) \in [Entities -> Int]
  <2>. SUFFICES ASSUME NEW e \in Entities
                PROVE  Allocated(b, Referenced(ls), ls)[e] \in Int
    BY DEF Allocated
  <2>1. Inherited(e, Referenced(ls), ls) \in Int
    BY InheritedType
  <2>2. batch.credit \in [Banks -> Int] /\ batch.net \in [Lines -> Int]
    BY DEF BatchType
  <2>. QED
    BY <2>1, <2>2 DEF Allocated
<1>5. /\ members' \in [Groups -> SUBSET Entities]
      /\ \A g \in Groups : members[g] \subseteq members'[g]
  BY <1>2, <1>3 DEF Attached
<1>6. amount' \in [Groups -> [Entities -> Int]]
  BY <1>4 DEF Attached
<1>7. live' \in SUBSET Groups /\ grade' \in [Groups -> {"none", "T1", "T2", "T3"}]
  BY <1>1 DEF Attached
<1>8. tie' \in [Banks -> SUBSET Lines]
  BY DEF Attached
<1>9. \A g \in live' : members'[g] # {}
  <2>1. b \in members'[target]
    BY DEF Attached
  <2>2. \A g \in live' : g = target \/ g \in live
    BY DEF Attached
  <2>. QED
    BY <1>5, <2>1, <2>2 DEF Named
<1>. QED
  BY <1>5, <1>6, <1>7, <1>8, <1>9

\* A group that is not open stays so, unless the match opens it.
LEMMA UnopenedStays ==
    ASSUME TypeOK, Homed, NEW b, NEW ls \in SUBSET Lines, NEW new, NEW label,
           NEW target, Attached(b, ls, new, label, target),
           NEW g \in Groups, g # new, Unopened(g)
    PROVE  g # target /\ Unopened(g)'
<1>1. g # target
  BY DEF Attached, Referenced, Homed, Unopened
<1>. QED
  BY <1>1 DEF Attached, Unopened, TypeOK

\* A line refers to one of the groups that hold it, if there are any.
LEMMA SnapshotType ==
    ASSUME TypeOK, tier \in {"T1", "T2"}, Fresh
    PROVE  \A l \in Lines : IF Holders(l) = {} THEN Snapshot[l] = NoGroup
                           ELSE Snapshot[l] \in Holders(l)
<1>. SUFFICES ASSUME NEW l \in Lines, Holders(l) # {}
              PROVE  Snapshot[l] \in Holders(l)
  BY DEF Snapshot
<1>. DEFINE H == Holders(l)
            R == {p \in H \X H : ListedBefore(p[1], p[2])}
<1>1. \A g, h \in H : <<g, h>> \in R <=> ListedBefore(g, h)
  OBVIOUS
<1>2. H \in SUBSET live /\ H \in SUBSET Groups /\ IsFiniteSet(H)
  BY GroupsFinite, FS_Subset DEF Holders, TypeOK
<1>3. ASSUME NEW g \in H
      PROVE  g[1] \in {"T1", "T2"} /\ g[2] \in Nat /\ g = <<g[1], g[2]>>
  <2>1. g \in Groups /\ g \notin {"T3"} \X Banks
    BY <1>2 DEF Fresh, Unopened
  <2>2. g \in {"T1"} \X PayIds \/ g \in {"T2"} \X Utrs
    BY <2>1 DEF Groups
  <2>3. CASE g \in {"T1"} \X PayIds
    <3>1. PICK p \in PayIds : g = <<"T1", p>>
      BY <2>3
    <3>. QED
      BY <3>1, KeyAssumption
  <2>4. CASE g \in {"T2"} \X Utrs
    <3>1. PICK u \in Utrs : g = <<"T2", u>>
      BY <2>4
    <3>. QED
      BY <3>1, KeyAssumption
  <2>. QED
    BY <2>2, <2>3, <2>4
<1>. HIDE DEF H
<1>4. \A g \in H : ~ ListedBefore(g, g)
  BY <1>3 DEF ListedBefore
<1>5. ASSUME NEW g \in H, NEW h \in H, NEW k \in H, ListedBefore(g, h), ListedBefore(h, k)
      PROVE  ListedBefore(g, k)
  BY <1>3, <1>5 DEF ListedBefore
<1>6. ASSUME NEW g \in H, NEW h \in H, g # h
      PROVE  ListedBefore(g, h) \/ ListedBefore(h, g)
  <2>1. g[1] # h[1] \/ g[2] # h[2]
    BY <1>3, <1>6
  <2>. QED
    BY <1>3, <2>1 DEF ListedBefore
<1>. HIDE DEF R
<1>7. /\ \A g \in H : <<g, g>> \notin R
      /\ \A g, h \in H : g # h => <<g, h>> \in R \/ <<h, g>> \in R
  BY <1>1, <1>4, <1>6
<1>8. \A g, h, k \in H : <<g, h>> \in R /\ <<h, k>> \in R => <<g, k>> \in R
  BY <1>1, <1>5
<1>9. PICK g \in H : \A h \in H \ {g} : <<h, g>> \in R
  BY <1>2, <1>7, <1>8, LastExists DEF H
<1>10. \A h \in Holders(l) \ {g} : ListedBefore(h, g)
  BY <1>1, <1>9 DEF H
<1>. QED
  BY <1>9, <1>10 DEF Snapshot, H

\* A hand-over: every line refers to a listed group that holds it.
LEMMA SnapshotHomed ==
    ASSUME TypeOK, tier \in {"T1", "T2"}, Fresh, home' = Snapshot,
           members' = members, live' = live
    PROVE  home' \in [Lines -> Groups \cup {NoGroup}] /\ Homed' /\ Reach' = live
<1>1. ASSUME NEW l \in Lines
      PROVE  home'[l] = NoGroup \/ (home'[l] \in live /\ l \in members[home'[l]])
  <2>1. CASE Holders(l) = {}
    BY <2>1, SnapshotType
  <2>2. CASE Holders(l) # {}
    <3>1. home'[l] \in Holders(l)
      BY <2>2, SnapshotType
    <3>. QED
      BY <3>1 DEF Holders
  <2>. QED
    BY <2>1, <2>2
<1>2. home' \in [Lines -> Groups \cup {NoGroup}]
  BY <1>1 DEF Snapshot, TypeOK
<1>. QED
  BY <1>1, <1>2 DEF Homed, Reach

(***************************************************************************)
(* Types.                                                                  *)
(***************************************************************************)

LEMMA TypedInit == Init => Typed
<1>. SUFFICES ASSUME Init PROVE Typed
  OBVIOUS
<1>1. TypeOK
  BY BatchAssumption DEF Init, TypeOK, NoGroup
<1>2. <<"T2", 0>>[1] = "T2" /\ \A u \in Utrs : <<"T2", u>> \in Groups
  BY DEF Groups
<1>3. \A b \in Banks : <<"T3", b>> \in Groups
  BY DEF Groups
<1>. QED
  BY <1>1, <1>2, <1>3 DEF Init, Typed, Homed, Named, Fresh, Unopened

\* A step that leaves the groups alone.
LEMMA SameGroupsTyped ==
    ASSUME Typed, tier' = tier, todo' \subseteq todo,
           UNCHANGED <<batch, members, amount, live, grade, home, pool, tie>>,
           refused' \subseteq {<<"pid", p>> : p \in PayIds} \cup {<<"utr", u>> : u \in Utrs}
                                \cup {<<"bank", b>> : b \in Banks}
    PROVE  Typed'
<1>1. TypeOK'
  <2>1. todo' \subseteq PayIds \cup Utrs \cup Banks
    BY DEF Typed, TypeOK
  <2>2. TypeOK /\ batch' = batch
    BY DEF Typed
  <2>3. /\ batch' \in BatchType /\ tier' \in {"T1", "T2", "T3", "done"}
        /\ members' \in [Groups -> SUBSET Entities]
        /\ amount' \in [Groups -> [Entities -> Int]]
    BY <2>2 DEF TypeOK
  <2>4. /\ live' \subseteq Groups /\ grade' \in [Groups -> {"none", "T1", "T2", "T3"}]
        /\ home' \in [Lines -> Groups \cup {NoGroup}] /\ pool' \subseteq Lines
        /\ tie' \in [Banks -> SUBSET Lines]
    BY <2>2 DEF TypeOK
  <2>. QED
    BY <2>1, <2>3, <2>4 DEF TypeOK
<1>2. Homed' /\ Named' /\ Fresh'
  BY DEF Typed, Homed, Named, Fresh, Unopened
<1>. QED
  BY <1>1, <1>2 DEF Typed

LEMMA T1MatchTyped ==
    ASSUME Typed, NEW p \in PayIds, T1Match(p)
    PROVE  Typed'
<1>. DEFINE g == <<"T1", p>>
            placed == CandidateOrders(p) \cup PaymentLines(p)
<1>. USE DEF Typed
<1>1. g \in Groups /\ \A h \in Groups : h = g => h[1] = "T1"
  BY DEF Groups
<1>2. placed \in SUBSET Entities /\ placed # {} /\ placed \subseteq Orders \cup Lines
  BY DEF T1Match, CandidateOrders, PaymentLines, Entities
<1>3. [e \in Entities |-> IF e \in placed THEN batch.gross[e] ELSE 0] \in [Entities -> Int]
  BY <1>2 DEF TypeOK, BatchType
<1>. HIDE DEF placed
<1>4. /\ members' = [members EXCEPT ![g] = placed]
      /\ amount' = [amount EXCEPT ![g] =
                        [e \in Entities |-> IF e \in placed THEN batch.gross[e] ELSE 0]]
      /\ tier = "T1" /\ todo' = todo \ {p} /\ live' = live \cup {g}
      /\ grade' = [grade EXCEPT ![g] = "T1"]
      /\ UNCHANGED <<batch, tier, home, pool, tie, refused>>
  BY DEF placed, T1Match, Takes
<1>5. TypeOK'
  <2>1. members' \in [Groups -> SUBSET Entities] /\ amount' \in [Groups -> [Entities -> Int]]
    BY <1>1, <1>2, <1>3, <1>4 DEF TypeOK
  <2>2. /\ live' \subseteq Groups /\ grade' \in [Groups -> {"none", "T1", "T2", "T3"}]
        /\ todo' \subseteq PayIds \cup Utrs \cup Banks
    BY <1>1, <1>4 DEF TypeOK
  <2>. QED
    BY <1>4, <2>1, <2>2 DEF TypeOK
<1>6. Homed'
  BY <1>4 DEF Homed, Fresh
<1>7. Named'
  BY <1>1, <1>2, <1>4 DEF Named, TypeOK
<1>8. Fresh'
  <2>1. \A u : <<"T2", u>> # g /\ <<"T3", u>> # g
    OBVIOUS
  <2>. QED
    BY <1>4, <2>1 DEF Fresh, Unopened, TypeOK, Groups
<1>. QED
  BY <1>5, <1>6, <1>7, <1>8

LEMMA T1RefuseTyped ==
    ASSUME Typed, NEW p \in PayIds, T1Refuse(p)
    PROVE  Typed'
<1>1. refused' \subseteq {<<"pid", q>> : q \in PayIds} \cup {<<"utr", u>> : u \in Utrs}
                          \cup {<<"bank", b>> : b \in Banks}
  BY DEF T1Refuse, Typed, TypeOK
<1>. QED
  BY <1>1, SameGroupsTyped DEF T1Refuse, Takes

LEMMA StartT2Typed ==
    ASSUME Typed, StartT2
    PROVE  Typed' /\ Reach' = live
<1>. USE DEF Typed, StartT2
<1>1. home' \in [Lines -> Groups \cup {NoGroup}] /\ Homed' /\ Reach' = live
  BY SnapshotHomed
<1>2. TypeOK'
  <2>1. todo' \subseteq PayIds \cup Utrs \cup Banks
    OBVIOUS
  <2>. QED
    BY <1>1, <2>1 DEF TypeOK
<1>3. Named' /\ Fresh'
  BY DEF Named, Fresh, Unopened
<1>. QED
  BY <1>1, <1>2, <1>3

LEMMA T2MatchTyped ==
    ASSUME Typed, NEW u \in Utrs, T2Match(u)
    PROVE  Typed'
<1>. DEFINE ls == LinesOfUtr(u)
            new == <<"T2", u>>
<1>. USE DEF Typed, T2Match, Takes
<1>1. ls \in SUBSET Lines /\ new \in Groups
  BY DEF LinesOfUtr, Groups
<1>2. PICK b \in Banks : Attach(b, ls, new, "T2")
  OBVIOUS
<1>. HIDE DEF ls
<1>3. PICK target \in Groups : Attached(b, ls, new, "T2", target)
  BY <1>1, <1>2, AttachTarget
<1>4. /\ members' \in [Groups -> SUBSET Entities]
      /\ amount' \in [Groups -> [Entities -> Int]]
      /\ live' \in SUBSET Groups
      /\ grade' \in [Groups -> {"none", "T1", "T2", "T3"}]
      /\ tie' \in [Banks -> SUBSET Lines]
      /\ \A g \in Groups : members[g] \subseteq members'[g]
      /\ \A g \in live' : members'[g] # {}
  BY <1>1, <1>3, AttachTyped
<1>5. TypeOK'
  <2>1. todo' \subseteq PayIds \cup Utrs \cup Banks
    BY DEF TypeOK
  <2>. QED
    BY <1>4, <2>1 DEF TypeOK
<1>6. Homed'
  BY <1>4 DEF Homed, TypeOK
<1>7. Named'
  BY <1>4 DEF Named
<1>8. ASSUME NEW g \in Groups, g # new, Unopened(g)
      PROVE  Unopened(g)'
  BY <1>1, <1>3, <1>8, UnopenedStays
<1>9. Fresh'
  <2>1. /\ \A v \in Utrs : <<"T2", v>> \in Groups /\ (v # u => <<"T2", v>> # new)
        /\ \A c \in Banks : <<"T3", c>> \in Groups /\ <<"T3", c>> # new
    BY DEF Groups
  <2>2. \A v \in todo' \cap Utrs : Unopened(<<"T2", v>>)'
    BY <1>8, <2>1 DEF Fresh
  <2>3. \A c \in Banks : Unopened(<<"T3", c>>)'
    BY <1>8, <2>1 DEF Fresh
  <2>. QED
    BY <2>2, <2>3 DEF Fresh, Unopened
<1>. QED
  BY <1>5, <1>6, <1>7, <1>9

LEMMA T2RefuseTyped ==
    ASSUME Typed, NEW u \in Utrs, T2Refuse(u) \/ T2Decline(u)
    PROVE  Typed'
<1>1. refused' \subseteq {<<"pid", q>> : q \in PayIds} \cup {<<"utr", v>> : v \in Utrs}
                          \cup {<<"bank", b>> : b \in Banks}
  BY DEF T2Refuse, T2Decline, Typed, TypeOK
<1>. QED
  BY <1>1, SameGroupsTyped DEF T2Refuse, T2Decline, Takes

LEMMA StartT3Typed ==
    ASSUME Typed, StartT3
    PROVE  Typed' /\ Reach' = live
<1>. USE DEF Typed, StartT3
<1>1. home' \in [Lines -> Groups \cup {NoGroup}] /\ Homed' /\ Reach' = live
  BY SnapshotHomed
<1>2. TypeOK'
  <2>1. todo' \subseteq PayIds \cup Utrs \cup Banks /\ pool' \subseteq Lines
    OBVIOUS
  <2>. QED
    BY <1>1, <2>1 DEF TypeOK
<1>3. Named' /\ Fresh'
  BY DEF Named, Fresh, Unopened
<1>. QED
  BY <1>1, <1>2, <1>3

LEMMA T3MatchTyped ==
    ASSUME Typed, NEW b \in Banks, T3Match(b)
    PROVE  Typed'
<1>. DEFINE new == <<"T3", b>>
<1>. USE DEF Typed
<1>1. PICK ls \in Solutions(b) : Attach(b, ls, new, "T3") /\ pool' = Remaining(ls)
  BY DEF T3Match
<1>2. ls \in SUBSET Lines /\ new \in Groups
  BY DEF Solutions, Combos, Candidates, InWindow, Groups, TypeOK
<1>3. PICK target \in Groups : Attached(b, ls, new, "T3", target)
  BY <1>1, <1>2, AttachTarget
<1>4. /\ members' \in [Groups -> SUBSET Entities]
      /\ amount' \in [Groups -> [Entities -> Int]]
      /\ live' \in SUBSET Groups
      /\ grade' \in [Groups -> {"none", "T1", "T2", "T3"}]
      /\ tie' \in [Banks -> SUBSET Lines]
      /\ \A g \in Groups : members[g] \subseteq members'[g]
      /\ \A g \in live' : members'[g] # {}
  BY <1>2, <1>3, AttachTyped
<1>5. /\ tier = "T3" /\ b \in todo /\ todo' = todo \ {b}
      /\ UNCHANGED <<batch, tier, home, refused>>
  BY DEF T3Match, TakesBank
<1>6. TypeOK'
  <2>1. todo' \subseteq PayIds \cup Utrs \cup Banks /\ pool' \subseteq Lines
    BY <1>1, <1>5 DEF TypeOK, Remaining
  <2>. QED
    BY <1>4, <1>5, <2>1 DEF TypeOK
<1>7. Homed'
  BY <1>4, <1>5 DEF Homed, TypeOK
<1>8. Named'
  BY <1>4 DEF Named
<1>9. Fresh'
  <2>. SUFFICES ASSUME NEW c \in todo' \cap Banks
                PROVE  Unopened(<<"T3", c>>)'
    BY <1>5 DEF Fresh, Unopened
  <2>1. <<"T3", c>> \in Groups /\ <<"T3", c>> # new
    BY <1>5 DEF Groups
  <2>2. Unopened(<<"T3", c>>)
    BY <1>5 DEF Fresh
  <2>. QED
    BY <1>2, <1>3, <2>1, <2>2, UnopenedStays
<1>. QED
  BY <1>6, <1>7, <1>8, <1>9

LEMMA T3RefuseTyped ==
    ASSUME Typed, NEW b \in Banks, T3Refuse(b) \/ T3Skip(b)
    PROVE  Typed'
<1>1. refused' \subseteq {<<"pid", q>> : q \in PayIds} \cup {<<"utr", v>> : v \in Utrs}
                          \cup {<<"bank", c>> : c \in Banks}
  BY DEF T3Refuse, T3Skip, Typed, TypeOK
<1>. QED
  BY <1>1, SameGroupsTyped DEF T3Refuse, T3Skip, TakesBank

LEMMA FinishTyped ==
    ASSUME Typed, Finish
    PROVE  Typed'
<1>1. TypeOK'
  BY DEF Typed, TypeOK, Finish
<1>. QED
  BY <1>1 DEF Typed, Homed, Named, Fresh, Finish

LEMMA StutterTyped ==
    ASSUME Typed, UNCHANGED vars
    PROVE  Typed'
<1>1. TypeOK'
  BY SameGroupsTyped DEF vars, Typed, TypeOK
<1>. QED
  BY <1>1 DEF Typed, Homed, Named, Fresh, Unopened, vars

LEMMA NextTyped == Typed /\ [Next]_vars => Typed'
<1>. SUFFICES ASSUME Typed, [Next]_vars PROVE Typed'
  OBVIOUS
<1>1. ASSUME NEW p \in PayIds, T1Match(p) \/ T1Refuse(p) PROVE Typed'
  BY <1>1, T1MatchTyped, T1RefuseTyped
<1>2. CASE StartT2
  BY <1>2, StartT2Typed
<1>3. ASSUME NEW u \in Utrs, T2Match(u) \/ T2Refuse(u) \/ T2Decline(u) PROVE Typed'
  BY <1>3, T2MatchTyped, T2RefuseTyped
<1>4. CASE StartT3
  BY <1>4, StartT3Typed
<1>5. ASSUME NEW b \in Banks, T3Match(b) \/ T3Refuse(b) \/ T3Skip(b) PROVE Typed'
  BY <1>5, T3MatchTyped, T3RefuseTyped
<1>6. CASE Finish
  BY <1>6, FinishTyped
<1>7. CASE Returned \/ UNCHANGED vars
  BY <1>7, StutterTyped DEF Returned
<1>. QED
  BY <1>1, <1>2, <1>3, <1>4, <1>5, <1>6, <1>7 DEF Next

\* The groups keep their types: whenever a tier looks up the last group of a
\* line, or the last holder of an entity, there is one.
THEOREM TypeCorrect == Spec => []TypeOK
<1>1. Typed => TypeOK
  BY DEF Typed
<1>. QED
  BY <1>1, TypedInit, NextTyped, PTL DEF Spec

(***************************************************************************)
(* Evidence.                                                               *)
(***************************************************************************)

\* What a match puts into a group comes from a group that may be filled, is one
\* of its lines, or is its bank.
LEMMA AttachSource ==
    ASSUME TypeOK, NEW b \in Banks, NEW ls \in SUBSET Lines, NEW new \in Groups, NEW label,
           NEW target \in Groups, Attached(b, ls, new, label, target),
           Unopened(new), home' = home,
           NEW g \in Reach', NEW e \in members'[g], e \notin ls, e # b
    PROVE  \E h \in Reach : e \in members[h] /\ members[h] \subseteq members'[g]
<1>1. Referenced(ls) \subseteq Reach /\ Referenced(ls) \subseteq Groups
  BY DEF Referenced, Reach, TypeOK
<1>2. CASE g # target
  <2>1. g \in Reach /\ g \in Groups
    BY <1>1, <1>2 DEF Reach, Attached, TypeOK
  <2>2. members'[g] = members[g]
    BY <1>2, <2>1 DEF Attached, TypeOK
  <2>. QED
    BY <2>1, <2>2
<1>3. CASE g = target
  <2>1. members'[g] = Gathered(target, Referenced(ls)) \cup ls \cup {b}
    BY <1>3 DEF Attached, TypeOK
  <2>2. PICK h \in {target} \cup Referenced(ls) : e \in members[h]
    BY <2>1 DEF Gathered, Consumed
  <2>3. h \in Referenced(ls)
    BY <2>2 DEF Attached, Unopened
  <2>4. members[h] \subseteq members'[g]
    BY <2>1, <2>3 DEF Gathered, Consumed
  <2>. QED
    BY <1>1, <2>2, <2>3, <2>4
<1>. QED
  BY <1>2, <1>3

\* A match of a bank that is in no group, on lines that back no bank, with their
\* sum, keeps the evidence together and apart from that of the others.
LEMMA AttachEvidence ==
    ASSUME TypeOK, Evident, Backed,
           NEW b \in Banks, NEW ls \in SUBSET Lines, NEW new \in Groups, NEW label,
           NEW target \in Groups, Attached(b, ls, new, label, target),
           Unopened(new), UNCHANGED <<batch, home>>,
           ls # {}, SumOfNets(ls) = batch.credit[b],
           \A g \in Reach : b \notin members[g],
           \A g \in Reach : \A c \in BanksIn(g) : tie[c] \cap ls = {}
    PROVE  /\ Evident' /\ Backed'
           /\ tie'[b] = ls /\ \A c \in Banks \ {b} : tie'[c] = tie[c]
           /\ \A g \in Reach' : \A c \in BanksIn(g)' : c # b =>
                 \E h \in Reach : c \in BanksIn(h)
<1>1. tie'[b] = ls /\ \A c \in Banks \ {b} : tie'[c] = tie[c]
  BY DEF Attached, TypeOK
<1>2. ASSUME NEW g \in Reach', NEW c \in BanksIn(g)', c # b
      PROVE  \E h \in Reach : c \in BanksIn(h) /\ members[h] \subseteq members'[g]
  <2>1. c \in members'[g] /\ c \in Banks /\ c \notin ls
    BY EntityAssumption DEF BanksIn
  <2>2. \E h \in Reach : c \in members[h] /\ members[h] \subseteq members'[g]
    BY <1>2, <2>1, AttachSource
  <2>. QED
    BY <2>1, <2>2 DEF BanksIn
<1>3. ASSUME NEW g \in Reach', b \in members'[g]
      PROVE  ls \subseteq members'[g]
  <2>1. g \notin Reach \/ g = target
    <3>1. CASE g \in Reach /\ g # target
      <4>1. members'[g] = members[g]
        BY <3>1 DEF Attached, TypeOK, Reach
      <4>. QED
        BY <1>3, <3>1, <4>1
    <3>. QED
      BY <3>1
  <2>2. g = target
    BY <2>1 DEF Reach, Attached
  <2>. QED
    BY <2>2 DEF Attached, TypeOK
<1>4. Evident'
  <2>. SUFFICES ASSUME NEW g \in Reach', NEW c \in BanksIn(g)'
                PROVE  /\ tie'[c] # {} /\ tie'[c] \subseteq members'[g]
                       /\ SumOfNets(tie[c])' = batch.credit[c]
    BY DEF Evident
  <2>1. c \in Banks /\ c \in members'[g]
    BY DEF BanksIn
  <2>2. \A S : tie'[c] = S => SumOfNets(tie[c])' = SumOfNets(S)
    BY DEF SumOfNets
  <2>3. CASE c = b
    BY <1>1, <1>3, <2>1, <2>2, <2>3
  <2>4. CASE c # b
    <3>1. PICK h \in Reach : c \in BanksIn(h) /\ members[h] \subseteq members'[g]
      BY <1>2, <2>4
    <3>. QED
      BY <1>1, <2>1, <2>2, <2>4, <3>1 DEF Evident
  <2>. QED
    BY <2>3, <2>4
<1>5. Backed'
  <2>. SUFFICES ASSUME NEW g \in Reach', NEW h \in Reach',
                       NEW c \in BanksIn(g)', NEW d \in BanksIn(h)', c # d
                PROVE  tie'[c] \cap tie'[d] = {}
    BY DEF Backed
  <2>1. c \in Banks /\ d \in Banks
    BY DEF BanksIn
  <2>2. CASE c = b
    BY <1>1, <1>2, <2>1, <2>2
  <2>3. CASE d = b
    BY <1>1, <1>2, <2>1, <2>3
  <2>4. CASE c # b /\ d # b
    BY <1>1, <1>2, <2>1, <2>4 DEF Backed
  <2>. QED
    BY <2>2, <2>3, <2>4
<1>. QED
  BY <1>1, <1>2, <1>4, <1>5

LEMMA EvidencedInit == Init => Evidenced
<1>. SUFFICES ASSUME Init PROVE Evidenced
  OBVIOUS
<1>1. \A g \in Groups : BanksIn(g) = {}
  BY DEF Init, BanksIn
<1>2. Reach = {}
  BY DEF Reach, Init
<1>. QED
  BY <1>1, <1>2 DEF Init, Evidenced, ByUtr, Offered, Evident, Backed, Marked

\* What is said of the evidence reads these variables only.
LEMMA SameGroupsEvidenced ==
    ASSUME Evidenced, tier' = tier, todo' \subseteq todo,
           UNCHANGED <<batch, members, live, grade, home, pool, tie>>
    PROVE  Evidenced'
<1>. USE DEF Evidenced
<1>1. Reach' = Reach /\ \A g : BanksIn(g)' = BanksIn(g)
  BY DEF Reach, BanksIn
<1>2. /\ \A b, u : Evidence(b, u)' = Evidence(b, u)
      /\ \A u : LinesOfUtr(u)' = LinesOfUtr(u)
  BY DEF Evidence, BanksOfUtr, LinesOfUtr, SumOfNets
<1>3. ByUtr'
  BY <1>1, <1>2 DEF ByUtr, MatchedByUtr
<1>4. Offered'
  BY <1>1 DEF Offered
<1>5. Evident' /\ Backed'
  BY <1>1 DEF Evident, Backed, SumOfNets
<1>6. Marked'
  BY <1>1, <1>2 DEF Marked
<1>. QED
  BY <1>3, <1>4, <1>5, <1>6

\* T1 puts no bank into a group.
LEMMA T1MatchEvidenced ==
    ASSUME Typed, Evidenced, NEW p \in PayIds, T1Match(p)
    PROVE  Evidenced'
<1>1. \A g \in Groups : BanksIn(g)' = {}
  <2>. SUFFICES ASSUME NEW g \in Groups PROVE members'[g] \cap Banks = {}
    BY DEF BanksIn
  <2>1. members'[g] = members[g] \/ members'[g] = CandidateOrders(p) \cup PaymentLines(p)
    BY DEF T1Match, Typed, TypeOK
  <2>. QED
    BY <2>1, EntityAssumption DEF Evidenced, ByUtr, T1Match, BanksIn, CandidateOrders, PaymentLines
<1>2. Reach' \subseteq Groups
  <2>1. <<"T1", p>> \in Groups
    BY DEF Groups
  <2>. QED
    BY <2>1 DEF Reach, T1Match, Typed, TypeOK
<1>3. tier' = "T1"
  BY DEF T1Match
<1>. QED
  BY <1>1, <1>2, <1>3 DEF Evidenced, ByUtr, Offered, Evident, Backed, Marked

LEMMA StartT2Evidenced ==
    ASSUME Typed, Evidenced, StartT2
    PROVE  Evidenced'
<1>1. Reach' \subseteq Groups
  BY StartT2Typed DEF Typed, TypeOK
<1>2. \A g \in Groups : BanksIn(g)' = {}
  BY DEF StartT2, Evidenced, ByUtr, BanksIn
<1>3. \A u \in todo' : LinesOfUtr(u)' # {}
  BY DEF StartT2, LinesOfUtr
<1>4. tier' = "T2"
  BY DEF StartT2
<1>. QED
  BY <1>1, <1>2, <1>3, <1>4 DEF Evidenced, ByUtr, Offered, Evident, Backed, Marked

\* The bank of a UTR that is still to be visited is in no group, and the lines
\* of the UTR back none.
LEMMA T2MatchEvidenced ==
    ASSUME Typed, Evidenced, NEW u \in Utrs, T2Match(u)
    PROVE  Evidenced'
<1>. DEFINE new == <<"T2", u>>
            ls == LinesOfUtr(u)
<1>1. PICK b \in Banks : Evidence(b, u) /\ Attach(b, ls, new, "T2")
  BY DEF T2Match
<1>2. ls \in SUBSET Lines /\ new \in Groups
  BY DEF LinesOfUtr, Groups
<1>3. PICK target \in Groups : Attached(b, ls, new, "T2", target)
  BY <1>1, <1>2, AttachTarget DEF Typed
<1>4. /\ tier = "T2" /\ u \in todo /\ todo' = todo \ {u}
      /\ UNCHANGED <<batch, tier, home, pool>>
  BY DEF T2Match, Takes
<1>5. Unopened(new) /\ ls # {} /\ SumOfNets(ls) = batch.credit[b]
  BY <1>1, <1>4 DEF Typed, Fresh, Evidenced, ByUtr, Evidence
<1>6. batch.bankUtr[b] = u
  BY <1>1 DEF Evidence, BanksOfUtr
<1>7. \A g \in Groups : b \notin members[g]
  BY <1>4, <1>6 DEF Evidenced, ByUtr, BanksIn
<1>8. \A g \in Groups : \A c \in BanksIn(g) : tie[c] \cap ls = {}
  BY <1>4 DEF Evidenced, ByUtr, MatchedByUtr, LinesOfUtr
<1>9. Reach \subseteq Groups
  BY DEF Reach, Typed, TypeOK
<1>10. /\ Evident' /\ Backed'
       /\ tie'[b] = ls /\ \A c \in Banks \ {b} : tie'[c] = tie[c]
  <2>. HIDE DEF ls, new
  <2>. QED
    BY <1>2, <1>3, <1>4, <1>5, <1>7, <1>8, <1>9, AttachEvidence DEF Typed, Evidenced
<1>11. ASSUME NEW g \in Groups, NEW c \in BanksIn(g)'
       PROVE  MatchedByUtr(c)' /\ batch.bankUtr[c] \notin todo'
  <2>1. c \in Banks /\ c \in members'[g] /\ c \notin ls
    BY <1>2, EntityAssumption DEF BanksIn
  <2>2. /\ \A v : Evidence(c, v)' = Evidence(c, v)
        /\ \A v : LinesOfUtr(v)' = LinesOfUtr(v)
    BY <1>4 DEF Evidence, BanksOfUtr, LinesOfUtr, SumOfNets
  <2>3. CASE c = b
    BY <1>1, <1>4, <1>5, <1>6, <1>10, <2>2, <2>3 DEF MatchedByUtr
  <2>4. CASE c # b
    <3>1. Referenced(ls) \subseteq Groups
      <4>. HIDE DEF ls
      <4>. QED
        BY <1>2 DEF Referenced, Typed, TypeOK
    <3>2. \E h \in Groups : c \in members[h]
      BY <1>3, <2>1, <2>4, <3>1 DEF Attached, Gathered, Consumed, Typed, TypeOK
    <3>3. MatchedByUtr(c) /\ batch.bankUtr[c] \notin todo
      BY <1>4, <2>1, <3>2 DEF Evidenced, ByUtr, BanksIn
    <3>. QED
      BY <1>4, <1>10, <2>1, <2>2, <2>4, <3>3 DEF MatchedByUtr
  <2>. QED
    BY <2>3, <2>4
<1>12. ByUtr'
  <2>1. \A v \in todo' \cap Utrs : LinesOfUtr(v)' # {}
    BY <1>4 DEF Evidenced, ByUtr, LinesOfUtr
  <2>. QED
    BY <1>4, <1>11, <2>1 DEF ByUtr
<1>13. Marked'
  BY <1>4, <1>11 DEF Marked, MatchedByUtr
<1>14. Offered'
  BY <1>4 DEF Offered
<1>. QED
  BY <1>10, <1>12, <1>13, <1>14 DEF Evidenced

\* T3 starts from the banks of no listed group and the lines of no group that
\* has a bank.
LEMMA StartT3Evidenced ==
    ASSUME Typed, Evidenced, StartT3
    PROVE  Evidenced'
<1>1. /\ tier = "T2" /\ tier' = "T3"
      /\ todo' = Banks \ UNION {BanksIn(g) : g \in Tied}
      /\ pool' = Lines \ UNION {LinesIn(g) : g \in Tied}
      /\ UNCHANGED <<batch, members, live, grade, tie>>
  BY DEF StartT3
<1>2. Reach' = live /\ live \subseteq Reach /\ live \subseteq Groups
  BY StartT3Typed DEF Reach, Typed, TypeOK
<1>3. \A g : BanksIn(g)' = BanksIn(g)
  BY <1>1 DEF BanksIn
<1>4. Evident' /\ Backed'
  BY <1>1, <1>2, <1>3 DEF Evident, Backed, SumOfNets, Evidenced
<1>5. Offered'
  <2>. SUFFICES ASSUME NEW g \in live, NEW b \in BanksIn(g)
                PROVE  b \notin todo' /\ tie[b] \cap pool' = {}
    BY <1>1, <1>2, <1>3 DEF Offered
  <2>1. g \in Tied
    BY DEF Tied
  <2>2. tie[b] \subseteq members[g]
    BY <1>2 DEF Evidenced, Evident
  <2>3. tie[b] \cap pool' = {}
    BY <1>1, <2>1, <2>2 DEF LinesIn
  <2>. QED
    BY <1>1, <2>1, <2>3
<1>6. ByUtr'
  BY <1>1 DEF ByUtr
<1>7. Marked'
  <2>1. \A b, u : Evidence(b, u)' = Evidence(b, u)
    BY <1>1 DEF Evidence, BanksOfUtr, LinesOfUtr, SumOfNets
  <2>2. \A u : LinesOfUtr(u)' = LinesOfUtr(u)
    BY <1>1 DEF LinesOfUtr
  <2>. QED
    BY <1>1, <1>3, <2>1, <2>2 DEF Marked, Evidenced
<1>. QED
  BY <1>4, <1>5, <1>6, <1>7 DEF Evidenced

\* A bank that T3 is offered is in no group it may fill, and no line of the pool
\* backs a bank there.
LEMMA T3MatchEvidenced ==
    ASSUME Typed, Evidenced, NEW b \in Banks, T3Match(b)
    PROVE  Evidenced'
<1>. DEFINE new == <<"T3", b>>
<1>1. PICK ls \in Solutions(b) : Attach(b, ls, new, "T3") /\ pool' = Remaining(ls)
  BY DEF T3Match
<1>2. ls \in SUBSET Lines /\ ls \subseteq pool /\ new \in Groups
  BY DEF Solutions, Combos, Candidates, InWindow, Groups, Typed, TypeOK
<1>3. PICK target \in Groups : Attached(b, ls, new, "T3", target)
  BY <1>1, <1>2, AttachTarget DEF Typed
<1>4. /\ tier = "T3" /\ b \in todo /\ todo' = todo \ {b} /\ pool' = pool \ ls
      /\ UNCHANGED <<batch, tier, home>>
  BY <1>1 DEF T3Match, TakesBank, Remaining
<1>5. ls # {} /\ SumOfNets(ls) = batch.credit[b]
  BY DEF Solutions, Combos
<1>6. Unopened(new)
  BY <1>4 DEF Typed, Fresh
<1>7. \A g \in Reach : b \notin members[g]
  BY <1>4 DEF Evidenced, Offered, BanksIn
<1>8. \A g \in Reach : \A c \in BanksIn(g) : tie[c] \cap ls = {}
  BY <1>2, <1>4 DEF Evidenced, Offered
<1>9. /\ Evident' /\ Backed'
      /\ tie'[b] = ls /\ \A c \in Banks \ {b} : tie'[c] = tie[c]
      /\ \A g \in Reach' : \A c \in BanksIn(g)' : c # b =>
            \E h \in Reach : c \in BanksIn(h)
  <2>. HIDE DEF new
  <2>. QED
    BY <1>2, <1>3, <1>4, <1>5, <1>6, <1>7, <1>8, AttachEvidence DEF Typed, Evidenced
<1>10. Offered'
  <2>. SUFFICES ASSUME NEW g \in Reach', NEW c \in BanksIn(g)'
                PROVE  c \notin todo' /\ tie'[c] \cap pool' = {}
    BY DEF Offered
  <2>1. CASE c = b
    BY <1>4, <1>9, <2>1
  <2>2. CASE c # b
    <3>1. c \in Banks
      BY DEF BanksIn
    <3>2. c \notin todo /\ tie[c] \cap pool = {}
      BY <1>4, <1>9, <2>2 DEF Evidenced, Offered
    <3>. QED
      BY <1>4, <1>9, <2>2, <3>1, <3>2
  <2>. QED
    BY <2>1, <2>2
<1>11. ByUtr'
  BY <1>4 DEF ByUtr
<1>12. Marked'
  <2>1. \A c, u : Evidence(c, u)' = Evidence(c, u)
    BY <1>4 DEF Evidence, BanksOfUtr, LinesOfUtr, SumOfNets
  <2>2. \A u : LinesOfUtr(u)' = LinesOfUtr(u)
    BY <1>4 DEF LinesOfUtr
  <2>3. grade'[target] = "T3"
    BY <1>3 DEF Attached, Typed, TypeOK
  <2>4. \A g \in Groups \ {target} : grade'[g] = grade[g] /\ BanksIn(g)' = BanksIn(g)
    BY <1>3 DEF Attached, Typed, TypeOK, BanksIn
  <2>. QED
    BY <2>1, <2>2, <2>3, <2>4 DEF Marked, Evidenced
<1>. QED
  BY <1>9, <1>10, <1>11, <1>12 DEF Evidenced

LEMMA FinishEvidenced ==
    ASSUME Evidenced, Finish
    PROVE  Evidenced'
<1>. USE DEF Evidenced, Finish
<1>1. Reach' = Reach /\ \A g : BanksIn(g)' = BanksIn(g)
  BY DEF Reach, BanksIn
<1>2. ByUtr' /\ Offered'
  BY DEF ByUtr, Offered
<1>3. Evident' /\ Backed'
  BY <1>1 DEF Evident, Backed, SumOfNets
<1>4. Marked'
  BY <1>1 DEF Marked, Evidence, BanksOfUtr, LinesOfUtr, SumOfNets
<1>. QED
  BY <1>2, <1>3, <1>4

LEMMA NextEvidenced == Typed /\ Evidenced /\ [Next]_vars => Evidenced'
<1>. SUFFICES ASSUME Typed, Evidenced, [Next]_vars PROVE Evidenced'
  OBVIOUS
<1>1. ASSUME NEW p \in PayIds, T1Match(p) \/ T1Refuse(p) PROVE Evidenced'
  BY <1>1, T1MatchEvidenced, SameGroupsEvidenced DEF T1Refuse, Takes
<1>2. CASE StartT2
  BY <1>2, StartT2Evidenced
<1>3. ASSUME NEW u \in Utrs, T2Match(u) \/ T2Refuse(u) \/ T2Decline(u) PROVE Evidenced'
  BY <1>3, T2MatchEvidenced, SameGroupsEvidenced DEF T2Refuse, T2Decline, Takes
<1>4. CASE StartT3
  BY <1>4, StartT3Evidenced
<1>5. ASSUME NEW b \in Banks, T3Match(b) \/ T3Refuse(b) \/ T3Skip(b) PROVE Evidenced'
  BY <1>5, T3MatchEvidenced, SameGroupsEvidenced DEF T3Refuse, T3Skip, TakesBank
<1>6. CASE Finish
  BY <1>6, FinishEvidenced
<1>7. CASE Returned \/ UNCHANGED vars
  BY <1>7, SameGroupsEvidenced DEF Returned, vars
<1>. QED
  BY <1>1, <1>2, <1>3, <1>4, <1>5, <1>6, <1>7 DEF Next

THEOREM EvidenceInvariant == Spec => [](Typed /\ Evidenced)
  BY TypedInit, EvidencedInit, NextTyped, NextEvidenced, PTL DEF Spec

\* Whatever partial settlements do to the groups, a bank credit of the result
\* is beside lines that add up to it.
THEOREM EvidenceCorrect == Spec => []EvidenceTogether
<1>1. Typed /\ Evidenced => EvidenceTogether
  BY DEF Evidenced, Evident, EvidenceTogether, Reach
<1>. QED
  BY <1>1, EvidenceInvariant, PTL

\* No line is counted for two bank credits of the result.
THEOREM LinesCorrect == Spec => []LineBacksOneBank
<1>1. Typed /\ Evidenced => LineBacksOneBank
  BY DEF Evidenced, Backed, LineBacksOneBank, Reach
<1>. QED
  BY <1>1, EvidenceInvariant, PTL

\* What T3 has inferred is labelled so, whatever group it ended up in.
THEOREM LabelsCorrect == Spec => []InferenceMarked
<1>1. Typed /\ Evidenced => InferenceMarked
  BY DEF Evidenced, Marked, InferenceMarked, Typed, TypeOK
<1>. QED
  BY <1>1, EvidenceInvariant, PTL

(***************************************************************************)
(* The search of T3.                                                       *)
(***************************************************************************)

\* The candidates have an order, and so have the combinations of them.
LEMMA EarlierOrder ==
    ASSUME TypeOK
    PROVE  /\ \A l \in Lines : ~ Earlier(l, l)
           /\ \A l, m, n \in Lines : Earlier(l, m) /\ Earlier(m, n) => Earlier(l, n)
           /\ \A l, m \in Lines : l # m => Earlier(l, m) \/ Earlier(m, l)
<1>1. \A l \in Lines : l \in Nat /\ batch.settledOn[l] \in Nat
  BY EntityAssumption DEF TypeOK, BatchType, Entities
<1>. QED
  BY <1>1 DEF Earlier

LEMMA ExaminedOrder ==
    ASSUME TypeOK, NEW S \in SUBSET Lines
    PROVE  /\ IsFiniteSet(Combos(S))
           /\ \A c \in Combos(S) : ~ Examined(c, c)
           /\ \A c, d, e \in Combos(S) : Examined(c, d) /\ Examined(d, e) => Examined(c, e)
           /\ \A c, d \in Combos(S) : c # d => Examined(c, d) \/ Examined(d, c)
<1>1. IsFiniteSet(Lines) /\ IsFiniteSet(S)
  BY EntityAssumption, FS_Subset DEF Entities
<1>2. IsFiniteSet(Combos(S))
  <2>1. IsFiniteSet(SUBSET S) /\ Combos(S) \in SUBSET (SUBSET S)
    BY <1>1, FS_SUBSET DEF Combos
  <2>. QED
    BY <2>1, FS_Subset
<1>3. \A c \in Combos(S) : c \in SUBSET Lines /\ IsFiniteSet(c) /\ Cardinality(c) \in Nat
  BY <1>1, FS_Subset, FS_CardinalityType DEF Combos
<1>4. \A c \in Combos(S) : ~ Examined(c, c)
  BY <1>3 DEF Examined
<1>5. ASSUME NEW c \in Combos(S), NEW d \in Combos(S), NEW e \in Combos(S),
             Examined(c, d), Examined(d, e)
      PROVE  Examined(c, e)
  <2>1. CASE Cardinality(c) < Cardinality(d) \/ Cardinality(d) < Cardinality(e)
    BY <1>3, <1>5, <2>1 DEF Examined
  <2>2. CASE ~ (Cardinality(c) < Cardinality(d) \/ Cardinality(d) < Cardinality(e))
    <3>1. Cardinality(c) = Cardinality(e)
      BY <1>3, <1>5, <2>2 DEF Examined
    <3>2. PICK l \in c \ d : \A m \in d \ c : Earlier(l, m)
      BY <1>5, <2>2 DEF Examined
    <3>3. PICK k \in d \ e : \A m \in e \ d : Earlier(k, m)
      BY <1>5, <2>2 DEF Examined
    <3>4. l \in Lines /\ k \in Lines /\ l # k /\ c \subseteq Lines /\ e \subseteq Lines
      BY <1>3
    <3>5. CASE Earlier(l, k)
      <4>1. l \notin e
        BY <3>3, <3>4, <3>5, EarlierOrder
      <4>2. \A m \in e \ c : Earlier(l, m)
        BY <3>2, <3>3, <3>4, <3>5, EarlierOrder
      <4>. QED
        BY <3>1, <4>1, <4>2 DEF Examined
    <3>6. CASE Earlier(k, l)
      <4>1. k \in c
        BY <3>2, <3>4, <3>6, EarlierOrder
      <4>2. \A m \in e \ c : Earlier(k, m)
        BY <3>2, <3>3, <3>4, <3>6, EarlierOrder
      <4>. QED
        BY <3>1, <4>1, <4>2 DEF Examined
    <3>. QED
      BY <3>4, <3>5, <3>6, EarlierOrder
  <2>. QED
    BY <2>1, <2>2
<1>6. ASSUME NEW c \in Combos(S), NEW d \in Combos(S), c # d
      PROVE  Examined(c, d) \/ Examined(d, c)
  <2>1. CASE Cardinality(c) # Cardinality(d)
    BY <1>3, <2>1 DEF Examined
  <2>2. CASE Cardinality(c) = Cardinality(d)
    <3>. DEFINE D == (c \ d) \cup (d \ c)
                R == {p \in D \X D : Earlier(p[1], p[2])}
    <3>1. D \in SUBSET Lines /\ IsFiniteSet(D) /\ D # {}
      BY <1>1, <1>3, <1>6, FS_Subset
    <3>2. \A l, m \in D : <<l, m>> \in R <=> Earlier(l, m)
      OBVIOUS
    <3>. HIDE DEF D, R
    <3>3. /\ \A l \in D : <<l, l>> \notin R
          /\ \A l, m \in D : l # m => <<l, m>> \in R \/ <<m, l>> \in R
      BY <3>1, <3>2, EarlierOrder
    <3>4. \A l, m, n \in D : <<l, m>> \in R /\ <<m, n>> \in R => <<l, n>> \in R
      BY <3>1, <3>2, EarlierOrder
    <3>5. PICK l \in D : \A m \in D \ {l} : <<l, m>> \in R
      BY <3>1, <3>3, <3>4, FirstExists
    <3>6. \A m \in D \ {l} : Earlier(l, m)
      BY <3>2, <3>5
    <3>. QED
      BY <2>2, <3>5, <3>6 DEF D, Examined
  <2>. QED
    BY <2>1, <2>2
<1>. QED
  BY <1>2, <1>4, <1>5, <1>6

\* Of two combinations the search reaches one first, and both before its end.
LEMMA PositionsApart ==
    ASSUME TypeOK, NEW b \in Banks,
           NEW c \in Combos(Candidates(b)), NEW d \in Combos(Candidates(b)), Examined(c, d)
    PROVE  /\ Position(b, c) < Position(b, d)
           /\ Position(b, d) <= Cardinality(Combos(Candidates(b)))
<1>. DEFINE all == Combos(Candidates(b))
            Before(e) == {f \in all : Examined(f, e)}
<1>1. Candidates(b) \in SUBSET Lines
  BY DEF Candidates, InWindow, TypeOK
<1>2. /\ IsFiniteSet(all)
      /\ ~ Examined(d, d) /\ ~ Examined(c, c)
      /\ \A e \in all : Examined(e, c) => Examined(e, d)
  <2>. HIDE DEF all
  <2>. QED
    BY <1>1, ExaminedOrder DEF all
<1>. HIDE DEF all
<1>3. Before(c) \cup {c} \in SUBSET Before(d) /\ Before(d) \cup {d} \in SUBSET all
  BY <1>2 DEF all
<1>4. c \notin Before(c) /\ d \notin Before(d)
  BY <1>2
<1>5. Before(c) \in SUBSET all /\ Before(d) \in SUBSET all
  OBVIOUS
<1>. HIDE DEF Before
<1>6. /\ IsFiniteSet(Before(c)) /\ IsFiniteSet(Before(d))
      /\ Cardinality(Before(c)) \in Nat /\ Cardinality(Before(d)) \in Nat
      /\ Cardinality(all) \in Nat
  BY <1>2, <1>5, FS_Subset, FS_CardinalityType
<1>7. /\ Cardinality(Before(c) \cup {c}) = Cardinality(Before(c)) + 1
      /\ Cardinality(Before(d) \cup {d}) = Cardinality(Before(d)) + 1
  BY <1>4, <1>6, FS_AddElement
<1>8. /\ Cardinality(Before(c) \cup {c}) <= Cardinality(Before(d))
      /\ Cardinality(Before(d) \cup {d}) <= Cardinality(all)
  BY <1>2, <1>3, <1>6, FS_Subset
<1>9. Position(b, c) = 1 + Cardinality(Before(c)) /\ Position(b, d) = 1 + Cardinality(Before(d))
  BY DEF Position, Before, all
<1>. QED
  BY <1>6, <1>7, <1>8, <1>9 DEF all

\* When the search ends within its budget with one solution, there is no other.
LEMMA SolutionIsUnique ==
    ASSUME TypeOK, NEW b \in Banks, ~ Ambiguous(b), ~ Exceeded(b)
    PROVE  \A c, d \in Solutions(b) : c = d
<1>. SUFFICES ASSUME NEW c \in Solutions(b), NEW d \in Solutions(b), Examined(c, d)
              PROVE  FALSE
  <2>1. Candidates(b) \in SUBSET Lines
    BY DEF Candidates, InWindow, TypeOK
  <2>2. \A c, d \in Combos(Candidates(b)) : c # d => Examined(c, d) \/ Examined(d, c)
    BY <2>1, ExaminedOrder
  <2>. QED
    BY <2>2 DEF Solutions
<1>1. c \in Combos(Candidates(b)) /\ d \in Combos(Candidates(b))
  BY DEF Solutions
<1>2. /\ Position(b, c) < Position(b, d)
      /\ Position(b, d) <= Cardinality(Combos(Candidates(b)))
  BY <1>1, PositionsApart
<1>3. Cardinality(Combos(Candidates(b))) <= batch.budget
  <2>1. Candidates(b) \in SUBSET Lines
    BY DEF Candidates, InWindow, TypeOK
  <2>2. Cardinality(Combos(Candidates(b))) \in Nat
    BY <2>1, ExaminedOrder, FS_CardinalityType
  <2>3. batch.budget \in Nat
    BY DEF TypeOK, BatchType
  <2>. QED
    BY <2>2, <2>3 DEF Exceeded
<1>4. Position(b, d) <= batch.budget
  <2>1. Candidates(b) \in SUBSET Lines
    BY DEF Candidates, InWindow, TypeOK
  <2>2. Cardinality(Combos(Candidates(b))) \in Nat /\ batch.budget \in Nat
    BY <2>1, ExaminedOrder, FS_CardinalityType DEF TypeOK, BatchType
  <2>3. Position(b, d) \in Nat
    BY <2>1, ExaminedOrder, FS_Subset, FS_CardinalityType DEF Position
  <2>. QED
    BY <1>2, <1>3, <2>2, <2>3
<1>. QED
  BY <1>2, <1>4 DEF Ambiguous

\* What no cap keeps out of the search the search looks at.
LEMMA SearchCoversWindow ==
    ASSUME NEW b \in Banks, NEW c \in SUBSET InWindow(b), ~ BeyondCaps(b, c),
           c # {}, SumOfNets(c) = batch.credit[b], TypeOK
    PROVE  c \in Solutions(b)
<1>1. IsFiniteSet(Lines) /\ InWindow(b) \in SUBSET Lines
  BY EntityAssumption, FS_Subset DEF Entities, InWindow, TypeOK
<1>2. Cardinality(c) \in Nat
  BY <1>1, FS_Subset, FS_CardinalityType
<1>3. Cardinality(c) <= MaxSize
  BY <1>2, BoundsAssumption DEF BeyondCaps
<1>4. ASSUME NEW l \in c
      PROVE  l \in Candidates(b)
  <2>. DEFINE before == {m \in InWindow(b) : Earlier(m, l)}
  <2>1. Cardinality(before) \in Nat
    BY <1>1, FS_Subset, FS_CardinalityType
  <2>2. ~ Cardinality(before) >= MaxCandidates
    BY Zenon DEF BeyondCaps
  <2>3. Cardinality(before) < MaxCandidates
    <3>. HIDE DEF before
    <3>. QED
      BY <2>1, <2>2, BoundsAssumption
  <2>4. l \in InWindow(b)
    OBVIOUS
  <2>. QED
    BY <2>3, <2>4, Zenon DEF Candidates
<1>. QED
  BY <1>3, <1>4 DEF Combos, Solutions

\* A step in which T3 ties a bank is the match of that bank.
LEMMA InfersMatches ==
    ASSUME Typed, [Next]_vars, NEW b \in Banks, Infers(b)
    PROVE  tie'[b] \in Solutions(b) /\ ~ Ambiguous(b) /\ ~ Exceeded(b)
<1>. USE DEF Infers
<1>1. ASSUME NEW p \in PayIds, T1Match(p) \/ T1Refuse(p) PROVE FALSE
  BY <1>1 DEF T1Match, T1Refuse
<1>2. ASSUME NEW u \in Utrs, T2Match(u) \/ T2Refuse(u) \/ T2Decline(u) PROVE FALSE
  BY <1>2 DEF T2Match, T2Refuse, T2Decline
<1>3. ASSUME StartT2 \/ StartT3 \/ Finish \/ Returned \/ UNCHANGED vars PROVE FALSE
  BY <1>3 DEF StartT2, StartT3, Finish, Returned, vars
<1>4. PICK c \in Banks : T3Match(c) \/ T3Refuse(c) \/ T3Skip(c)
  BY <1>1, <1>2, <1>3 DEF Next
<1>5. T3Match(c)
  BY <1>4 DEF T3Refuse, T3Skip
<1>6. PICK ls \in Solutions(c) : Attach(c, ls, <<"T3", c>>, "T3")
  BY <1>5 DEF T3Match
<1>7. tie' = [tie EXCEPT ![c] = ls]
  BY <1>6 DEF Attach
<1>8. b = c /\ tie'[b] = ls
  BY <1>7 DEF Typed, TypeOK
<1>. QED
  BY <1>5, <1>6, <1>8 DEF T3Match

\* However many lines a batch has and wherever the caps are set: a set of free
\* lines of the window that T3 passes over when it matches is beyond a cap.
THEOREM UniqueCorrect == Spec => T3MatchIsUnique
<1>1. ASSUME Typed, [Next]_vars, NEW b \in Banks, Infers(b), NEW c \in SUBSET InWindow(b),
             c # {}, SumOfNets(c) = batch.credit[b], ~ BeyondCaps(b, c)
      PROVE  c = tie'[b]
  <2>1. c \in Solutions(b)
    BY <1>1, SearchCoversWindow DEF Typed
  <2>2. tie'[b] \in Solutions(b) /\ ~ Ambiguous(b) /\ ~ Exceeded(b)
    BY <1>1, InfersMatches
  <2>. QED
    BY <1>1, <2>1, <2>2, SolutionIsUnique DEF Typed
<1>2. Typed /\ [Next]_vars =>
        [\A b \in Banks : Infers(b) =>
            \A c \in SUBSET InWindow(b) :
                c # {} /\ SumOfNets(c) = batch.credit[b] => c = tie'[b] \/ BeyondCaps(b, c)]_vars
  BY <1>1
<1>. QED
  BY <1>2, TypedInit, NextTyped, PTL DEF Spec, T3MatchIsUnique

\* Whatever the caps drop, T3 matches only where what it has searched holds no
\* second solution.
THEOREM UniqueInSearch ==
    Spec => [][\A b \in Banks : Infers(b) => Solutions(b) = {tie'[b]}]_vars
<1>1. ASSUME Typed, [Next]_vars, NEW b \in Banks, Infers(b)
      PROVE  Solutions(b) = {tie'[b]}
  <2>1. tie'[b] \in Solutions(b) /\ ~ Ambiguous(b) /\ ~ Exceeded(b)
    BY <1>1, InfersMatches
  <2>. QED
    BY <1>1, <2>1, SolutionIsUnique DEF Typed
<1>2. Typed /\ [Next]_vars => [\A b \in Banks : Infers(b) => Solutions(b) = {tie'[b]}]_vars
  BY <1>1
<1>. QED
  BY <1>2, TypedInit, NextTyped, PTL DEF Spec

(***************************************************************************)
(* Payments whose parts stay together.                                     *)
(***************************************************************************)

\* A group without a bank is as T1 made it.
Original(g) ==
    \E p \in PayIds : g = <<"T1", p>> /\ members[g] = CandidateOrders(p) \cup PaymentLines(p)

\* A group with a bank has no other, and just the lines that add up to it.
Settled(g, b) ==
    /\ BanksIn(g) = {b} /\ LinesIn(g) = tie[b]
    /\ amount[g][b] = batch.credit[b]
    /\ \A l \in tie[b] : amount[g][l] = batch.net[l]

Shaped ==
    \A g \in live : IF BanksIn(g) = {} THEN Original(g) ELSE \E b \in Banks : Settled(g, b)

\* A line that may still be matched is in no group, or in the original group that
\* it refers to.
Free(l) == (tier = "T2" /\ batch.lineUtr[l] \in todo \cap Utrs) \/ (tier = "T3" /\ l \in pool)

AtHome ==
    \A l \in Lines : Free(l) =>
        IF home[l] = NoGroup THEN Holders(l) = {}
        ELSE home[l] \in live /\ BanksIn(home[l]) = {}

BanksKept ==
    \A b \in Banks : tie[b] # {} => \E g \in live : tie[b] \cup {b} \subseteq members[g]

OrdersKept ==
    \A p \in PayIds : grade[<<"T1", p>>] # "none" =>
        \E g \in live : CandidateOrders(p) \cup PaymentLines(p) \subseteq members[g]

\* T2 divides no payment with one UTR, and T3 matches each bank once.
Closed == tier \in {"T1", "T2"} => Together
Once == tier = "T3" => \A b \in todo \cap Banks : tie[b] = {}

Whole ==
    /\ Uniform => Closed /\ Once
    /\ Undivided => NoSharedMember /\ Shaped /\ AtHome /\ BanksKept /\ OrdersKept

\* A set of lines with all parts of each payment that it has a part of.
Complete(ls) == \A l \in ls, m \in Lines : OnePayment(l, m) => m \in ls

LEMMA SameDivision ==
    ASSUME UNCHANGED <<batch, tie>>
    PROVE  /\ Uniform' = Uniform /\ Together' = Together /\ Undivided' = Undivided
  BY DEF Undivided, Uniform, Together, OnePayment

\* The groups that a match merges are original, and their only lines are lines
\* of the match.
LEMMA MergedAreOriginal ==
    ASSUME Typed, Shaped, AtHome, NEW ls \in SUBSET Lines, Complete(ls),
           \A l \in ls : Free(l), NEW g \in Referenced(ls)
    PROVE  g \in live /\ BanksIn(g) = {} /\ Original(g) /\ LinesIn(g) \subseteq ls
<1>1. PICK l \in ls : home[l] = g /\ g # NoGroup
  BY DEF Referenced
<1>2. g \in live /\ BanksIn(g) = {} /\ l \in members[g]
  BY <1>1 DEF AtHome, Typed, Homed
<1>3. Original(g)
  BY <1>2 DEF Shaped
<1>4. PICK p \in PayIds : members[g] = CandidateOrders(p) \cup PaymentLines(p)
  BY <1>3 DEF Original
<1>5. LinesIn(g) = PaymentLines(p)
  BY <1>4, EntityAssumption DEF LinesIn, CandidateOrders, PaymentLines
<1>6. l \in PaymentLines(p) /\ p # NoKey
  BY <1>2, <1>5, KeyAssumption DEF LinesIn
<1>7. \A m \in PaymentLines(p) : m \in ls
  BY <1>6 DEF Complete, OnePayment, PaymentLines
<1>. QED
  BY <1>2, <1>3, <1>5, <1>7

LEMMA AttachWhole ==
    ASSUME Typed, Undivided, Whole,
           NEW b \in Banks, NEW ls \in SUBSET Lines, Complete(ls), NEW new \in Groups, NEW label,
           NEW target \in Groups, Attached(b, ls, new, label, target),
           Unopened(new), \A p \in PayIds : new # <<"T1", p>>,
           UNCHANGED <<batch, home>>,
           \A l \in ls : Free(l),
           \A l \in Lines : Free(l)' => Free(l) /\ l \notin ls,
           \A g \in live : b \notin members[g]
    PROVE  (NoSharedMember /\ Shaped /\ AtHome /\ BanksKept /\ OrdersKept)'
<1>. DEFINE refs == Referenced(ls)
<1>. USE DEF Whole
<1>1. \A g \in refs : g \in live /\ BanksIn(g) = {} /\ Original(g) /\ LinesIn(g) \subseteq ls
  BY MergedAreOriginal
<1>2. live \subseteq Groups /\ members \in [Groups -> SUBSET Entities] /\ tie \in [Banks -> SUBSET Lines]
      /\ amount \in [Groups -> [Entities -> Int]]
      /\ DOMAIN grade = Groups
  BY DEF Typed, TypeOK
<1>. HIDE DEF refs
<1>3. IF refs = {} THEN target = new ELSE target \in refs
  BY DEF Attached, refs
<1>4. live' = (live \ refs) \cup {target} /\ target \notin live \ refs
  BY <1>1, <1>3 DEF Attached, refs, Unopened
<1>5. members'[target] = (UNION {members[g] : g \in refs}) \cup ls \cup {b}
  <2>1. members'[target] = members[target] \cup (UNION {members[g] : g \in refs \ {target}}) \cup ls \cup {b}
    BY <1>2 DEF Attached, Gathered, Consumed, refs
  <2>2. CASE refs = {}
    BY <1>3, <2>1, <2>2 DEF Unopened
  <2>3. CASE refs # {}
    BY <1>3, <2>1, <2>3
  <2>. QED
    BY <2>2, <2>3
<1>6. /\ tie'[b] = ls /\ \A c \in Banks \ {b} : tie'[c] = tie[c]
      /\ amount'[target] = Allocated(b, refs, ls)
      /\ \A g \in Groups \ {target} :
            members'[g] = members[g] /\ amount'[g] = amount[g] /\ grade'[g] = grade[g]
  BY <1>2 DEF Attached, refs
<1>7. ASSUME NEW l \in ls, NEW g \in live, l \in members[g]
      PROVE  g \in refs
  <2>1. home[l] # NoGroup /\ home[l] \in live /\ l \in members[home[l]]
    BY <1>7 DEF AtHome, Holders, Typed, Homed
  <2>2. home[l] = g
    BY <1>2, <1>7, <2>1 DEF NoSharedMember
  <2>. QED
    BY <2>1, <2>2 DEF refs, Referenced
<1>8. ASSUME NEW g \in live \ refs
      PROVE  members[g] \cap members'[target] = {}
  <2>1. \A h \in refs : members[g] \cap members[h] = {}
    BY <1>1 DEF NoSharedMember
  <2>. QED
    BY <1>5, <1>7, <2>1
<1>9. NoSharedMember'
  BY <1>2, <1>4, <1>6, <1>8 DEF NoSharedMember
<1>10. Settled(target, b)'
  <2>1. BanksIn(target)' = {b}
    BY <1>1, <1>5, EntityAssumption DEF BanksIn
  <2>2. LinesIn(target)' = ls
    BY <1>1, <1>5, EntityAssumption DEF LinesIn
  <2>3. amount'[target][b] = batch.credit[b]
    BY <1>6 DEF Allocated, Entities
  <2>4. \A l \in ls : amount'[target][l] = batch.net[l]
    BY <1>6, EntityAssumption DEF Allocated, Entities
  <2>. QED
    BY <1>6, <2>1, <2>2, <2>3, <2>4 DEF Settled
<1>11. /\ \A p : CandidateOrders(p)' = CandidateOrders(p)
       /\ \A p : PaymentLines(p)' = PaymentLines(p)
  BY DEF CandidateOrders, PaymentLines
<1>12. ASSUME NEW g \in live \ refs
       PROVE  IF BanksIn(g)' = {} THEN Original(g)' ELSE \E c \in Banks : Settled(g, c)'
  <2>1. g \in Groups /\ g # target /\ members'[g] = members[g] /\ amount'[g] = amount[g]
    BY <1>2, <1>4, <1>6
  <2>2. BanksIn(g)' = BanksIn(g) /\ LinesIn(g)' = LinesIn(g)
    BY <2>1 DEF BanksIn, LinesIn
  <2>3. CASE BanksIn(g) = {}
    <3>1. Original(g)
      BY <2>3 DEF Shaped
    <3>. QED
      BY <1>11, <2>1, <2>2, <2>3, <3>1 DEF Original
  <2>4. CASE BanksIn(g) # {}
    <3>1. PICK c \in Banks : Settled(g, c)
      BY <2>4 DEF Shaped
    <3>2. c # b /\ tie'[c] = tie[c]
      BY <1>6, <3>1 DEF Settled, BanksIn
    <3>3. Settled(g, c)'
      BY <2>1, <2>2, <3>1, <3>2 DEF Settled
    <3>. QED
      BY <2>2, <2>4, <3>3
  <2>. QED
    BY <2>3, <2>4
<1>13. Shaped'
  <2>1. BanksIn(target)' # {}
    BY <1>10 DEF Settled
  <2>. QED
    BY <1>4, <1>10, <1>12, <2>1 DEF Shaped
<1>14. AtHome'
  <2>. SUFFICES ASSUME NEW l \in Lines, Free(l), l \notin ls
                PROVE  IF home[l] = NoGroup THEN Holders(l)' = {}
                       ELSE home[l] \in live' /\ BanksIn(home[l])' = {}
    BY DEF AtHome, BanksIn
  <2>1. \A g \in refs : l \notin members[g]
    BY <1>1 DEF LinesIn
  <2>2. l \notin members'[target]
    BY <1>5, <2>1, EntityAssumption
  <2>3. CASE home[l] = NoGroup
    <3>1. \A g \in live : l \notin members[g]
      BY <2>3 DEF AtHome, Holders
    <3>2. \A g \in live' : l \notin members'[g]
      BY <1>2, <1>4, <1>6, <2>2, <3>1
    <3>. QED
      BY <2>3, <3>2 DEF Holders
  <2>4. CASE home[l] # NoGroup
    <3>1. home[l] \in live /\ BanksIn(home[l]) = {} /\ l \in members[home[l]]
      BY <2>4 DEF AtHome, Typed, Homed
    <3>2. home[l] \in live \ refs
      BY <2>1, <3>1
    <3>. QED
      BY <1>2, <1>4, <1>6, <2>4, <3>1, <3>2 DEF BanksIn
  <2>. QED
    BY <2>3, <2>4
<1>15. BanksKept'
  <2>. SUFFICES ASSUME NEW c \in Banks, tie'[c] # {}
                PROVE  \E g \in live' : tie'[c] \cup {c} \subseteq members'[g]
    BY DEF BanksKept
  <2>1. CASE c = b
    BY <1>4, <1>5, <1>6, <2>1
  <2>2. CASE c # b
    <3>1. PICK g \in live : tie[c] \cup {c} \subseteq members[g]
      BY <1>6, <2>2 DEF BanksKept
    <3>2. g \in live \ refs
      BY <1>1, <3>1 DEF BanksIn
    <3>. QED
      BY <1>2, <1>4, <1>6, <2>2, <3>1, <3>2
  <2>. QED
    BY <2>1, <2>2
<1>16. OrdersKept'
  <2>. SUFFICES ASSUME NEW p \in PayIds, grade'[<<"T1", p>>] # "none"
                PROVE  \E g \in live' : CandidateOrders(p) \cup PaymentLines(p) \subseteq members'[g]
    BY <1>11 DEF OrdersKept
  <2>1. CASE <<"T1", p>> = target
    <3>1. target \in refs
      BY <1>3, <2>1
    <3>2. PICK q \in PayIds : /\ target = <<"T1", q>>
                             /\ members[target] = CandidateOrders(q) \cup PaymentLines(q)
      BY <1>1, <3>1 DEF Original
    <3>3. q = p
      BY <2>1, <3>2
    <3>. QED
      BY <1>4, <1>5, <3>1, <3>2, <3>3
  <2>2. CASE <<"T1", p>> # target
    <3>1. <<"T1", p>> \in Groups
      BY DEF Groups
    <3>2. PICK g \in live : CandidateOrders(p) \cup PaymentLines(p) \subseteq members[g]
      BY <1>6, <2>2, <3>1 DEF OrdersKept
    <3>3. CASE g \in refs
      BY <1>4, <1>5, <3>2, <3>3
    <3>4. CASE g \notin refs
      BY <1>2, <1>4, <1>6, <3>2, <3>4
    <3>. QED
      BY <3>3, <3>4
  <2>. QED
    BY <2>1, <2>2
<1>. QED
  BY <1>9, <1>13, <1>14, <1>15, <1>16

LEMMA WholeInit == Init => Whole
<1>. SUFFICES ASSUME Init PROVE Whole
  OBVIOUS
<1>1. \A p \in PayIds : <<"T1", p>> \in Groups
  BY DEF Groups
<1>. QED
  BY <1>1 DEF Init, Whole, Closed, Once, Together, NoSharedMember, Shaped, AtHome, Free,
              BanksKept, OrdersKept

LEMMA SameGroupsWhole ==
    ASSUME Whole, tier' = tier \/ tier' = "done", todo' \subseteq todo,
           UNCHANGED <<batch, members, amount, live, grade, home, pool, tie>>
    PROVE  Whole'
<1>0. Uniform => Closed' /\ Once'
  BY SameDivision DEF Whole, Closed, Once
<1>. SUFFICES ASSUME Undivided
              PROVE  (NoSharedMember /\ Shaped /\ AtHome /\ BanksKept /\ OrdersKept)'
  BY <1>0, SameDivision DEF Whole
<1>. USE DEF Whole
<1>1. /\ \A p : CandidateOrders(p)' = CandidateOrders(p)
      /\ \A p : PaymentLines(p)' = PaymentLines(p)
      /\ \A g : BanksIn(g)' = BanksIn(g) /\ LinesIn(g)' = LinesIn(g)
      /\ \A e : Holders(e)' = Holders(e)
  BY DEF CandidateOrders, PaymentLines, BanksIn, LinesIn, Holders
<1>2. /\ \A g : Original(g)' <=> Original(g)
      /\ \A g, b : Settled(g, b)' <=> Settled(g, b)
  BY <1>1 DEF Original, Settled
<1>3. Shaped'
  BY <1>1, <1>2 DEF Shaped
<1>4. AtHome'
  BY <1>1 DEF AtHome, Free
<1>5. NoSharedMember' /\ BanksKept' /\ OrdersKept'
  BY <1>1 DEF NoSharedMember, BanksKept, OrdersKept
<1>. QED
  BY <1>3, <1>4, <1>5

\* T1's groups are apart, for an order and a line bear one payment id each.
LEMMA T1MatchWhole ==
    ASSUME Typed, Evidenced, Whole, NEW p \in PayIds, T1Match(p)
    PROVE  Whole'
<1>0. /\ UNCHANGED <<batch, tie, tier>> /\ tier = "T1"
      /\ Uniform => Closed' /\ Once'
  BY SameDivision DEF T1Match, Whole, Closed, Once
<1>. SUFFICES ASSUME Undivided
              PROVE  (NoSharedMember /\ Shaped /\ AtHome /\ BanksKept /\ OrdersKept)'
  BY <1>0, SameDivision DEF Whole
<1>. USE DEF Whole
<1>. DEFINE new == <<"T1", p>>
            placed == CandidateOrders(p) \cup PaymentLines(p)
<1>1. /\ tier = "T1" /\ tier' = "T1" /\ new \in Groups /\ live \subseteq Groups
      /\ members' = [members EXCEPT ![new] = placed] /\ live' = live \cup {new}
      /\ grade' = [grade EXCEPT ![new] = "T1"]
      /\ UNCHANGED <<batch, home, pool, tie>>
      /\ DOMAIN members = Groups /\ DOMAIN grade = Groups
  BY DEF T1Match, Groups, Typed, TypeOK
<1>2. /\ \A q : CandidateOrders(q)' = CandidateOrders(q)
      /\ \A q : PaymentLines(q)' = PaymentLines(q)
  BY <1>1 DEF CandidateOrders, PaymentLines
<1>3. placed \cap Banks = {}
  BY EntityAssumption DEF CandidateOrders, PaymentLines
<1>4. ASSUME NEW g \in live
      PROVE  Original(g)
  BY <1>1 DEF Evidenced, ByUtr, Shaped
<1>5. ASSUME NEW g \in live'
      PROVE  BanksIn(g)' = {} /\ Original(g)'
  <2>1. CASE g = new
    <3>1. members'[g] = placed
      BY <1>1, <2>1
    <3>. QED
      BY <1>2, <1>3, <2>1, <3>1 DEF BanksIn, Original
  <2>2. CASE g # new
    <3>1. g \in live /\ g \in Groups /\ members'[g] = members[g]
      BY <1>1, <2>2
    <3>2. Original(g) /\ BanksIn(g) = {}
      BY <1>1, <1>4, <3>1 DEF Evidenced, ByUtr
    <3>. QED
      BY <1>2, <3>1, <3>2 DEF BanksIn, Original
  <2>. QED
    BY <2>1, <2>2
<1>6. Shaped'
  BY <1>5 DEF Shaped
<1>7. NoSharedMember'
  <2>. SUFFICES ASSUME NEW g \in live', NEW h \in live', g # h
                PROVE  members'[g] \cap members'[h] = {}
    BY DEF NoSharedMember
  <2>1. PICK q \in PayIds : /\ g = <<"T1", q>>
                           /\ members'[g] = CandidateOrders(q) \cup PaymentLines(q)
    BY <1>2, <1>5 DEF Original
  <2>2. PICK r \in PayIds : /\ h = <<"T1", r>>
                           /\ members'[h] = CandidateOrders(r) \cup PaymentLines(r)
    BY <1>2, <1>5 DEF Original
  <2>3. q # r
    BY <2>1, <2>2
  <2>. QED
    BY <2>1, <2>2, <2>3, EntityAssumption DEF CandidateOrders, PaymentLines
<1>8. AtHome'
  BY <1>1 DEF AtHome, Free
<1>9. BanksKept'
  <2>1. \A b \in Banks : tie[b] = {}
    BY <1>1 DEF BanksKept, Evidenced, ByUtr, BanksIn
  <2>. QED
    BY <1>1, <2>1 DEF BanksKept
<1>10. OrdersKept'
  <2>. SUFFICES ASSUME NEW q \in PayIds, grade'[<<"T1", q>>] # "none"
                PROVE  \E g \in live' : CandidateOrders(q) \cup PaymentLines(q) \subseteq members'[g]
    BY <1>2 DEF OrdersKept
  <2>1. CASE q = p
    BY <1>1, <2>1
  <2>2. CASE q # p
    <3>1. <<"T1", q>> \in Groups /\ <<"T1", q>> # new
      BY <2>2 DEF Groups
    <3>2. PICK g \in live : CandidateOrders(q) \cup PaymentLines(q) \subseteq members[g]
      BY <1>1, <3>1 DEF OrdersKept
    <3>3. CASE g = new
      <4>1. PICK r \in PayIds : g = <<"T1", r>> /\ members[g] = CandidateOrders(r) \cup PaymentLines(r)
        BY <1>4 DEF Original
      <4>2. members'[g] = members[g]
        BY <1>1, <3>3, <4>1
      <4>. QED
        BY <1>1, <3>2, <4>2
    <3>4. CASE g # new
      BY <1>1, <3>2, <3>4
    <3>. QED
      BY <3>3, <3>4
  <2>. QED
    BY <2>1, <2>2
<1>. QED
  BY <1>6, <1>7, <1>8, <1>9, <1>10

\* A hand-over leaves the groups alone, and every free line refers to a listed
\* group without a bank.
LEMMA HandOverWhole ==
    ASSUME Typed, Whole, tier \in {"T1", "T2"}, home' = Snapshot,
           UNCHANGED <<batch, members, amount, live, grade, tie>>,
           tier' = "T3" => todo' = Banks \ UNION {BanksIn(g) : g \in Tied},
           \A l \in Lines : Free(l)' => \A g \in Holders(l) : BanksIn(g) = {}
    PROVE  Whole'
<1>0. ASSUME Uniform PROVE Closed' /\ Once'
  <2>1. Undivided
    BY <1>0 DEF Whole, Closed, Undivided
  <2>2. Closed'
    BY <2>1, SameDivision DEF Closed, Undivided
  <2>3. Once'
    <3>. SUFFICES ASSUME tier' = "T3", NEW b \in todo' \cap Banks, tie[b] # {} PROVE FALSE
      BY DEF Once
    <3>1. PICK g \in live : tie[b] \cup {b} \subseteq members[g]
      BY <2>1 DEF Whole, BanksKept
    <3>2. g \in Tied /\ b \in BanksIn(g)
      BY <3>1 DEF Tied, BanksIn
    <3>. QED
      BY <3>2
  <2>. QED
    BY <2>2, <2>3
<1>. SUFFICES ASSUME Undivided
              PROVE  (NoSharedMember /\ Shaped /\ AtHome /\ BanksKept /\ OrdersKept)'
  BY <1>0, SameDivision DEF Whole
<1>. USE DEF Whole
<1>1. /\ \A p : CandidateOrders(p)' = CandidateOrders(p)
      /\ \A p : PaymentLines(p)' = PaymentLines(p)
      /\ \A g : BanksIn(g)' = BanksIn(g) /\ LinesIn(g)' = LinesIn(g)
      /\ \A e : Holders(e)' = Holders(e)
  BY DEF CandidateOrders, PaymentLines, BanksIn, LinesIn, Holders
<1>2. /\ \A g : Original(g)' <=> Original(g)
      /\ \A g, b : Settled(g, b)' <=> Settled(g, b)
  BY <1>1 DEF Original, Settled
<1>3. Shaped'
  BY <1>1, <1>2 DEF Shaped
<1>4. AtHome'
  <2>. SUFFICES ASSUME NEW l \in Lines, \A g \in Holders(l) : BanksIn(g) = {}
                PROVE  IF home'[l] = NoGroup THEN Holders(l) = {}
                       ELSE home'[l] \in live /\ BanksIn(home'[l]) = {}
    BY <1>1 DEF AtHome
  <2>1. CASE Holders(l) = {}
    BY <2>1, SnapshotType DEF Typed
  <2>2. CASE Holders(l) # {}
    <3>1. home'[l] \in Holders(l)
      BY <2>2, SnapshotType DEF Typed
    <3>2. home'[l] \in live /\ home'[l] # NoGroup
      BY <3>1, GroupsFinite DEF Holders, Typed, TypeOK
    <3>. QED
      BY <3>1, <3>2
  <2>. QED
    BY <2>1, <2>2
<1>5. NoSharedMember' /\ BanksKept' /\ OrdersKept'
  BY <1>1 DEF NoSharedMember, BanksKept, OrdersKept
<1>. QED
  BY <1>3, <1>4, <1>5

LEMMA StartT2Whole ==
    ASSUME Typed, Evidenced, Whole, StartT2
    PROVE  Whole'
<1>1. \A g \in live : BanksIn(g) = {}
  BY DEF StartT2, Evidenced, ByUtr, Typed, TypeOK
<1>. QED
  BY <1>1, HandOverWhole DEF StartT2, Holders

LEMMA StartT3Whole ==
    ASSUME Typed, Whole, StartT3
    PROVE  Whole'
<1>1. ASSUME NEW l \in Lines, Free(l)', NEW g \in Holders(l)
      PROVE  BanksIn(g) = {}
  <2>1. l \in pool'
    BY <1>1 DEF StartT3, Free
  <2>2. g \in live /\ l \in LinesIn(g)
    BY DEF Holders, LinesIn
  <2>. QED
    BY <2>1, <2>2 DEF StartT3, Tied
<1>. QED
  BY <1>1, HandOverWhole DEF StartT3

LEMMA T2MatchWhole ==
    ASSUME Typed, Evidenced, Whole, NEW u \in Utrs, T2Match(u)
    PROVE  Whole'
<1>. DEFINE new == <<"T2", u>>
            ls == LinesOfUtr(u)
<1>1. PICK b \in Banks : Evidence(b, u) /\ Attach(b, ls, new, "T2")
  BY DEF T2Match
<1>2. ls \in SUBSET Lines /\ new \in Groups /\ \A p \in PayIds : new # <<"T1", p>>
  BY DEF LinesOfUtr, Groups
<1>3. PICK target \in Groups : Attached(b, ls, new, "T2", target)
  BY <1>1, <1>2, AttachTarget DEF Typed
<1>4. /\ tier = "T2" /\ u \in todo /\ todo' = todo \ {u}
      /\ UNCHANGED <<batch, tier, home, pool>>
  BY DEF T2Match, Takes
<1>5. Unopened(new)
  BY <1>4 DEF Typed, Fresh
<1>6. \A g \in live : b \notin members[g]
  BY <1>1, <1>4 DEF Evidenced, ByUtr, BanksIn, Evidence, BanksOfUtr, Typed, TypeOK
<1>7. /\ \A l \in ls : Free(l)
      /\ \A l \in Lines : Free(l)' => Free(l) /\ l \notin ls
  BY <1>4 DEF Free, LinesOfUtr
<1>8. ASSUME Uniform
      PROVE  Undivided /\ Complete(ls) /\ Together'
  <2>1. Together
    BY <1>4, <1>8 DEF Whole, Closed
  <2>2. Complete(ls)
    BY <1>8 DEF Complete, Uniform, OnePayment, LinesOfUtr
  <2>3. tie' = [tie EXCEPT ![b] = ls] /\ tie \in [Banks -> SUBSET Lines]
    BY <1>3 DEF Attached, Typed, TypeOK
  <2>. HIDE DEF ls
  <2>4. Together'
    BY <1>4, <2>1, <2>2, <2>3 DEF Together, Complete, OnePayment
  <2>. QED
    BY <1>8, <2>1, <2>2, <2>4 DEF Undivided
<1>9. CASE Uniform
  <2>1. Closed' /\ Once'
    BY <1>4, <1>8, <1>9 DEF Closed, Once
  <2>. HIDE DEF ls, new
  <2>2. (NoSharedMember /\ Shaped /\ AtHome /\ BanksKept /\ OrdersKept)'
    BY <1>2, <1>3, <1>4, <1>5, <1>6, <1>7, <1>8, <1>9, AttachWhole
  <2>. QED
    BY <2>1, <2>2 DEF Whole
<1>10. CASE ~ Uniform
  <2>1. ~ Uniform'
    BY <1>4, <1>10 DEF Uniform, OnePayment
  <2>. QED
    BY <2>1 DEF Whole, Undivided
<1>. QED
  BY <1>9, <1>10

LEMMA T3MatchWhole ==
    ASSUME Typed, Evidenced, Whole, NEW b \in Banks, T3Match(b)
    PROVE  Whole'
<1>. DEFINE new == <<"T3", b>>
<1>1. PICK ls \in Solutions(b) : Attach(b, ls, new, "T3") /\ pool' = Remaining(ls)
  BY DEF T3Match
<1>2. /\ ls \in SUBSET Lines /\ ls \subseteq pool /\ new \in Groups
      /\ \A p \in PayIds : new # <<"T1", p>>
  BY DEF Solutions, Combos, Candidates, InWindow, Groups, Typed, TypeOK
<1>3. PICK target \in Groups : Attached(b, ls, new, "T3", target)
  BY <1>1, <1>2, AttachTarget DEF Typed
<1>4. /\ tier = "T3" /\ b \in todo /\ pool' = pool \ ls
      /\ UNCHANGED <<batch, tier, home>>
  BY <1>1 DEF T3Match, TakesBank, Remaining
<1>5. Unopened(new)
  BY <1>4 DEF Typed, Fresh
<1>6. \A g \in live : b \notin members[g]
  BY <1>4 DEF Evidenced, Offered, BanksIn, Reach
<1>7. /\ \A l \in ls : Free(l)
      /\ \A l \in Lines : Free(l)' => Free(l) /\ l \notin ls
  BY <1>2, <1>4 DEF Free
<1>8. tie' = [tie EXCEPT ![b] = ls] /\ tie \in [Banks -> SUBSET Lines]
  BY <1>3 DEF Attached, Typed, TypeOK
<1>9. Uniform' = Uniform
  BY <1>4 DEF Uniform, OnePayment
<1>10. Uniform => Closed' /\ Once'
  BY <1>4, <1>8 DEF Whole, Closed, Once, T3Match, TakesBank
<1>11. ASSUME Undivided'
       PROVE  Undivided /\ Complete(ls)
  <2>1. Complete(ls)
    BY <1>4, <1>8, <1>11 DEF Undivided, Together, Complete, OnePayment
  <2>2. tie[b] = {}
    BY <1>4, <1>9, <1>11 DEF Whole, Once, Undivided
  <2>3. Together
    BY <1>4, <1>8, <1>11, <2>2 DEF Undivided, Together, OnePayment
  <2>. QED
    BY <1>9, <1>11, <2>1, <2>3 DEF Undivided
<1>12. ASSUME Undivided'
       PROVE  (NoSharedMember /\ Shaped /\ AtHome /\ BanksKept /\ OrdersKept)'
  <2>. HIDE DEF new
  <2>. QED
    BY <1>2, <1>3, <1>4, <1>5, <1>6, <1>7, <1>11, <1>12, AttachWhole
<1>. QED
  BY <1>9, <1>10, <1>12 DEF Whole

LEMMA NextWhole == Typed /\ Evidenced /\ Whole /\ [Next]_vars => Whole'
<1>. SUFFICES ASSUME Typed, Evidenced, Whole, [Next]_vars PROVE Whole'
  OBVIOUS
<1>1. ASSUME NEW p \in PayIds, T1Match(p) \/ T1Refuse(p) PROVE Whole'
  BY <1>1, T1MatchWhole, SameGroupsWhole DEF T1Refuse, Takes
<1>2. CASE StartT2
  BY <1>2, StartT2Whole
<1>3. ASSUME NEW u \in Utrs, T2Match(u) \/ T2Refuse(u) \/ T2Decline(u) PROVE Whole'
  BY <1>3, T2MatchWhole, SameGroupsWhole DEF T2Refuse, T2Decline, Takes
<1>4. CASE StartT3
  BY <1>4, StartT3Whole
<1>5. ASSUME NEW b \in Banks, T3Match(b) \/ T3Refuse(b) \/ T3Skip(b) PROVE Whole'
  BY <1>5, T3MatchWhole, SameGroupsWhole DEF T3Refuse, T3Skip, TakesBank
<1>6. CASE Finish
  BY <1>6, SameGroupsWhole DEF Finish
<1>7. CASE Returned \/ UNCHANGED vars
  BY <1>7, SameGroupsWhole DEF Returned, vars
<1>. QED
  BY <1>1, <1>2, <1>3, <1>4, <1>5, <1>6, <1>7 DEF Next

\* A payment once divided stays divided.
LEMMA UndividedBefore == Typed /\ Whole /\ [Next]_vars /\ Undivided' => Undivided
<1>. SUFFICES ASSUME Typed, Whole, [Next]_vars, Undivided' PROVE Undivided
  OBVIOUS
<1>1. batch' = batch
  BY DEF Next, T1Match, T1Refuse, StartT2, T2Match, T2Refuse, T2Decline, StartT3,
         T3Match, T3Refuse, T3Skip, Finish, Returned, vars
<1>2. Uniform
  BY <1>1 DEF Undivided, Uniform, OnePayment
<1>3. CASE tier \in {"T1", "T2"}
  BY <1>2, <1>3 DEF Whole, Closed, Undivided
<1>4. ASSUME tie' = tie PROVE Undivided
  BY <1>1, <1>4, SameDivision
<1>5. ASSUME NEW b \in Banks, T3Match(b) PROVE Undivided
  <2>1. PICK ls \in Solutions(b) : tie' = [tie EXCEPT ![b] = ls]
    BY <1>5 DEF T3Match, Attach
  <2>2. tie[b] = {} /\ tie \in [Banks -> SUBSET Lines]
    BY <1>2, <1>5 DEF Whole, Once, T3Match, TakesBank, Typed, TypeOK
  <2>3. Together
    BY <1>1, <2>1, <2>2 DEF Undivided, Together, OnePayment
  <2>. QED
    BY <1>2, <2>3 DEF Undivided
<1>6. CASE tier \in {"T3", "done"}
  <2>1. ASSUME NEW u \in Utrs, T2Match(u) PROVE FALSE
    BY <1>6, <2>1 DEF T2Match
  <2>2. tie' = tie \/ \E b \in Banks : T3Match(b)
    BY <2>1 DEF Next, T1Match, T1Refuse, StartT2, T2Refuse, T2Decline, StartT3,
                T3Refuse, T3Skip, Finish, Returned, vars
  <2>. QED
    BY <1>4, <1>5, <2>2
<1>. QED
  BY <1>3, <1>6 DEF Typed, TypeOK

THEOREM WholeInvariant == Spec => [](Typed /\ Evidenced /\ Whole)
  BY TypedInit, EvidencedInit, WholeInit, NextTyped, NextEvidenced, NextWhole, PTL DEF Spec

\* The sum of one amount: the recursion over subsets is exhibited.
LEMMA SumOfOne ==
    ASSUME NEW b, NEW v \in Int
    PROVE  SumFunction([x \in {b} |-> v]) = v
<1>. DEFINE f == [x \in {b} |-> v]
            Step(g, s) == IF s = {} THEN 0 ELSE LET x == CHOOSE y \in s : TRUE IN f[x] + g[s \ {x}]
            iter == CHOOSE g : g = [s \in SUBSET {b} |-> Step(g, s)]
            sum == [s \in SUBSET {b} |-> IF s = {} THEN 0 ELSE v]
<1>1. SumFunction(f) = iter[{b}]
  BY DEF SumFunction, SumFunctionOnSet, FoldFunctionOnSet, MapThenFoldSet
<1>2. sum = [s \in SUBSET {b} |-> Step(sum, s)]
  OBVIOUS
<1>3. iter = [s \in SUBSET {b} |-> Step(iter, s)]
  BY <1>2
<1>4. iter[{}] = 0
  BY <1>3
<1>5. (CHOOSE y \in {b} : TRUE) = b
  OBVIOUS
<1>6. iter[{b}] = Step(iter, {b})
  BY <1>3
<1>7. iter[{b}] = v + iter[{b} \ {b}]
  BY <1>5, <1>6
<1>8. iter[{b}] = v
  <2>. HIDE DEF iter
  <2>. QED
    BY <1>4, <1>7
<1>. HIDE DEF iter
<1>. QED
  BY <1>1, <1>8

LEMMA WholeBalances == Typed /\ Evidenced /\ Whole /\ Undivided => GroupsBalance
<1>. SUFFICES ASSUME Typed, Evidenced, Whole, Undivided, NEW g \in live, BanksIn(g) # {}
              PROVE  SumFunction([l \in LinesIn(g) |-> amount[g][l]])
                        = SumFunction([b \in BanksIn(g) |-> amount[g][b]])
  BY DEF GroupsBalance
<1>1. PICK b \in Banks : Settled(g, b)
  BY DEF Whole, Shaped
<1>2. BanksIn(g) = {b} /\ LinesIn(g) = tie[b] /\ g \in Reach /\ batch.credit[b] \in Int
  BY <1>1 DEF Settled, Reach, Typed, TypeOK, BatchType
<1>3. [l \in LinesIn(g) |-> amount[g][l]] = [l \in tie[b] |-> batch.net[l]]
  BY <1>1, <1>2 DEF Settled
<1>4. SumFunction([l \in LinesIn(g) |-> amount[g][l]]) = batch.credit[b]
  BY <1>2, <1>3 DEF Evidenced, Evident, SumOfNets
<1>5. [c \in BanksIn(g) |-> amount[g][c]] = [c \in {b} |-> batch.credit[b]]
  BY <1>1, <1>2 DEF Settled
<1>6. SumFunction([c \in {b} |-> batch.credit[b]]) = batch.credit[b]
  BY <1>2, SumOfOne
<1>7. SumFunction([c \in BanksIn(g) |-> amount[g][c]]) = batch.credit[b]
  BY <1>5, <1>6
<1>. QED
  BY <1>4, <1>7

\* Unless a payment is divided no entity is in two groups of the result, no
\* group has two banks, and every group with a bank balances.
THEOREM WholeCorrect == Spec => []WholeIsSound
<1>1. Typed /\ Evidenced /\ Whole => WholeIsSound
  <2>. SUFFICES ASSUME Typed, Evidenced, Whole, Undivided
                PROVE  /\ NoSharedMember /\ GroupsBalance
                       /\ \A g \in live : \A b, c \in BanksIn(g) : b = c
    BY DEF WholeIsSound
  <2>1. NoSharedMember /\ GroupsBalance
    BY WholeBalances DEF Whole
  <2>2. \A g \in live : \A b, c \in BanksIn(g) : b = c
    BY DEF Whole, Shaped, Settled
  <2>. QED
    BY <2>1, <2>2
<1>. QED
  BY <1>1, WholeInvariant, PTL

\* Unless a payment is divided the merges lose no tie that a tier has reported.
THEOREM TiesCorrect == Spec => []TiesAreKept
<1>1. Whole => TiesAreKept
  BY DEF Whole, BanksKept, OrdersKept, TiesAreKept
<1>. QED
  BY <1>1, WholeInvariant, PTL

=============================================================================
