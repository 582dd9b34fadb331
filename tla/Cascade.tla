------------------------------ MODULE Cascade ------------------------------
(***************************************************************************)
(* The matching cascade T1 -> T2 -> T3 of src/src/milaan/domain/matching:  *)
(* orders, settlement lines and bank credits of one run are gathered into  *)
(* match groups.  One action is one iteration of a tier's loop, or the     *)
(* hand-over from one tier to the next.                                    *)
(*                                                                         *)
(* Entity ids, payment ids and UTRs are naturals, in the order the code    *)
(* sorts their strings; 0 is a missing payment id or UTR.  A group is      *)
(* named by the tier and the key that created it; the code's groups are    *)
(* Python objects told apart by id().                                      *)
(***************************************************************************)
EXTENDS Integers, FiniteSets, FiniteSetsExt, Functions

CONSTANTS
    Orders, Lines, Banks,   \* the entities of a run: disjoint sets of ids
    PayIds, Utrs,           \* payment ids and normalised UTRs
    Batches,                \* what a run may have been given, see BatchType
    WindowDays,             \* DEFAULT_DATE_WINDOW_DAYS
    MaxCandidates,          \* DEFAULT_MAX_CANDIDATES
    MaxSize                 \* DEFAULT_MAX_COMBINATION_SIZE

Entities == Orders \cup Lines \cup Banks

NoKey == 0

\* The fields of the entities that the tiers read.  linePid is the payment_id
\* of a line of type payment and NoKey for the other line types; bankUtr is
\* what extract_utr finds; budget is the cap max_combinations_examined.
BatchType ==
    [orderPid  : [Orders -> PayIds \cup {NoKey}],
     linePid   : [Lines -> PayIds \cup {NoKey}],
     lineUtr   : [Lines -> Utrs \cup {NoKey}],
     bankUtr   : [Banks -> Utrs \cup {NoKey}],
     gross     : [Orders \cup Lines -> Int],
     net       : [Lines -> Int],
     credit    : [Banks -> Int],
     settledOn : [Lines -> Nat],
     valueDate : [Banks -> Nat],
     budget    : Nat]

\* A run is given finitely many records.
ASSUME EntityAssumption ==
    /\ Entities \subseteq Nat /\ IsFiniteSet(Entities)
    /\ Orders \cap Lines = {} /\ Orders \cap Banks = {} /\ Lines \cap Banks = {}
ASSUME KeyAssumption ==
    /\ PayIds \subseteq Nat \ {NoKey} /\ IsFiniteSet(PayIds)
    /\ Utrs \subseteq Nat \ {NoKey} /\ IsFiniteSet(Utrs)
ASSUME BoundsAssumption == WindowDays \in Nat /\ MaxCandidates \in Nat /\ MaxSize \in Nat
ASSUME BatchAssumption == Batches \subseteq BatchType

NoGroup == <<"none", 0>>
Groups == ({"T1"} \X PayIds) \cup ({"T2"} \X Utrs) \cup ({"T3"} \X Banks)

VARIABLES
    batch,      \* the run's entities, fixed by Init
    tier,       \* the tier that is running
    todo,       \* the keys its loop has still to visit
    members,    \* group -> the entities it holds
    amount,     \* group -> entity -> allocated_amount (0 for a non-member)
    live,       \* the groups that result.groups will list
    grade,      \* group -> its tier label
    home,       \* line_to_group, as snapshotted when the tier started
    pool,       \* T3: unmatched_lines less used_line_ids
    tie,        \* bank -> the lines a tier reported it matched with
    refused     \* keys reported ambiguous: payment ids, UTRs and banks

vars == <<batch, tier, todo, members, amount, live, grade, home, pool, tie, refused>>

----------------------------------------------------------------------------
\* Reading the batch

PaymentLines(p) == {l \in Lines : batch.linePid[l] = p}
CandidateOrders(p) == {o \in Orders : batch.orderPid[o] = p}
LinesOfUtr(u) == {l \in Lines : batch.lineUtr[l] = u}
BanksOfUtr(u) == {b \in Banks : batch.bankUtr[b] = u}

SumOfNets(S) == SumFunction([l \in S |-> batch.net[l]])

\* Reading the groups

LinesIn(g) == members[g] \cap Lines
BanksIn(g) == members[g] \cap Banks
Holders(e) == {g \in live : e \in members[g]}

\* The order of a tier's result: the surviving T1 groups, then the new ones.
ListedBefore(g, h) ==
    \/ g[1] = h[1] /\ g[2] < h[2]
    \/ g[1] = "T1" /\ h[1] = "T2"

\* line_to_group as a tier builds it: a later group overwrites an earlier one.
Snapshot ==
    [l \in Lines |->
        IF Holders(l) = {} THEN NoGroup
        ELSE CHOOSE g \in Holders(l) :
                \A h \in Holders(l) \ {g} : ListedBefore(h, g)]

----------------------------------------------------------------------------
(***************************************************************************)
(* What T2 and T3 do with a match: merge the groups of its lines into the  *)
(* one with the smallest member id, or open the group `new`, then upsert   *)
(* the lines at net and the bank at its credit, and upgrade the label.     *)
(* The groups come from the snapshot, so one of them may have been merged  *)
(* away by an earlier iteration: it is then filled but not listed again.   *)
(***************************************************************************)
SeenAt(g, ls) == Min({l \in ls : home[l] = g})

SortsBefore(g, h, ls) ==
    LET a == Min(members[g])
        b == Min(members[h])
    IN a < b \/ (a = b /\ SeenAt(g, ls) < SeenAt(h, ls))

\* referenced_groups
Referenced(ls) == {home[l] : l \in ls} \ {NoGroup}

\* Mutant: nothing is taken off the result.
Mut_ConsumesNothing(target, refs) == {}

\* The groups that are merged into the target and leave the result.
Consumed(target, refs) == refs \ {target}

\* Mutant: the members of the consumed groups are not moved.
Mut_MovesNothing(target, refs) == members[target]

Gathered(target, refs) ==
    members[target] \cup UNION {members[g] : g \in Consumed(target, refs)}

\* Of the referenced groups that hold e, the last one add_member copied from.
LastHolder(e, refs, ls) ==
    CHOOSE g \in refs :
        /\ e \in members[g]
        /\ \A h \in refs \ {g} : e \in members[h] => SortsBefore(h, g, ls)

Inherited(e, refs, ls) ==
    IF \E g \in refs : e \in members[g] THEN amount[LastHolder(e, refs, ls)][e] ELSE 0

\* Mutant: add_member skips an entity that is already there.
Mut_SkipsPresent(b, refs, ls) ==
    [e \in Entities |->
        IF \E g \in refs : e \in members[g] THEN Inherited(e, refs, ls)
        ELSE IF e = b THEN batch.credit[e]
        ELSE IF e \in ls THEN batch.net[e] ELSE 0]

\* add_member upserts: the lines at net and the bank at its credit supersede
\* what the merged groups had allocated to them.
Allocated(b, refs, ls) ==
    [e \in Entities |->
        IF e = b THEN batch.credit[e]
        ELSE IF e \in ls THEN batch.net[e]
        ELSE Inherited(e, refs, ls)]

\* Mutant: only a group without a label gets one.
Mut_KeepsLabel(g, label) == IF grade[g] = "none" THEN label ELSE grade[g]

\* The tier a group bears after upgrade().
Upgraded(g, label) == label

Attach(b, ls, new, label) ==
    LET refs == Referenced(ls)
    IN \E target \in IF refs = {} THEN {new} ELSE refs :
        /\ \A h \in refs \ {target} : SortsBefore(target, h, ls)
        /\ members' = [members EXCEPT ![target] = Gathered(target, refs) \cup ls \cup {b}]
        /\ amount' = [amount EXCEPT ![target] = Allocated(b, refs, ls)]
        /\ grade' = [grade EXCEPT ![target] = Upgraded(target, label)]
        /\ live' = (live \ Consumed(target, refs)) \cup (IF refs = {} THEN {new} ELSE {})
        /\ tie' = [tie EXCEPT ![b] = ls]

----------------------------------------------------------------------------
\* T1: order <-> settlement lines by payment id (match_t1)

Init ==
    /\ batch \in Batches
    /\ tier = "T1"
    /\ todo = {p \in PayIds : PaymentLines(p) # {}}
    /\ members = [g \in Groups |-> {}]
    /\ amount = [g \in Groups |-> [e \in Entities |-> 0]]
    /\ live = {}
    /\ grade = [g \in Groups |-> "none"]
    /\ home = [l \in Lines |-> NoGroup]
    /\ pool = {}
    /\ tie = [b \in Banks |-> {}]
    /\ refused = {}

\* The loops visit their keys in sorted order.
Takes(k) ==
    /\ k \in todo
    /\ \A j \in todo : k <= j
    /\ todo' = todo \ {k}

T1Match(p) ==
    LET g == <<"T1", p>>
        placed == CandidateOrders(p) \cup PaymentLines(p)
    IN /\ tier = "T1"
       /\ Takes(p)
       /\ \E o \in Orders : CandidateOrders(p) = {o}
       /\ members' = [members EXCEPT ![g] = placed]
       /\ amount' = [amount EXCEPT ![g] =
                        [e \in Entities |-> IF e \in placed THEN batch.gross[e] ELSE 0]]
       /\ live' = live \cup {g}
       /\ grade' = [grade EXCEPT ![g] = "T1"]
       /\ UNCHANGED <<batch, tier, home, pool, tie, refused>>

\* No order, or several, claims the payment id.
T1Refuse(p) ==
    /\ tier = "T1"
    /\ Takes(p)
    /\ ~ \E o \in Orders : CandidateOrders(p) = {o}
    /\ refused' = refused \cup {<<"pid", p>>}
    /\ UNCHANGED <<batch, tier, members, amount, live, grade, home, pool, tie>>

StartT2 ==
    /\ tier = "T1" /\ todo = {}
    /\ tier' = "T2"
    /\ todo' = {u \in Utrs : LinesOfUtr(u) # {} /\ BanksOfUtr(u) # {}}
    /\ home' = Snapshot
    /\ UNCHANGED <<batch, members, amount, live, grade, pool, tie, refused>>

----------------------------------------------------------------------------
\* T2: settlement lines <-> bank credit by UTR (match_t2)

\* Mutant: the sum of the lines is not compared with the credit.
Mut_NoSumCheck(b, u) == BanksOfUtr(u) = {b}

\* One bank credit claims the UTR and the nets of its lines add up to it.
Evidence(b, u) == BanksOfUtr(u) = {b} /\ SumOfNets(LinesOfUtr(u)) = batch.credit[b]

T2Match(u) ==
    /\ tier = "T2"
    /\ Takes(u)
    /\ \E b \in Banks :
        /\ Evidence(b, u)
        /\ Attach(b, LinesOfUtr(u), <<"T2", u>>, "T2")
    /\ UNCHANGED <<batch, tier, home, pool, refused>>

\* Mutant: the bank credits are recorded where the UTR belongs.
Mut_RefusesBanks(u) ==
    /\ tier = "T2"
    /\ Takes(u)
    /\ Cardinality(BanksOfUtr(u)) # 1
    /\ refused' = refused \cup {<<"utr", b>> : b \in BanksOfUtr(u)}
    /\ UNCHANGED <<batch, tier, members, amount, live, grade, home, pool, tie>>

\* Two bank credits claim the UTR.
T2Refuse(u) ==
    /\ tier = "T2"
    /\ Takes(u)
    /\ Cardinality(BanksOfUtr(u)) # 1
    /\ refused' = refused \cup {<<"utr", u>>}
    /\ UNCHANGED <<batch, tier, members, amount, live, grade, home, pool, tie>>

\* The lines do not add up to the credit.
T2Decline(u) ==
    /\ tier = "T2"
    /\ Takes(u)
    /\ Cardinality(BanksOfUtr(u)) = 1
    /\ \A b \in Banks : ~ Evidence(b, u)
    /\ UNCHANGED <<batch, tier, members, amount, live, grade, home, pool, tie, refused>>

\* groups_with_bank_tie
Tied == {g \in live : BanksIn(g) # {}}

\* T3 is offered the lines and the banks that no group with a bank ties.
StartT3 ==
    /\ tier = "T2" /\ todo = {}
    /\ tier' = "T3"
    /\ todo' = Banks \ UNION {BanksIn(g) : g \in Tied}
    /\ pool' = Lines \ UNION {LinesIn(g) : g \in Tied}
    /\ home' = Snapshot
    /\ UNCHANGED <<batch, members, amount, live, grade, tie, refused>>

----------------------------------------------------------------------------
\* T3: bounded subset sums within a date window (match_t3)

InWindow(b) ==
    {l \in pool : /\ batch.valueDate[b] - WindowDays <= batch.settledOn[l]
                  /\ batch.settledOn[l] <= batch.valueDate[b]}

Earlier(l, m) ==
    \/ batch.settledOn[l] < batch.settledOn[m]
    \/ batch.settledOn[l] = batch.settledOn[m] /\ l < m

\* The first MaxCandidates of the lines in the window.
Candidates(b) ==
    {l \in InWindow(b) :
        Cardinality({m \in InWindow(b) : Earlier(m, l)}) < MaxCandidates}

Combos(S) == {c \in SUBSET S : c # {} /\ Cardinality(c) <= MaxSize}

Solutions(b) == {c \in Combos(Candidates(b)) : SumOfNets(c) = batch.credit[b]}

\* combinations() by size, then lexicographically in candidate order.
Examined(c, d) ==
    \/ Cardinality(c) < Cardinality(d)
    \/ /\ Cardinality(c) = Cardinality(d)
       /\ \E l \in c \ d : \A m \in d \ c : Earlier(l, m)

\* How many combinations the search has looked at when it reaches c.
Position(b, c) ==
    1 + Cardinality({d \in Combos(Candidates(b)) : Examined(d, c)})

\* Mutant: the first solution is taken.
Mut_FirstSolution(b) == FALSE

\* Two solutions are found within the budget: the search stops there.
Ambiguous(b) ==
    \E c, d \in Solutions(b) :
        Position(b, c) < Position(b, d) /\ Position(b, d) <= batch.budget

Exceeded(b) ==
    ~ Ambiguous(b) /\ Cardinality(Combos(Candidates(b))) > batch.budget

TakesBank(b) ==
    /\ tier = "T3"
    /\ b \in todo
    /\ \A c \in todo \ {b} :
        \/ batch.valueDate[b] < batch.valueDate[c]
        \/ batch.valueDate[b] = batch.valueDate[c] /\ b < c
    /\ todo' = todo \ {b}

\* Mutant: used_line_ids is not kept.
Mut_ReusesLines(chosen) == pool

\* The lines left for the banks that follow: used_line_ids grows.
Remaining(chosen) == pool \ chosen

T3Match(b) ==
    /\ TakesBank(b)
    /\ ~ Ambiguous(b) /\ ~ Exceeded(b)
    /\ \E chosen \in Solutions(b) :
        /\ Attach(b, chosen, <<"T3", b>>, "T3")
        /\ pool' = Remaining(chosen)
    /\ UNCHANGED <<batch, tier, home, refused>>

\* More than one subset adds up to the credit.
T3Refuse(b) ==
    /\ TakesBank(b)
    /\ Ambiguous(b)
    /\ refused' = refused \cup {<<"bank", b>>}
    /\ UNCHANGED <<batch, tier, members, amount, live, grade, home, pool, tie>>

\* The budget runs out, or no subset adds up.
T3Skip(b) ==
    /\ TakesBank(b)
    /\ ~ Ambiguous(b)
    /\ Exceeded(b) \/ Solutions(b) = {}
    /\ UNCHANGED <<batch, tier, members, amount, live, grade, home, pool, tie, refused>>

Finish ==
    /\ tier = "T3" /\ todo = {}
    /\ tier' = "done"
    /\ UNCHANGED <<batch, todo, members, amount, live, grade, home, pool, tie, refused>>

\* The cascade has returned; nothing more happens to its result.
Returned == tier = "done" /\ UNCHANGED vars

Next ==
    \/ \E p \in PayIds : T1Match(p) \/ T1Refuse(p)
    \/ StartT2
    \/ \E u \in Utrs : T2Match(u) \/ T2Refuse(u) \/ T2Decline(u)
    \/ StartT3
    \/ \E b \in Banks : T3Match(b) \/ T3Refuse(b) \/ T3Skip(b)
    \/ Finish
    \/ Returned

Spec == Init /\ [][Next]_vars

----------------------------------------------------------------------------
(***************************************************************************)
(* Properties                                                              *)
(***************************************************************************)

\* Every variable has its type: the type invariant of the cascade.
TypeOK ==
    /\ batch \in BatchType
    /\ tier \in {"T1", "T2", "T3", "done"}
    /\ todo \subseteq PayIds \cup Utrs \cup Banks
    /\ members \in [Groups -> SUBSET Entities]
    /\ amount \in [Groups -> [Entities -> Int]]
    /\ live \subseteq Groups
    /\ grade \in [Groups -> {"none", "T1", "T2", "T3"}]
    /\ home \in [Lines -> Groups \cup {NoGroup}]
    /\ pool \subseteq Lines
    /\ tie \in [Banks -> SUBSET Lines]
    /\ refused \subseteq
          {<<"pid", p>> : p \in PayIds} \cup {<<"utr", u>> : u \in Utrs}
            \cup {<<"bank", b>> : b \in Banks}

\* l and m are parts of one payment.
OnePayment(l, m) == batch.linePid[l] = batch.linePid[m] /\ batch.linePid[l] # NoKey

\* The parts of a payment bear one UTR, and no credit is matched with some of
\* them only.  So it is where every payment has one line.
Uniform == \A l, m \in Lines : OnePayment(l, m) => batch.lineUtr[l] = batch.lineUtr[m]
Together == \A b \in Banks : \A l \in tie[b], m \in Lines : OnePayment(l, m) => m \in tie[b]
Undivided == Uniform /\ Together

\* No entity is a member of two groups of the result: the merges of T2 and T3
\* must leave behind no second copy of what they move (constraint C5).
NoSharedMember ==
    \A g, h \in live : g # h => members[g] \cap members[h] = {}

\* In a group with a bank credit the amounts allocated to its lines add up to
\* the amounts allocated to its banks: every line was upserted from gross to
\* net by the time the bank joined (trg_allocation_balances refuses others).
GroupsBalance ==
    \A g \in live : BanksIn(g) # {} =>
        SumFunction([l \in LinesIn(g) |-> amount[g][l]])
            = SumFunction([b \in BanksIn(g) |-> amount[g][b]])

\* Unless a payment is divided all this holds: no entity is in two groups of
\* the result, its groups balance, and none has two bank credits, which scoring
\* relies on when it pairs the lines of a group with its bank.
WholeIsSound ==
    Undivided =>
        /\ NoSharedMember /\ GroupsBalance
        /\ \A g \in live : \A b, c \in BanksIn(g) : b = c

\* Nor does a merge lose what a tier has reported: some listed group holds each
\* bank with all the lines it was matched with, and some listed group each
\* order that T1 tied with all the lines of its payment.
TiesAreKept ==
    Undivided =>
        /\ \A b \in Banks : tie[b] # {} =>
              \E g \in live : tie[b] \cup {b} \subseteq members[g]
        /\ \A p \in PayIds : grade[<<"T1", p>>] # "none" =>
              \E g \in live : CandidateOrders(p) \cup PaymentLines(p) \subseteq members[g]

\* A settlement line backs one bank credit of the result only, over T2 and T3
\* together.
LineBacksOneBank ==
    \A b, c \in UNION {BanksIn(g) : g \in live} : b # c => tie[b] \cap tie[c] = {}

\* Wherever in the result a bank credit ended up, the lines that justify it are
\* beside it, and their nets add up to its credit exactly.
EvidenceTogether ==
    \A g \in live : \A b \in BanksIn(g) :
        /\ tie[b] # {} /\ tie[b] \subseteq members[g]
        /\ SumOfNets(tie[b]) = batch.credit[b]

\* A group that holds a bank credit whose UTR does not account for it bears
\* the label of the inference: T3 never looks like T1 or T2.
InferenceMarked ==
    \A g \in live : \A b \in BanksIn(g) :
        (~ \E u \in Utrs : LinesOfUtr(u) # {} /\ Evidence(b, u)) => grade[g] = "T3"

\* The step in which T3 matches bank b.
Infers(b) == tier = "T3" /\ tie'[b] # tie[b]

\* What the caps keep out of the search: a set of too many lines, or with a line
\* that has MaxCandidates lines of the window before it.
BeyondCaps(b, c) ==
    \/ Cardinality(c) > MaxSize
    \/ \E l \in c : Cardinality({m \in InWindow(b) : Earlier(m, l)}) >= MaxCandidates

\* Any other set of free lines of the window that adds up to the credit of a
\* match is beyond a cap: what the budget cuts off leads to a refusal, what the
\* candidate cap and the size cap cut off does not.
T3MatchIsUnique ==
    [][\A b \in Banks : Infers(b) =>
        \A c \in SUBSET InWindow(b) :
            c # {} /\ SumOfNets(c) = batch.credit[b] => c = tie'[b] \/ BeyondCaps(b, c)]_vars

\* t3_allocation.py:8-9, "If more than one subset achieves the target sum, or
\* the search space exceeds the bounded caps, T3 refuses rather than guesses":
\* no set of free lines of the window adds up to the credit but the matched one.
RefusesRatherThanGuesses ==
    [][\A b \in Banks : Infers(b) =>
        \A c \in SUBSET InWindow(b) :
            c # {} /\ SumOfNets(c) = batch.credit[b] => c = tie'[b]]_vars

=============================================================================
