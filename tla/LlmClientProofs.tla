-------------------------- MODULE LlmClientProofs --------------------------
(***************************************************************************)
(* Proofs about the LLM client and its cache: for any callers and modes,   *)
(* any number of items, replies and attempts.                              *)
(***************************************************************************)
EXTENDS LlmClient, FiniteSetTheorems, WellFoundedInduction, TLAPS

\* A finite set of numbers has a least one: one with nothing below it.
LEMMA LeastExists ==
    ASSUME NEW S, IsFiniteSet(S), S # {}
    PROVE  S \subseteq Nat => \E x \in S : \A y \in S : x <= y
<1>. SUFFICES ASSUME S \subseteq Nat PROVE \E x \in S : \A y \in S : x <= y
  OBVIOUS
<1>. DEFINE Beyond(x) == {y \in S : y < x}
            T == {Beyond(x) : x \in S}
            L == StrictSubsetOrdering(S)
<1>1. IsWellFoundedOn(L, SUBSET S)
  BY FS_StrictSubsetOrderingWellFounded, FS_FiniteSubsetsOfFinite
<1>2. T \subseteq SUBSET S /\ T # {}
  <2>1. PICK x \in S : TRUE
    OBVIOUS
  <2>2. Beyond(x) \in T
    BY <2>1
  <2>3. \A n \in T : n \subseteq S
    <3>1. \A z \in S : Beyond(z) \subseteq S
      OBVIOUS
    <3>. HIDE DEF Beyond
    <3>. QED
      BY <3>1
  <2>. QED
    BY <2>2, <2>3
<1>3. PICK m \in T : \A n \in T : <<n, m>> \notin L
  <2>. HIDE DEF T, L
  <2>. QED
    BY <1>1, <1>2, WFMin
<1>4. PICK x \in S : m = Beyond(x)
  BY <1>3
<1>5. ASSUME NEW y \in Beyond(x) PROVE FALSE
  <2>1. y \in S /\ y \in Nat /\ x \in Nat /\ y < x
    OBVIOUS
  <2>2. \A z \in S : z \in Nat
    OBVIOUS
  <2>3. Beyond(y) \subseteq Beyond(x) /\ y \notin Beyond(y)
    <3>1. ASSUME NEW z \in S, z < y PROVE z < x
      BY <2>1, <2>2, <3>1
    <3>2. ~ (y < y)
      BY <2>1
    <3>. QED
      BY <3>1, <3>2
  <2>4. <<Beyond(y), Beyond(x)>> \in L
    BY <2>1, <2>3 DEF StrictSubsetOrdering
  <2>. QED
    BY <1>3, <1>4, <2>1, <2>4
<1>6. ASSUME NEW y \in S PROVE x <= y
  <2>1. x \in Nat /\ y \in Nat /\ ~ (y < x)
    BY <1>5
  <2>. QED
    BY <2>1
<1>. QED
  BY <1>6

(***************************************************************************)
(* The invariant.                                                          *)
(***************************************************************************)

\* What a caller that has asked for something is about.
Asks(c) == step[c] \in {"start", "write"}

Prompted == \A c \in Callers : Asks(c) => Prompt(c) \in Prompts

\* What is cached, held by a caller or kept was given by a provider.
Given ==
    /\ \A e \in accepted : e[2] \in RepliesTo(e[1])
    /\ \A p \in Prompts : cache[p] \in Replies => <<p, cache[p]>> \in accepted
    /\ \A c \in Callers : step[c] = "write" => <<Prompt(c), reply[c]>> \in accepted

\* A loop has results behind it only.
Ahead ==
    \A c \in Callers, j \in Items : step[c] # "stopped" =>
        /\ loop[c][1] = "triage" => told[c][j] = Nothing
        /\ loop[c][1] = "triage" /\ j >= loop[c][2] => kept[c][j] = Nothing
        /\ loop[c][1] = "explain" /\ j >= loop[c][2] => told[c][j] = Nothing

\* What a caller's step says of it.
Staged ==
    \A c \in Callers :
        /\ step[c] = "idle" => loop[c] = <<"triage", 1>> /\ past[c] = {}
        /\ step[c] = "stopped" <=> end[c] # "open"
        /\ step[c] = "write" => mode[c] = "live"
        /\ c \in spoilt => /\ step[c] = "write"
                           /\ \E d \in Callers \ {c} : mode[d] = "live" /\ step[d] # "idle"
        /\ \A d \in past[c] : step[d] = "stopped"

\* What explains an entry that is torn.
Blame ==
    \/ \E d \in Callers : end[d] = "killed"
    \/ \E d, e \in Callers : mode[d] = "live" /\ Overlap(d, e)

Torn ==
    /\ spoilt # {} => Blame
    /\ \A p \in Prompts : cache[p] = "torn" =>
          Blame \/ \E d \in Callers : step[d] = "write" /\ Prompt(d) = p

\* The items a caller has dealt with, in either loop.
Triaged(c) ==
    {j \in Items : \/ end[c] = "whole"
                   \/ step[c] # "stopped" /\ (loop[c][1] = "explain" \/ j < loop[c][2])}
Explained(c) ==
    {j \in Items : \/ end[c] = "whole"
                   \/ step[c] # "stopped" /\ loop[c][1] = "explain" /\ j < loop[c][2]}

\* No other live caller has begun.
AloneLive(d) ==
    mode[d] = "live" /\ \A e \in Callers \ {d} : mode[e] = "live" => step[e] = "idle"

\* The items a caller has dealt with that share the prompt p.
TriagedWith(d, p) == {k \in Triaged(d) : TriagePrompt(k) = p}
ExplainedWith(d, p) == {k \in Explained(d) : ExplainPrompt(k, kept[d][k]) = p}

\* d is about to write the entry of p.
Writes(d, p) == step[d] = "write" /\ Prompt(d) = p

\* The entry of p holds what d made the result of the last such item of.
TriageStored(d, p) ==
    \E k \in Items :
        /\ IsLast(k, TriagedWith(d, p))
        /\ cache[p] \in Sound \cup Stray
        /\ kept[d][k] = IF cache[p] \in Sound THEN cache[p] ELSE Nothing

ExplainStored(d, p) ==
    \E k \in Items :
        IsLast(k, ExplainedWith(d, p)) /\ cache[p] \in Prose /\ told[d][k] = cache[p]

\* The cache holds what the only live caller has made its results of.
Recorded ==
    unanswered = {} =>
        \A d \in Callers : AloneLive(d) => \A p \in Prompts :
            /\ TriagedWith(d, p) # {} => Writes(d, p) \/ TriageStored(d, p)
            /\ ExplainedWith(d, p) # {} => Writes(d, p) \/ ExplainStored(d, p)

\* A replay of d.
Follows(c, d) ==
    /\ mode[c] = "cached" /\ end[c] # "killed"
    /\ mode[d] = "live" /\ end[d] = "whole" /\ d \in past[c]
    /\ \A e \in Callers \ {c, d} : mode[e] = "live" => step[e] = "idle" \/ c \in past[e]

\* What a replay c has kept and told of an item is what d last did.
KeptAgain(c, d, i) == \E j \in Items : IsLast(j, AskedWith(i)) /\ kept[c][i] = kept[d][j]
ToldAgain(c, d, i) ==
    \E j \in Items : IsLast(j, ToldWith(d, i, kept[c][i])) /\ told[c][i] = told[d][j]

Repeated ==
    unanswered = {} =>
        \A c, d \in Callers : Follows(c, d) =>
            /\ end[c] \in {"open", "whole"}
            /\ \A i \in Triaged(c) : KeptAgain(c, d, i)
            /\ \A i \in Explained(c) : kept[c][i] # Nothing => ToldAgain(c, d, i)

Typed == TypeOK /\ Prompted /\ Given /\ Ahead /\ Staged /\ AnswersAreVouched

(***************************************************************************)
(* The steps of a caller.                                                  *)
(***************************************************************************)

Act(c) ==
    \/ Begin(c) \/ Disabled(c)
    \/ Miss(c) \/ Hit(c) \/ HitTorn(c)
    \/ Answer(c) \/ Store(c) \/ AskAgain(c) \/ GiveUp(c) \/ Unavailable(c)
    \/ Die(c)

\* A caller that another one's step leaves alone.
Stays(d) ==
    /\ step'[d] = step[d] /\ loop'[d] = loop[d] /\ end'[d] = end[d]
    /\ attempts'[d] = attempts[d] /\ reply'[d] = reply[d]
    /\ kept'[d] = kept[d] /\ told'[d] = told[d] /\ past'[d] = past[d]

\* The item a caller is at.
At(c) == loop[c][2]

\* A loop goes on, with at most the result of its item new, one that was given
\* to its prompt.
Goes(c) ==
    /\ kept' \in [Callers -> [Items -> Replies \cup {Nothing}]]
    /\ told' \in [Callers -> [Items -> Replies \cup {Nothing}]]
    /\ \A j \in Items \ {At(c)} : kept'[c][j] = kept[c][j] /\ told'[c][j] = told[c][j]
    /\ \A d \in Callers \ {c} : kept'[d] = kept[d] /\ told'[d] = told[d]
    /\ loop[c][1] = "triage" =>
          /\ told' = told
          /\ \/ kept'[c][At(c)] = Nothing
             \/ /\ kept'[c][At(c)] \in Sound
                /\ <<Prompt(c), kept'[c][At(c)]>> \in accepted
    /\ loop[c][1] = "explain" =>
          /\ kept' = kept
          /\ told'[c][At(c)] \in Prose /\ <<Prompt(c), told'[c][At(c)]>> \in accepted
    /\ Proceed(c, kept'[c])

\* It stops with the results it has.
Halts(c) ==
    /\ \E how \in {"degraded", "dead", "killed"} : Stops(c, how)
    /\ kept' = kept /\ told' = told

\* Prompts are of the texts there are, and tell the loops and the proposals apart.
LEMMA PromptFacts ==
    ASSUME TypeOK
    PROVE  /\ \A i \in Items : TriagePrompt(i) \in Prompts /\ TriagePrompt(i)[1] = "triage"
           /\ \A i \in Items, h \in Sound : ExplainPrompt(i, h) \in Prompts
           /\ \A i \in Items : \A h : ExplainPrompt(i, h)[1] = "explain"
           /\ \A i \in Items : \A h : ExplainPrompt(i, h) \in Prompts => h \in Sound
           /\ \A i, j \in Items : TriagePrompt(i) = TriagePrompt(j) =>
                 \A h : ExplainPrompt(i, h) = ExplainPrompt(j, h)
           /\ \A i, j \in Items : \A g, h : ExplainPrompt(i, g) = ExplainPrompt(j, h) => g = h
           /\ \A i, j \in Items : \A g, h : TriagePrompt(i) # ExplainPrompt(j, h)
           /\ \A c \in Callers :
                 Prompt(c) = IF loop[c][1] = "triage" THEN TriagePrompt(At(c))
                             ELSE ExplainPrompt(At(c), kept[c][At(c)])
<1>. /\ says \in [triage : [Items -> Texts], explain : [Items -> Texts]]
     /\ \A i, j \in Items : says.triage[i] = says.triage[j] => says.explain[i] = says.explain[j]
  BY TellingAssumption DEF TypeOK
<1>. QED
  BY DEF TriagePrompt, ExplainPrompt, Prompt, Prompts, At

LEMMA ReplyFacts ==
    /\ Nothing \notin Replies /\ "torn" \notin Replies /\ Nothing # "torn"
    /\ Sound \subseteq Replies /\ Nothing \notin Sound /\ Sound \cap Stray = {}
    /\ Items \subseteq Nat /\ 1 \in Items
    /\ Prose \subseteq Replies /\ Prose \cap Sound = {}
  <1>1. Items \subseteq Nat /\ 1 \in Items
    <2>1. Cardinality(Items) \in Nat
      BY ItemsAssumption, FS_CardinalityType
    <2>. QED
      BY <2>1, ItemsAssumption
  <1>. QED
    BY <1>1, ReplyAssumption DEF Nothing, Replies

\* Among items still to be dealt with there is a first one.
LEMMA FirstTodo ==
    ASSUME NEW T, T # {}, NEW k, T \subseteq {k} \X Items
    PROVE  \E t \in T : \A u \in T : t[2] <= u[2]
<1>. DEFINE S == {i \in Items : <<k, i>> \in T}
<1>1. S # {} /\ S \subseteq Nat
  <2>1. PICK u \in T : TRUE
    OBVIOUS
  <2>2. u = <<k, u[2]>> /\ u[2] \in Items
    OBVIOUS
  <2>3. u[2] \in S
    BY <2>2
  <2>. QED
    BY <2>3, ReplyFacts
<1>2. IsFiniteSet(S)
  BY ItemsAssumption, FS_Subset
<1>3. PICK i \in S : \A j \in S : i <= j
  <2>. HIDE DEF S
  <2>. QED
    BY <1>1, <1>2, LeastExists
<1>4. <<k, i>> \in T
  BY <1>3
<1>5. ASSUME NEW u \in T PROVE i <= u[2]
  <2>1. u = <<k, u[2]>> /\ u[2] \in Items
    OBVIOUS
  <2>. QED
    BY <1>3, <2>1
<1>. QED
  BY <1>4, <1>5

\* What is left is of the later items, or of those to be explained.
LEMMA TodoMembers ==
    ASSUME NEW c \in Callers, NEW h
    PROVE  /\ \A i \in Items :
                 loop[c][1] = "triage" /\ i > At(c) => <<"triage", i>> \in Todo(c, h)
           /\ \A i \in Items : h[i] # Nothing =>
                 \/ <<"explain", i>> \in Todo(c, h)
                 \/ loop[c][1] = "triage" /\ \E j \in Items : j > At(c)
                 \/ loop[c][1] # "triage" /\ ~ (i > At(c))
<1>. DEFINE L == Later(c)
            X == {i \in Items : h[i] # Nothing}
<1>1. Todo(c, h) = IF loop[c][1] = "triage"
                   THEN IF L # {} THEN {"triage"} \X L ELSE {"explain"} \X X
                   ELSE {"explain"} \X (X \cap L)
  BY DEF Todo
<1>2. \A i \in Items : i \in L <=> i > At(c)
  BY DEF Later, At
<1>3. L \subseteq Items
  BY DEF Later
<1>4. \A i \in Items : i \in X <=> h[i] # Nothing
  OBVIOUS
<1>. HIDE DEF L, X
<1>5. CASE loop[c][1] = "triage" /\ L # {}
  <2>1. Todo(c, h) = {"triage"} \X L
    BY <1>1, <1>5
  <2>2. \A i \in L : <<"triage", i>> \in Todo(c, h)
    BY <2>1
  <2>. QED
    BY <1>2, <1>3, <1>5, <2>2
<1>6. CASE loop[c][1] = "triage" /\ L = {}
  <2>1. Todo(c, h) = {"explain"} \X X
    BY <1>1, <1>6
  <2>2. \A i \in X : <<"explain", i>> \in Todo(c, h)
    BY <2>1
  <2>. QED
    BY <1>2, <1>4, <1>6, <2>2
<1>7. CASE loop[c][1] # "triage"
  <2>1. Todo(c, h) = {"explain"} \X (X \cap L)
    BY <1>1, <1>7
  <2>2. \A i \in X \cap L : <<"explain", i>> \in Todo(c, h)
    BY <2>1
  <2>. QED
    BY <1>2, <1>4, <1>7, <2>2
<1>. QED
  BY <1>5, <1>6, <1>7

LEMMA TodoShape ==
    ASSUME TypeOK, NEW c \in Callers, NEW h
    PROVE  \E k \in {"triage", "explain"} :
               /\ Todo(c, h) \subseteq {k} \X Items
               /\ k = "triage" => loop[c][1] = "triage"
  BY DEF Todo, Later, TypeOK

\* Where a loop goes: to the first item of what is left, or it ends whole.
LEMMA Proceeds ==
    ASSUME TypeOK, NEW c \in Callers, NEW h, Proceed(c, h)
    PROVE  /\ \/ Todo(c, h) = {} /\ Stops(c, "whole")
              \/ \E t \in Todo(c, h) :
                    /\ \A u \in Todo(c, h) : t[2] <= u[2]
                    /\ t \in {"triage", "explain"} \X Items
                    /\ loop' = [loop EXCEPT ![c] = t]
                    /\ Goto(c, "start") /\ end' = end /\ Forget(c)
<1>1. CASE Todo(c, h) = {}
  BY <1>1 DEF Proceed
<1>2. CASE Todo(c, h) # {}
  <2>. DEFINE T == Todo(c, h)
              t == CHOOSE t \in T : \A u \in T : t[2] <= u[2]
  <2>1. PICK k \in {"triage", "explain"} : T \subseteq {k} \X Items
    BY TodoShape
  <2>2. T # {}
    BY <1>2
  <2>3. loop' = [loop EXCEPT ![c] = t] /\ Goto(c, "start") /\ end' = end /\ Forget(c)
    BY <1>2 DEF Proceed
  <2>. HIDE DEF T
  <2>4. \E v \in T : \A u \in T : v[2] <= u[2]
    BY <2>1, <2>2, FirstTodo
  <2>5. t \in T /\ \A u \in T : t[2] <= u[2]
    BY <2>4
  <2>6. t \in {"triage", "explain"} \X Items
    BY <2>1, <2>5
  <2>. HIDE DEF t
  <2>. QED
    BY <2>3, <2>5, <2>6 DEF T
<1>. QED
  BY <1>1, <1>2

\* What a loop that goes on has passed over: its item, and what it need not
\* explain.
LEMMA Passes ==
    ASSUME TypeOK, NEW c \in Callers, Asks(c), end[c] = "open", Goes(c)
    PROVE  /\ step'[c] \in {"start", "stopped"}
           /\ end'[c] = IF step'[c] = "start" THEN "open" ELSE "whole"
           /\ Triaged(c)' \subseteq Triaged(c) \cup {At(c)}
           /\ \A j \in Explained(c)' :
                 \/ j \in Explained(c) \/ kept'[c][j] = Nothing
                 \/ j = At(c) /\ loop[c][1] = "explain"
           /\ step'[c] = "start" =>
                 /\ loop'[c][1] = "triage" => loop[c][1] = "triage" /\ At(c) < loop'[c][2]
                 /\ loop'[c][1] = "explain" => kept'[c][loop'[c][2]] # Nothing
                 /\ loop[c][1] = "explain" => At(c) < loop'[c][2]
<1>. DEFINE h == kept'[c]
<1>1. Proceed(c, h) /\ step[c] # "stopped"
  BY DEF Goes, Asks
<1>2. /\ loop[c] \in {"triage", "explain"} \X Items /\ At(c) \in Items
      /\ step \in [Callers -> {"idle", "start", "write", "stopped"}]
      /\ loop \in [Callers -> {"triage", "explain"} \X Items]
      /\ end \in [Callers -> Ends]
  BY DEF TypeOK, At
<1>3. Items \subseteq Nat
  BY ReplyFacts
<1>4. CASE Todo(c, h) = {} /\ Stops(c, "whole")
  <2>1. step'[c] = "stopped" /\ end'[c] = "whole"
    BY <1>2, <1>4 DEF Stops, Goto
  <2>2. ASSUME NEW j \in Items
        PROVE  j \in Triaged(c) \cup {At(c)}
    <3>1. loop[c][1] = "triage" => ~ (j > At(c))
      BY <1>4, TodoMembers
    <3>2. j \in Nat /\ At(c) \in Nat /\ loop[c][1] \in {"triage", "explain"}
      BY <1>2, <1>3
    <3>3. loop[c][1] = "explain" \/ j < At(c) \/ j = At(c)
      BY <3>1, <3>2
    <3>. QED
      BY <1>1, <3>3 DEF Triaged, At
  <2>3. ASSUME NEW j \in Items, h[j] # Nothing
        PROVE  j \in Explained(c) \/ (j = At(c) /\ loop[c][1] = "explain")
    <3>1. loop[c][1] = "triage" => \A i \in Items : ~ (i > At(c))
      BY <1>4, TodoMembers
    <3>2. loop[c][1] = "explain" /\ ~ (j > At(c))
      BY <1>2, <1>4, <2>3, <3>1, TodoMembers
    <3>3. j \in Nat /\ At(c) \in Nat
      BY <1>2, <1>3
    <3>4. j < At(c) \/ j = At(c)
      BY <3>2, <3>3
    <3>. QED
      BY <1>1, <3>2, <3>4 DEF Explained, At
  <2>4. Triaged(c)' \subseteq Items /\ Explained(c)' \subseteq Items
    BY DEF Triaged, Explained
  <2>. QED
    BY <2>1, <2>2, <2>3, <2>4
<1>5. ASSUME NEW t \in Todo(c, h),
             \A u \in Todo(c, h) : t[2] <= u[2],
             t \in {"triage", "explain"} \X Items,
             loop' = [loop EXCEPT ![c] = t], Goto(c, "start"), end' = end
      PROVE  /\ step'[c] = "start" /\ end'[c] = "open"
             /\ Triaged(c)' \subseteq Triaged(c) \cup {At(c)}
             /\ \A j \in Explained(c)' :
                   \/ j \in Explained(c) \/ h[j] = Nothing
                   \/ j = At(c) /\ loop[c][1] = "explain"
             /\ loop'[c][1] = "triage" => loop[c][1] = "triage" /\ At(c) < loop'[c][2]
             /\ loop'[c][1] = "explain" => h[loop'[c][2]] # Nothing
             /\ loop[c][1] = "explain" => At(c) < loop'[c][2]
  <2>1. step'[c] = "start" /\ end'[c] = "open" /\ loop'[c] = t
    BY <1>2, <1>5 DEF Goto
  <2>2. t[1] = "triage" => loop[c][1] = "triage" /\ At(c) < t[2]
    BY <1>2, <1>3, <1>5 DEF Todo, Later, At
  <2>3. t[1] = "explain" => h[t[2]] # Nothing
    BY <1>2, <1>3, <1>5 DEF Todo, Later, At
  <2>4. loop[c][1] = "explain" => t[1] = "explain" /\ At(c) < t[2]
    BY <1>2, <1>3, <1>5 DEF Todo, Later, At
  <2>5. ASSUME NEW j \in Triaged(c)'
        PROVE  j \in Triaged(c) \cup {At(c)}
    <3>1. j \in Items /\ (t[1] = "explain" \/ j < t[2])
      BY <2>1, <2>5 DEF Triaged
    <3>2. CASE loop[c][1] = "explain"
      BY <1>1, <3>1, <3>2 DEF Triaged
    <3>3. CASE loop[c][1] = "triage"
      <4>1. ~ (j > At(c))
        <5>1. CASE t[1] = "explain"
          <6>1. Todo(c, h) \subseteq {"explain"} \X Items
            BY <1>5, <5>1, TodoShape
          <6>2. \A i \in Items : <<"triage", i>> \notin Todo(c, h)
            BY <6>1
          <6>. QED
            BY <3>1, <3>3, <6>2, TodoMembers
        <5>2. CASE t[1] = "triage"
          <6>1. ASSUME j > At(c) PROVE FALSE
            <7>1. <<"triage", j>> \in Todo(c, h)
              BY <3>1, <3>3, <6>1, TodoMembers
            <7>2. t[2] <= j
              BY <7>1, <1>5
            <7>3. t[2] \in Nat /\ j \in Nat
              BY <1>3, <1>5, <3>1
            <7>. QED
              BY <3>1, <5>2, <7>2, <7>3
          <6>. QED
            BY <6>1
        <5>. QED
          BY <5>1, <5>2, <1>5
      <4>2. j \in Nat /\ At(c) \in Nat
        BY <1>2, <1>3, <3>1
      <4>3. j < At(c) \/ j = At(c)
        BY <4>1, <4>2
      <4>. QED
        BY <1>1, <3>1, <3>3, <4>3 DEF Triaged, At
    <3>. QED
      BY <1>2, <3>2, <3>3
  <2>6. ASSUME NEW j \in Explained(c)', h[j] # Nothing
        PROVE  j \in Explained(c) \/ (j = At(c) /\ loop[c][1] = "explain")
    <3>1. j \in Items /\ t[1] = "explain" /\ j < t[2]
      BY <2>1, <2>6 DEF Explained
    <3>2. <<"explain", j>> \notin Todo(c, h)
      <4>1. j \in Nat /\ t[2] \in Nat
        BY <1>3, <1>5, <3>1
      <4>. QED
        BY <1>5, <3>1, <4>1
    <3>3. loop[c][1] = "explain" /\ ~ (j > At(c))
      <4>1. Todo(c, h) \subseteq {"explain"} \X Items
        BY <1>5, <3>1, TodoShape
      <4>2. \A i \in Items : <<"triage", i>> \notin Todo(c, h)
        BY <4>1
      <4>3. loop[c][1] = "triage" => \A i \in Items : ~ (i > At(c))
        BY <4>2, TodoMembers
      <4>. QED
        BY <1>2, <2>6, <3>1, <3>2, <4>3, TodoMembers
    <3>4. j \in Nat /\ At(c) \in Nat
      BY <1>2, <1>3, <3>1
    <3>5. j < At(c) \/ j = At(c)
      BY <3>3, <3>4
    <3>. QED
      BY <1>1, <3>1, <3>3, <3>5 DEF Explained, At
  <2>. QED
    BY <2>1, <2>2, <2>3, <2>4, <2>5, <2>6
<1>. QED
  <2>1. CASE \E t \in Todo(c, h) :
                /\ \A u \in Todo(c, h) : t[2] <= u[2]
                /\ t \in {"triage", "explain"} \X Items
                /\ loop' = [loop EXCEPT ![c] = t]
                /\ Goto(c, "start") /\ end' = end /\ Forget(c)
    <3>1. PICK t \in Todo(c, h) :
                /\ \A u \in Todo(c, h) : t[2] <= u[2]
                /\ t \in {"triage", "explain"} \X Items
                /\ loop' = [loop EXCEPT ![c] = t]
                /\ Goto(c, "start") /\ end' = end
      BY <2>1
    <3>. QED
      BY <1>5, <3>1
  <2>2. \/ Todo(c, h) = {} /\ Stops(c, "whole")
        \/ \E t \in Todo(c, h) :
                /\ \A u \in Todo(c, h) : t[2] <= u[2]
                /\ t \in {"triage", "explain"} \X Items
                /\ loop' = [loop EXCEPT ![c] = t]
                /\ Goto(c, "start") /\ end' = end /\ Forget(c)
    BY <1>1, Proceeds
  <2>. QED
    BY <1>4, <2>1, <2>2

\* The modes never change, and a step of one caller leaves the others alone.
LEMMA OthersStay ==
    ASSUME TypeOK, NEW c \in Callers, Act(c)
    PROVE  /\ mode' = mode /\ says' = says
           /\ \A d \in Callers \ {c} : Stays(d)
<1>. USE DEF Stays, Goto, Forget, Stops, history, fixed, results, caller
<1>1. ASSUME NEW how, Stops(c, how), kept' = kept, told' = told, past' = past
      PROVE  \A d \in Callers \ {c} : Stays(d)
  BY <1>1 DEF TypeOK
<1>2. ASSUME NEW h, Proceed(c, h), past' = past,
             \A d \in Callers \ {c} : kept'[d] = kept[d] /\ told'[d] = told[d]
      PROVE  \A d \in Callers \ {c} : Stays(d)
  BY <1>2 DEF TypeOK, Proceed
<1>3. ASSUME Rejects(c), past' = past
      PROVE  \A d \in Callers \ {c} : Stays(d)
  BY <1>1, <1>2, <1>3 DEF Rejects
<1>4. ASSUME NEW r, Receives(c, r), past' = past
      PROVE  \A d \in Callers \ {c} : Stays(d)
  <2>1. CASE Rejects(c)
    BY <1>3, <1>4, <2>1
  <2>2. CASE kept' = [kept EXCEPT ![c][At(c)] = r] /\ told' = told
             /\ Proceed(c, [kept[c] EXCEPT ![At(c)] = r])
    <3>1. \A d \in Callers \ {c} : kept'[d] = kept[d] /\ told'[d] = told[d]
      BY <2>2 DEF TypeOK
    <3>. QED
      BY <1>2, <1>4, <2>2, <3>1
  <2>3. CASE told' = [told EXCEPT ![c][At(c)] = r] /\ kept' = kept /\ Proceed(c, kept[c])
    <3>1. \A d \in Callers \ {c} : kept'[d] = kept[d] /\ told'[d] = told[d]
      BY <2>3 DEF TypeOK
    <3>. QED
      BY <1>2, <1>4, <2>3, <3>1
  <2>. QED
    BY <1>4, <2>1, <2>2, <2>3 DEF Receives, At
<1>5. CASE Begin(c)
  BY <1>5 DEF Begin, TypeOK
<1>6. CASE Disabled(c) \/ Miss(c) \/ HitTorn(c) \/ Unavailable(c) \/ Die(c)
  BY <1>1, <1>6 DEF Disabled, Miss, HitTorn, Unavailable, Die
<1>7. CASE Hit(c)
  BY <1>4, <1>7 DEF Hit
<1>8. CASE Answer(c)
  BY <1>8 DEF Answer, TypeOK
<1>9. CASE Store(c)
  BY <1>4, <1>9 DEF Store
<1>10. CASE AskAgain(c)
  BY <1>10 DEF AskAgain, TypeOK
<1>11. CASE GiveUp(c)
  BY <1>3, <1>11 DEF GiveUp
<1>. QED
  BY <1>5, <1>6, <1>7, <1>8, <1>9, <1>10, <1>11 DEF Act, Begin, Disabled, Miss, Hit,
     HitTorn, Answer, Store, AskAgain, GiveUp, Unavailable, Die

\* A reply in the schema is kept, or passed over for what it cites.
LEMMA Received ==
    ASSUME TypeOK, Ahead, NEW c \in Callers, step[c] # "stopped",
           NEW r \in RepliesTo(Prompt(c)), Receives(c, r), <<Prompt(c), r>> \in accepted
    PROVE  /\ Goes(c)
           /\ loop[c][1] = "triage" =>
                 kept'[c][At(c)] = IF r \in Sound THEN r ELSE Nothing
           /\ loop[c][1] = "explain" => told'[c][At(c)] = r /\ r \in Prose
<1>1. /\ loop[c] \in {"triage", "explain"} \X Items /\ At(c) \in Items
      /\ kept \in [Callers -> [Items -> Replies \cup {Nothing}]]
      /\ told \in [Callers -> [Items -> Replies \cup {Nothing}]]
  BY DEF TypeOK, At
<1>2. r \in Replies
  BY DEF RepliesTo, Replies
<1>3. CASE loop[c][1] = "triage" /\ r \in Stray
  <2>1. kept' = kept /\ told' = told /\ Proceed(c, kept[c])
    BY <1>3 DEF Receives, Trusted, Rejects
  <2>2. kept[c][At(c)] = Nothing
    <3>1. At(c) >= loop[c][2]
      <4>1. At(c) \in Nat /\ At(c) = loop[c][2]
        BY <1>1, ReplyFacts DEF At
      <4>. QED
        BY <4>1
    <3>. QED
      BY <1>1, <1>3, <3>1 DEF Ahead
  <2>. QED
    BY <1>1, <1>3, <2>1, <2>2, ReplyFacts DEF Goes
<1>4. CASE loop[c][1] = "triage" /\ r \notin Stray
  <2>1. /\ kept' = [kept EXCEPT ![c][At(c)] = r] /\ told' = told
        /\ Proceed(c, [kept[c] EXCEPT ![At(c)] = r])
    BY <1>4 DEF Receives, Trusted, At
  <2>2. r \in Sound
    BY <1>4 DEF RepliesTo, Prompt, TriagePrompt, ExplainPrompt
  <2>3. kept'[c] = [kept[c] EXCEPT ![At(c)] = r]
    BY <1>1, <2>1
  <2>4. kept' \in [Callers -> [Items -> Replies \cup {Nothing}]]
    BY <1>1, <1>2, <2>1
  <2>5. /\ \A j \in Items \ {At(c)} : kept'[c][j] = kept[c][j]
        /\ \A d \in Callers \ {c} : kept'[d] = kept[d]
        /\ kept'[c][At(c)] = r
    BY <1>1, <2>1
  <2>6. Proceed(c, kept'[c])
    BY <2>1, <2>3
  <2>. QED
    BY <1>1, <1>4, <2>1, <2>2, <2>4, <2>5, <2>6 DEF Goes
<1>5. CASE loop[c][1] = "explain"
  <2>1. /\ told' = [told EXCEPT ![c][At(c)] = r] /\ kept' = kept
        /\ Proceed(c, kept[c])
    BY <1>5 DEF Receives, Trusted, At
  <2>2. r \in Prose
    BY <1>5 DEF RepliesTo, Prompt, TriagePrompt, ExplainPrompt
  <2>4. told' \in [Callers -> [Items -> Replies \cup {Nothing}]]
    BY <1>1, <1>2, <2>1
  <2>5. /\ \A j \in Items \ {At(c)} : told'[c][j] = told[c][j]
        /\ \A d \in Callers \ {c} : told'[d] = told[d]
        /\ told'[c][At(c)] = r
    BY <1>1, <2>1
  <2>. QED
    BY <1>1, <1>5, <2>1, <2>2, <2>4, <2>5 DEF Goes
<1>. QED
  BY <1>1, <1>3, <1>4, <1>5

LEMMA HitReceives ==
    ASSUME Typed, NEW c \in Callers, Hit(c)
    PROVE  /\ Goes(c) /\ cache[Prompt(c)] \in RepliesTo(Prompt(c))
           /\ loop[c][1] = "triage" =>
                 kept'[c][At(c)] = IF cache[Prompt(c)] \in Sound THEN cache[Prompt(c)] ELSE Nothing
           /\ loop[c][1] = "explain" =>
                 told'[c][At(c)] = cache[Prompt(c)] /\ cache[Prompt(c)] \in Prose
<1>1. /\ Asks(c) /\ step[c] # "stopped" /\ TypeOK /\ Ahead
      /\ cache[Prompt(c)] \in Replies /\ Receives(c, cache[Prompt(c)])
  BY DEF Hit, Asks, Typed
<1>2. <<Prompt(c), cache[Prompt(c)]>> \in accepted
  BY <1>1 DEF Typed, Prompted, Given
<1>3. cache[Prompt(c)] \in RepliesTo(Prompt(c))
  BY <1>2 DEF Typed, Given
<1>. QED
  BY <1>1, <1>2, <1>3, Received

LEMMA StoreReceives ==
    ASSUME Typed, NEW c \in Callers, Store(c)
    PROVE  /\ Goes(c) /\ reply[c] \in RepliesTo(Prompt(c))
           /\ loop[c][1] = "triage" =>
                 kept'[c][At(c)] = IF reply[c] \in Sound THEN reply[c] ELSE Nothing
           /\ loop[c][1] = "explain" => told'[c][At(c)] = reply[c] /\ reply[c] \in Prose
<1>1. /\ step[c] # "stopped" /\ TypeOK /\ Ahead
      /\ Receives(c, reply[c]) /\ <<Prompt(c), reply[c]>> \in accepted
  BY DEF Store, Typed, Given
<1>3. reply[c] \in RepliesTo(Prompt(c))
  BY <1>1 DEF Typed, Given
<1>. QED
  BY <1>1, <1>3, Received

\* What a caller does next, in the three ways a step can leave it.
LEMMA Shapes ==
    ASSUME Typed, NEW c \in Callers, Act(c)
    PROVE  \/ step[c] = "idle" /\ Begin(c)
           \/ Asks(c) /\ end[c] = "open" /\ (Goes(c) \/ Halts(c))
           \/ step[c] = "start" /\ end[c] = "open" /\ (Answer(c) \/ AskAgain(c))
<1>1. Asks(c) => end[c] = "open" /\ step[c] # "stopped"
  BY DEF Typed, Staged, Asks
<1>2. TypeOK /\ Ahead
  BY DEF Typed
<1>3. ASSUME Rejects(c), Asks(c)
      PROVE  Goes(c) \/ Halts(c)
  <2>1. /\ kept' = kept /\ told' = told
        /\ (loop[c][1] = "triage" /\ Proceed(c, kept[c])) \/ Stops(c, "dead")
    BY <1>3 DEF Rejects
  <2>2. CASE Stops(c, "dead")
    BY <2>1, <2>2 DEF Halts
  <2>3. CASE loop[c][1] = "triage" /\ Proceed(c, kept[c])
    <3>1. loop[c][2] \in Nat
      BY <1>2, ReplyFacts DEF TypeOK
    <3>2. At(c) \in Items /\ At(c) = loop[c][2] /\ At(c) >= loop[c][2]
      BY <1>2, <3>1 DEF TypeOK, At
    <3>3. kept[c][At(c)] = Nothing
      BY <1>1, <1>2, <1>3, <2>3, <3>2 DEF Ahead
    <3>. QED
      BY <1>2, <2>1, <2>3, <3>3 DEF Goes, TypeOK
  <2>. QED
    BY <2>1, <2>2, <2>3
<1>5. CASE Begin(c)
  BY <1>5 DEF Begin
<1>6. CASE Disabled(c) \/ Miss(c) \/ HitTorn(c) \/ Unavailable(c) \/ Die(c)
  BY <1>1, <1>6 DEF Disabled, Miss, HitTorn, Unavailable, Die, Halts, Asks
<1>7. CASE Hit(c)
  BY <1>1, <1>7, HitReceives DEF Hit, Asks
<1>8. CASE Answer(c) \/ AskAgain(c)
  BY <1>1, <1>8 DEF Answer, AskAgain, Asks
<1>9. CASE Store(c)
  BY <1>1, <1>9, StoreReceives DEF Store, Asks
<1>11. CASE GiveUp(c)
  BY <1>1, <1>3, <1>11 DEF GiveUp, Asks
<1>. QED
  BY <1>5, <1>6, <1>7, <1>8, <1>9, <1>11 DEF Act

(***************************************************************************)
(* The invariant is kept, part by part.                                    *)
(***************************************************************************)

LEMMA InitTyped == Init => Typed
<1>. SUFFICES ASSUME Init
              PROVE  Typed
  OBVIOUS
<1>. USE DEF Init
<1>1. TypeOK
  BY ReplyFacts, ReplyAssumption, ModeAssumption DEF TypeOK, Ends, Nothing
<1>2. \A c \in Callers : step[c] = "idle" /\ end[c] = "open" /\ past[c] = {} /\ loop[c] = <<"triage", 1>>
  OBVIOUS
<1>3. \A c \in Callers, j \in Items : kept[c][j] = Nothing /\ told[c][j] = Nothing
  OBVIOUS
<1>4. \A p \in Prompts : cache[p] = Nothing
  OBVIOUS
<1>5. accepted = {} /\ spoilt = {}
  OBVIOUS
<1>6. Prompted /\ Given /\ Ahead /\ Staged /\ AnswersAreVouched
  BY <1>2, <1>3, <1>4, <1>5, ReplyFacts
     DEF Prompted, Given, Ahead, Staged, AnswersAreVouched, Asks
<1>. QED
  BY <1>1, <1>6 DEF Typed

LEMMA NextTypeOK ==
    ASSUME Typed, NEW c \in Callers, Act(c)
    PROVE  TypeOK'
<1>. TypeOK /\ Prompted
  BY DEF Typed
<1>1. says' \in Tellings /\ \A d \in Callers : mode'[d] \in Modes[d]
  BY OthersStay DEF TypeOK
<1>2. cache' \in [Prompts -> Replies \cup {"torn", Nothing}]
  <2>1. CASE Answer(c)
    BY <2>1 DEF Answer, TypeOK
  <2>2. CASE Store(c)
    BY <2>2 DEF Store, TypeOK
  <2>. QED
    BY <2>1, <2>2 DEF Act, Begin, Disabled, Miss, Hit, HitTorn, AskAgain, GiveUp,
       Unavailable, Die, TypeOK
<1>3. spoilt' \subseteq Callers
  BY DEF Act, Begin, Disabled, Miss, Hit, HitTorn, Answer, Store, AskAgain, GiveUp,
     Unavailable, Die, TypeOK
<1>4. past' \in [Callers -> SUBSET Callers]
  BY SMTT(30) DEF Act, Begin, Disabled, Miss, Hit, HitTorn, Answer, Store, AskAgain, GiveUp,
     Unavailable, Die, TypeOK, history, fixed
<1>5. accepted' \subseteq Prompts \X Replies
  <2>1. CASE Answer(c)
    <3>1. Prompt(c) \in Prompts /\ RepliesTo(Prompt(c)) \subseteq Replies
      BY <2>1 DEF Prompted, Asks, Answer, RepliesTo, Replies
    <3>. QED
      BY <2>1, <3>1 DEF Answer, TypeOK
  <2>. QED
    BY <2>1 DEF Act, Begin, Disabled, Miss, Hit, HitTorn, Store, AskAgain, GiveUp,
       Unavailable, Die, TypeOK, history, fixed
<1>6. unanswered' \subseteq Prompts
  <2>1. CASE GiveUp(c)
    BY <2>1 DEF GiveUp, Prompted, Asks, TypeOK
  <2>. QED
    BY <2>1 DEF Act, Begin, Disabled, Miss, Hit, HitTorn, Store, Answer, AskAgain,
       Unavailable, Die, TypeOK, history, fixed
<1>7. /\ step' \in [Callers -> {"idle", "start", "write", "stopped"}]
      /\ loop' \in [Callers -> {"triage", "explain"} \X Items]
      /\ attempts' \in [Callers -> 0..MaxAttempts - 1]
      /\ reply' \in [Callers -> Replies \cup {Nothing}]
      /\ kept' \in [Callers -> [Items -> Replies \cup {Nothing}]]
      /\ told' \in [Callers -> [Items -> Replies \cup {Nothing}]]
      /\ end' \in [Callers -> Ends]
  <2>. 0 \in 0..MaxAttempts - 1 /\ 1 \in Items
    BY ReplyFacts, ReplyAssumption
  <2>1. CASE Begin(c)
    BY <2>1 DEF Begin, caller, results, Goto, TypeOK
  <2>2. CASE Answer(c)
    <3>1. RepliesTo(Prompt(c)) \subseteq Replies
      BY DEF RepliesTo, Replies
    <3>. QED
      BY <2>2, <3>1 DEF Answer, Goto, results, TypeOK
  <2>3. CASE AskAgain(c)
    <3>1. attempts' = [attempts EXCEPT ![c] = attempts[c] + 1]
          /\ attempts[c] + 1 < MaxAttempts /\ attempts[c] \in 0..MaxAttempts - 1
      BY <2>3 DEF AskAgain, TypeOK
    <3>2. attempts[c] + 1 \in 0..MaxAttempts - 1
      BY <3>1, ReplyAssumption
    <3>. QED
      BY <2>3, <3>1, <3>2 DEF AskAgain, results, TypeOK
  <2>4. ASSUME NEW how \in Ends, Stops(c, how)
        PROVE  /\ step' \in [Callers -> {"idle", "start", "write", "stopped"}]
               /\ loop' \in [Callers -> {"triage", "explain"} \X Items]
               /\ attempts' \in [Callers -> 0..MaxAttempts - 1]
               /\ reply' \in [Callers -> Replies \cup {Nothing}]
               /\ end' \in [Callers -> Ends]
    BY <2>4 DEF Stops, Goto, Forget, TypeOK
  <2>5. CASE Halts(c)
    BY <2>4, <2>5 DEF Halts, Ends, TypeOK
  <2>6. CASE Goes(c)
    <3>1. Proceed(c, kept'[c])
      BY <2>6 DEF Goes
    <3>2. CASE Stops(c, "whole")
      BY <2>4, <2>6, <3>2 DEF Goes, Ends
    <3>3. CASE \E t \in Todo(c, kept'[c]) :
                    /\ \A u \in Todo(c, kept'[c]) : t[2] <= u[2]
                    /\ t \in {"triage", "explain"} \X Items
                    /\ loop' = [loop EXCEPT ![c] = t]
                    /\ Goto(c, "start") /\ end' = end /\ Forget(c)
      <4>1. PICK t \in {"triage", "explain"} \X Items :
                    loop' = [loop EXCEPT ![c] = t] /\ Goto(c, "start") /\ end' = end /\ Forget(c)
        BY <3>3
      <4>. QED
        BY <2>6, <4>1 DEF Goes, Goto, Forget, TypeOK
    <3>. QED
      BY <3>1, <3>2, <3>3, Proceeds
  <2>. QED
    BY <2>1, <2>2, <2>3, <2>5, <2>6, Shapes
<1>. QED
  BY <1>1, <1>2, <1>3, <1>4, <1>5, <1>6, <1>7 DEF TypeOK

\* What stopping leaves of a caller.
LEMMA Halted ==
    ASSUME TypeOK, NEW c \in Callers, Halts(c)
    PROVE  /\ step'[c] = "stopped" /\ end'[c] \in {"degraded", "dead", "killed"}
           /\ kept' = kept /\ told' = told
  BY DEF Halts, Stops, Goto, TypeOK

\* What the steps leave of the cache and of what was accepted.
LEMMA CacheKept ==
    ASSUME Typed, NEW c \in Callers, Act(c)
    PROVE  /\ accepted \subseteq accepted' /\ (accepted' = accepted \/ Answer(c))
           /\ cache' = cache \/ Answer(c) \/ Store(c)
           /\ unanswered \subseteq unanswered'
           /\ past' = past \/ Begin(c)
  BY DEF Act, Begin, Disabled, Miss, Hit, HitTorn, Answer, Store, AskAgain, GiveUp,
     Unavailable, Die, history, fixed

LEMMA NextStaged ==
    ASSUME Typed, NEW c \in Callers, Act(c)
    PROVE  Staged'
<1>. TypeOK /\ Staged
  BY DEF Typed
<1>. /\ step \in [Callers -> {"idle", "start", "write", "stopped"}]
     /\ past \in [Callers -> SUBSET Callers]
     /\ end \in [Callers -> Ends]
  BY DEF TypeOK
<1>1. mode' = mode /\ \A d \in Callers \ {c} : Stays(d)
  BY OthersStay
<1>2. step'[c] # "idle"
  <2>1. CASE Goes(c) /\ Asks(c) /\ end[c] = "open"
    BY <2>1, Passes
  <2>2. CASE Halts(c)
    BY <2>2, Halted
  <2>3. CASE Begin(c) \/ Answer(c) \/ AskAgain(c)
    BY <2>3 DEF Begin, Answer, AskAgain, Goto
  <2>. QED
    BY <2>1, <2>2, <2>3, Shapes
<1>3. step'[c] = "stopped" <=> end'[c] # "open"
  <2>1. CASE Goes(c) /\ Asks(c) /\ end[c] = "open"
    <3>1. /\ step'[c] \in {"start", "stopped"}
          /\ end'[c] = IF step'[c] = "start" THEN "open" ELSE "whole"
      BY <2>1, Passes
    <3>. QED
      BY <3>1
  <2>2. CASE Halts(c)
    <3>1. step'[c] = "stopped" /\ end'[c] \in {"degraded", "dead", "killed"}
      BY <2>2, Halted
    <3>. QED
      BY <3>1
  <2>3. CASE Begin(c)
    <3>1. step[c] = "idle" /\ end' = end /\ step'[c] = "start"
      BY <2>3 DEF Begin, Goto, results
    <3>. QED
      BY <3>1 DEF Staged
  <2>4. CASE Answer(c) \/ AskAgain(c)
    <3>1. step[c] = "start" /\ end' = end /\ step'[c] \in {"start", "write"}
      BY <2>4 DEF Answer, AskAgain, Goto, results
    <3>. QED
      BY <3>1 DEF Staged
  <2>. QED
    BY <2>1, <2>2, <2>3, <2>4, Shapes
<1>4. step'[c] = "write" => Answer(c)
  <2>1. CASE Goes(c) /\ Asks(c) /\ end[c] = "open"
    BY <2>1, Passes
  <2>2. CASE Halts(c)
    BY <2>2, Halted
  <2>3. CASE Begin(c) \/ AskAgain(c)
    BY <2>3 DEF Begin, AskAgain, Goto
  <2>. QED
    BY <2>1, <2>2, <2>3, Shapes
<1>5. step[c] # "stopped"
  BY Shapes DEF Asks
<1>6. ASSUME NEW d \in Callers, d \in spoilt'
      PROVE  /\ step'[d] = "write"
             /\ \E e \in Callers \ {d} : mode[e] = "live" /\ step'[e] # "idle"
  <2>1. \/ d \in spoilt /\ d # c
        \/ d \in spoilt /\ d = c /\ ~ Store(c) /\ ~ Die(c)
        \/ d \in Callers \ {c} /\ step[d] = "write" /\ Store(c)
    BY <1>6 DEF Act, Begin, Disabled, Miss, Hit, HitTorn, Answer, Store, AskAgain, GiveUp,
       Unavailable, Die
  <2>2. CASE d \in spoilt /\ d # c
    <3>1. step[d] = "write" /\ \E e \in Callers \ {d} : mode[e] = "live" /\ step[e] # "idle"
      BY <2>2 DEF Staged
    <3>. QED
      BY <1>1, <1>2, <2>2, <3>1 DEF Stays
  <2>3. CASE d \in spoilt /\ d = c /\ ~ Store(c) /\ ~ Die(c)
    <3>1. step[c] = "write"
      BY <2>3 DEF Staged
    <3>. QED
      BY <2>3, <3>1 DEF Act, Begin, Disabled, Miss, Hit, HitTorn, Answer, AskAgain, GiveUp,
         Unavailable
  <2>4. CASE d \in Callers \ {c} /\ step[d] = "write" /\ Store(c)
    <3>1. mode[c] = "live"
      BY <2>4 DEF Store, Staged
    <3>. QED
      BY <1>1, <1>2, <2>4, <3>1 DEF Stays
  <2>. QED
    BY <2>1, <2>2, <2>3, <2>4
<1>7. ASSUME NEW d \in Callers, NEW e \in past'[d]
      PROVE  step'[e] = "stopped"
  <2>1. step[e] = "stopped" /\ e \in Callers
    <3>1. CASE past' = past
      BY <1>7, <3>1 DEF Staged
    <3>2. CASE Begin(c)
      BY <1>7, <3>2 DEF Begin, Staged
    <3>. QED
      BY <3>1, <3>2, CacheKept
  <2>. QED
    BY <1>1, <1>5, <2>1 DEF Stays
<1>8. step'[c] = "write" => mode[c] = "live"
  BY <1>4 DEF Answer
<1>9. ASSUME NEW d \in Callers
      PROVE  /\ step'[d] = "idle" => loop'[d] = <<"triage", 1>> /\ past'[d] = {}
             /\ (step'[d] = "stopped" <=> end'[d] # "open")
             /\ step'[d] = "write" => mode'[d] = "live"
  BY <1>1, <1>2, <1>3, <1>8 DEF Staged, Stays
<1>. QED
  BY <1>1, <1>6, <1>7, <1>9 DEF Staged

LEMMA NextPrompted ==
    ASSUME Typed, NEW c \in Callers, Act(c), TypeOK'
    PROVE  Prompted' /\ AnswersAreVouched'
<1>. TypeOK /\ Prompted /\ AnswersAreVouched /\ Ahead
  BY DEF Typed
<1>1. says' = says /\ \A d \in Callers \ {c} : Stays(d)
  BY OthersStay
<1>2. accepted \subseteq accepted'
  BY CacheKept
<1>3. \/ kept' = kept /\ told' = told
      \/ Goes(c) /\ Asks(c) /\ end[c] = "open"
  BY Shapes, Halted DEF Begin, Answer, AskAgain, results
<1>4. ASSUME NEW i \in Items, kept'[c][i] # Nothing
      PROVE  /\ kept'[c][i] \in Sound
             /\ <<TriagePrompt(i), kept'[c][i]>> \in accepted
  <2>1. CASE kept'[c][i] = kept[c][i]
    BY <1>4, <2>1 DEF AnswersAreVouched
  <2>2. CASE kept'[c][i] # kept[c][i]
    <3>1. Goes(c) /\ i = At(c) /\ loop[c][1] = "triage"
      BY <1>3, <2>2 DEF Goes, TypeOK
    <3>2. Prompt(c) = TriagePrompt(i)
      BY <3>1 DEF Prompt, At
    <3>. QED
      BY <1>4, <3>1, <3>2 DEF Goes
  <2>. QED
    BY <2>1, <2>2
<1>5. ASSUME NEW i \in Items, told[c][i] # Nothing
      PROVE  kept'[c][i] = kept[c][i]
  <2>1. CASE loop[c][1] = "triage"
    BY <1>3, <1>5, <2>1 DEF Ahead, Asks
  <2>2. CASE loop[c][1] # "triage"
    BY <1>3, <2>2 DEF Goes, TypeOK
  <2>. QED
    BY <2>1, <2>2
<1>6. ASSUME NEW i \in Items, told'[c][i] # Nothing
      PROVE  /\ kept'[c][i] # Nothing
             /\ <<ExplainPrompt(i, kept'[c][i]), told'[c][i]>> \in accepted
  <2>1. CASE told'[c][i] = told[c][i]
    BY <1>5, <1>6, <2>1 DEF AnswersAreVouched
  <2>2. CASE told'[c][i] # told[c][i]
    <3>1. Goes(c) /\ Asks(c) /\ i = At(c) /\ loop[c][1] = "explain"
      BY <1>3, <2>2 DEF Goes, TypeOK
    <3>2. Prompt(c) = ExplainPrompt(i, kept[c][i]) /\ Prompt(c) \in Prompts
      BY <3>1 DEF Prompt, At, Prompted
    <3>3. kept[c][i] \in Sound
      BY <3>2, PromptFacts
    <3>. QED
      BY <3>1, <3>2, <3>3, ReplyFacts DEF Goes
  <2>. QED
    BY <2>1, <2>2
<1>7. AnswersAreVouched'
  <2>1. ASSUME NEW d \in Callers \ {c}, NEW i \in Items
        PROVE  kept'[d][i] = kept[d][i] /\ told'[d][i] = told[d][i]
    BY <1>1 DEF Stays
  <2>. QED
    BY <1>1, <1>2, <1>4, <1>6, <2>1 DEF AnswersAreVouched, TriagePrompt, ExplainPrompt
<1>8. ASSUME Asks(c)'
      PROVE  loop'[c][1] = "triage" \/ kept'[c][loop'[c][2]] \in Sound
  <2>1. CASE Goes(c) /\ Asks(c) /\ end[c] = "open"
    <3>1. step'[c] = "start"
      BY <1>8, <2>1, Passes DEF Asks
    <3>2. loop'[c][1] = "explain" => kept'[c][loop'[c][2]] # Nothing
      BY <2>1, <3>1, Passes
    <3>3. loop'[c][1] \in {"triage", "explain"} /\ loop'[c][2] \in Items
      BY DEF TypeOK
    <3>. QED
      BY <1>4, <3>2, <3>3
  <2>2. CASE Halts(c)
    BY <1>8, <2>2, Halted DEF Asks
  <2>3. CASE Begin(c) /\ step[c] = "idle"
    <3>1. loop'[c] = <<"triage", 1>>
      BY <2>3 DEF Begin, caller, Typed, Staged
    <3>. QED
      BY <3>1
  <2>4. CASE step[c] = "start" /\ (Answer(c) \/ AskAgain(c))
    <3>1. loop' = loop /\ kept' = kept /\ Prompt(c) \in Prompts
      BY <2>4 DEF Answer, AskAgain, results, Prompted, Asks
    <3>2. loop[c][1] \in {"triage", "explain"} /\ At(c) \in Items
      BY DEF TypeOK, At
    <3>. QED
      BY <3>1, <3>2, PromptFacts DEF At
  <2>. QED
    BY <2>1, <2>2, <2>3, <2>4, Shapes
<1>9. ASSUME NEW d \in Callers, Asks(d)'
      PROVE  Prompt(d)' \in Prompts
  <2>1. CASE d = c
    <3>1. loop'[c] \in {"triage", "explain"} \X Items
      BY DEF TypeOK
    <3>2. says' \in [triage : [Items -> Texts], explain : [Items -> Texts]]
      BY TellingAssumption DEF TypeOK
    <3>. QED
      BY <1>8, <1>9, <2>1, <3>1, <3>2 DEF Prompt, TriagePrompt, ExplainPrompt, Prompts
  <2>2. CASE d # c
    <3>1. Asks(d) /\ Prompt(d)' = Prompt(d)
      BY <1>1, <1>9, <2>2 DEF Stays, Asks, Prompt, TriagePrompt, ExplainPrompt
    <3>. QED
      BY <3>1 DEF Prompted
  <2>. QED
    BY <2>1, <2>2
<1>10. Prompted'
  BY <1>9 DEF Prompted
<1>. QED
  BY <1>7, <1>10

LEMMA NextGiven ==
    ASSUME Typed, NEW c \in Callers, Act(c), TypeOK', Staged'
    PROVE  Given'
<1>. TypeOK /\ Prompted /\ Given
  BY DEF Typed
<1>1. says' = says /\ \A d \in Callers \ {c} : Stays(d)
  BY OthersStay
<1>2. accepted \subseteq accepted'
  BY CacheKept
<1>3. \A e \in accepted' : e[2] \in RepliesTo(e[1])
  <2>1. CASE Answer(c)
    <3>1. PICK r \in RepliesTo(Prompt(c)) : accepted' = accepted \cup {<<Prompt(c), r>>}
      BY <2>1 DEF Answer
    <3>. QED
      BY <3>1 DEF Given
  <2>2. CASE accepted' = accepted
    BY <2>2 DEF Given
  <2>. QED
    BY <2>1, <2>2, CacheKept
<1>4. ASSUME NEW p \in Prompts, cache'[p] \in Replies
      PROVE  <<p, cache'[p]>> \in accepted'
  <2>1. CASE cache' = cache
    BY <1>2, <1>4, <2>1 DEF Given
  <2>2. CASE Answer(c)
    <3>1. cache' = [q \in Prompts |-> IF q \in Entry(c) THEN "torn" ELSE cache[q]]
      BY <2>2 DEF Answer
    <3>2. cache'[p] = cache[p]
      BY <1>4, <3>1, ReplyFacts
    <3>. QED
      BY <1>2, <1>4, <3>2 DEF Given
  <2>3. CASE Store(c)
    <3>1. PICK r \in {reply[c], "torn"} :
             cache' = [q \in Prompts |-> IF q \in Entry(c) THEN r ELSE cache[q]]
      BY <2>3 DEF Store
    <3>2. step[c] = "write"
      BY <2>3 DEF Store
    <3>3. CASE p = Prompt(c)
      <4>1. cache'[p] = reply[c]
        BY <1>4, <3>1, <3>3, ReplyFacts DEF Entry
      <4>. QED
        BY <1>2, <3>2, <3>3, <4>1 DEF Given
    <3>4. CASE p # Prompt(c)
      <4>1. cache'[p] = cache[p]
        BY <3>1, <3>4 DEF Entry
      <4>. QED
        BY <1>2, <1>4, <4>1 DEF Given
    <3>. QED
      BY <3>3, <3>4
  <2>. QED
    BY <2>1, <2>2, <2>3, CacheKept
<1>5. ASSUME NEW d \in Callers, step'[d] = "write"
      PROVE  <<Prompt(d)', reply'[d]>> \in accepted'
  <2>1. CASE d = c
    <3>1. Answer(c)
      <4>1. CASE Goes(c) /\ Asks(c) /\ end[c] = "open"
        BY <1>5, <2>1, <4>1, Passes
      <4>2. CASE Halts(c)
        BY <1>5, <2>1, <4>2, Halted
      <4>3. CASE Begin(c)
        BY <1>5, <2>1, <4>3 DEF Begin, Goto, TypeOK
      <4>4. CASE AskAgain(c)
        BY <1>5, <2>1, <4>4 DEF AskAgain
      <4>. QED
        BY <4>1, <4>2, <4>3, <4>4, Shapes
    <3>2. PICK r \in RepliesTo(Prompt(c)) :
             reply' = [reply EXCEPT ![c] = r] /\ accepted' = accepted \cup {<<Prompt(c), r>>}
      BY <3>1 DEF Answer
    <3>3. reply'[c] = r
      BY <3>2 DEF TypeOK
    <3>4. Prompt(c)' = Prompt(c)
      BY <1>1, <3>1 DEF Answer, results, Prompt, TriagePrompt, ExplainPrompt
    <3>. QED
      BY <2>1, <3>2, <3>3, <3>4
  <2>2. CASE d # c
    <3>1. step[d] = "write" /\ Prompt(d)' = Prompt(d) /\ reply'[d] = reply[d]
      BY <1>1, <1>5, <2>2 DEF Stays, Prompt, TriagePrompt, ExplainPrompt
    <3>. QED
      BY <1>2, <3>1 DEF Given
  <2>. QED
    BY <2>1, <2>2
<1>. QED
  BY <1>3, <1>4, <1>5 DEF Given

LEMMA NextAhead ==
    ASSUME Typed, NEW c \in Callers, Act(c), TypeOK'
    PROVE  Ahead'
<1>. TypeOK /\ Ahead
  BY DEF Typed
<1>1. \A d \in Callers \ {c} : Stays(d)
  BY OthersStay
<1>2. ASSUME NEW j \in Items, step'[c] # "stopped"
      PROVE  /\ loop'[c][1] = "triage" => told'[c][j] = Nothing
             /\ loop'[c][1] = "triage" /\ j >= loop'[c][2] => kept'[c][j] = Nothing
             /\ loop'[c][1] = "explain" /\ j >= loop'[c][2] => told'[c][j] = Nothing
  <2>1. CASE Goes(c) /\ Asks(c) /\ end[c] = "open"
    <3>1. /\ loop'[c][1] = "triage" => loop[c][1] = "triage" /\ At(c) < loop'[c][2]
          /\ loop[c][1] = "explain" => At(c) < loop'[c][2]
      BY <1>2, <2>1, Passes
    <3>2. /\ At(c) \in Nat /\ loop'[c][2] \in Nat /\ j \in Nat
          /\ loop[c][1] \in {"triage", "explain"} /\ At(c) = loop[c][2]
      BY ReplyFacts DEF TypeOK, At
    <3>3. step[c] # "stopped"
      BY <2>1 DEF Asks
    <3>4. CASE loop[c][1] = "triage"
      <4>1. told'[c][j] = Nothing
        BY <2>1, <3>3, <3>4 DEF Goes, Ahead
      <4>2. ASSUME loop'[c][1] = "triage", j >= loop'[c][2]
            PROVE  kept'[c][j] = Nothing
        <5>1. j # At(c) /\ j >= loop[c][2]
          BY <3>1, <3>2, <4>2
        <5>2. kept'[c][j] = kept[c][j]
          BY <2>1, <5>1 DEF Goes
        <5>. QED
          BY <3>3, <3>4, <5>1, <5>2 DEF Ahead
      <4>. QED
        BY <4>1, <4>2
    <3>5. CASE loop[c][1] = "explain"
      <4>2. ASSUME j >= loop'[c][2]
            PROVE  told'[c][j] = Nothing
        <5>1. j # At(c) /\ j >= loop[c][2]
          BY <3>1, <3>2, <3>5, <4>2
        <5>2. told'[c][j] = told[c][j]
          BY <2>1, <5>1 DEF Goes
        <5>. QED
          BY <3>3, <3>5, <5>1, <5>2 DEF Ahead
      <4>. QED
        BY <3>1, <3>5, <4>2
    <3>. QED
      BY <3>2, <3>4, <3>5
  <2>2. CASE Halts(c)
    BY <1>2, <2>2, Halted
  <2>3. CASE Begin(c) \/ Answer(c) \/ AskAgain(c)
    <3>1. loop' = loop /\ kept' = kept /\ told' = told /\ step[c] # "stopped"
      BY <2>3 DEF Begin, Answer, AskAgain, caller, results
    <3>. QED
      BY <3>1 DEF Ahead
  <2>. QED
    BY <2>1, <2>2, <2>3, Shapes
<1>3. ASSUME NEW d \in Callers \ {c}, step'[d] # "stopped"
      PROVE  step[d] # "stopped" /\ loop'[d] = loop[d] /\ kept'[d] = kept[d] /\ told'[d] = told[d]
  BY <1>1, <1>3 DEF Stays
<1>. QED
  BY <1>2, <1>3 DEF Ahead

LEMMA NextTyped ==
    ASSUME Typed, [Next]_vars
    PROVE  Typed'
<1>1. CASE Next
  <2>1. PICK c \in Callers : Act(c)
    BY <1>1 DEF Next, Act
  <2>2. TypeOK' /\ Staged'
    BY <2>1, NextTypeOK, NextStaged
  <2>3. Prompted' /\ AnswersAreVouched' /\ Given' /\ Ahead'
    BY <2>1, <2>2, NextPrompted, NextGiven, NextAhead
  <2>. QED
    BY <2>2, <2>3 DEF Typed
<1>2. CASE UNCHANGED vars
  BY <1>2 DEF vars, Typed, TypeOK, Prompted, Given, Ahead, Staged, AnswersAreVouched,
     Asks, Prompt, TriagePrompt, ExplainPrompt
<1>. QED
  BY <1>1, <1>2

(***************************************************************************)
(* What a torn entry comes from.                                           *)
(***************************************************************************)

LEMMA BlameStays ==
    ASSUME Typed, Staged', NEW c \in Callers, Act(c), Blame
    PROVE  Blame'
<1>1. mode' = mode /\ \A d \in Callers \ {c} : Stays(d)
  BY OthersStay DEF Typed
<1>2. step[c] # "stopped" /\ end[c] = "open"
  BY Shapes DEF Asks, Typed, Staged
<1>3. CASE \E d \in Callers : end[d] = "killed"
  BY <1>1, <1>2, <1>3 DEF Blame, Stays
<1>4. ASSUME NEW d \in Callers, NEW e \in Callers, mode[d] = "live", Overlap(d, e)
      PROVE  Overlap(d, e)'
  <2>1. \A f \in {d, e} : step'[f] # "idle" /\ past'[f] = past[f]
    <3>1. CASE c \notin {d, e}
      BY <1>1, <1>4, <3>1 DEF Overlap, Stays
    <3>2. CASE c \in {d, e}
      <4>1. step[c] # "idle"
        BY <1>4, <3>2 DEF Overlap
      <4>2. past' = past
        BY <4>1, CacheKept DEF Begin
      <4>3. step'[c] # "idle"
        <5>1. CASE Goes(c) /\ Asks(c) /\ end[c] = "open"
          BY <5>1, Passes DEF Typed
        <5>2. CASE Halts(c)
          BY <5>2, Halted DEF Typed
        <5>3. CASE Answer(c) \/ AskAgain(c)
          BY <5>3 DEF Answer, AskAgain, Goto, Typed, TypeOK
        <5>. QED
          BY <4>1, <5>1, <5>2, <5>3, Shapes
      <4>. QED
        BY <1>1, <1>4, <4>2, <4>3 DEF Overlap, Stays
    <3>. QED
      BY <3>1, <3>2
  <2>. QED
    BY <1>4, <2>1 DEF Overlap
<1>. QED
  BY <1>1, <1>3, <1>4 DEF Blame

\* Two callers at work overlap.
LEMMA AtWork ==
    ASSUME Typed, NEW d \in Callers, NEW e \in Callers, d # e, mode[d] = "live",
           Asks(d), Asks(e)
    PROVE  Blame
  BY DEF Typed, Staged, Blame, Overlap, Asks

LEMMA NextTorn ==
    ASSUME Typed, Typed', Torn, NEW c \in Callers, Act(c)
    PROVE  Torn'
<1>1. mode' = mode /\ says' = says /\ \A d \in Callers \ {c} : Stays(d)
  BY OthersStay DEF Typed
<1>2. Blame => Blame'
  BY BlameStays DEF Typed
<1>3. spoilt' # {} => Blame'
  <2>1. CASE spoilt = {}
    <3>1. ASSUME spoilt' # {} PROVE Blame
      <4>1. Store(c)
        BY <2>1, <3>1 DEF Act, Begin, Disabled, Miss, Hit, HitTorn, Answer, AskAgain, GiveUp,
           Unavailable, Die
      <4>2. PICK d \in Callers \ {c} : step[d] = "write"
        BY <2>1, <3>1, <4>1 DEF Store
      <4>. QED
        BY <4>1, <4>2, AtWork DEF Store, Asks, Typed, Staged
    <3>. QED
      BY <1>2, <3>1
  <2>2. CASE spoilt # {}
    BY <1>2, <2>2 DEF Torn
  <2>. QED
    BY <2>1, <2>2
<1>4. ASSUME NEW p \in Prompts, cache'[p] = "torn", ~ Blame'
      PROVE  \E d \in Callers : step'[d] = "write" /\ Prompt(d)' = p
  <2>1. ~ Blame /\ spoilt = {}
    BY <1>2, <1>4 DEF Torn
  <2>2. ASSUME cache[p] = "torn", ~ (step[c] = "write" /\ Prompt(c) = p)
        PROVE  \E d \in Callers : step'[d] = "write" /\ Prompt(d)' = p
    <3>1. PICK d \in Callers : step[d] = "write" /\ Prompt(d) = p
      BY <2>1, <2>2 DEF Torn
    <3>2. d # c
      BY <2>2, <3>1
    <3>. QED
      BY <1>1, <3>1, <3>2 DEF Stays, Prompt, TriagePrompt, ExplainPrompt
  <2>3. CASE Answer(c)
    <3>1. cache' = [q \in Prompts |-> IF q \in Entry(c) THEN "torn" ELSE cache[q]]
          /\ step[c] = "start"
      BY <2>3 DEF Answer
    <3>2. CASE p = Prompt(c)
      <4>1. step'[c] = "write" /\ Prompt(c)' = Prompt(c)
        BY <1>1, <2>3 DEF Answer, Goto, results, Prompt, TriagePrompt, ExplainPrompt,
           Typed, TypeOK
      <4>. QED
        BY <3>2, <4>1
    <3>3. CASE p # Prompt(c)
      BY <1>4, <2>2, <3>1, <3>3 DEF Entry
    <3>. QED
      BY <3>2, <3>3
  <2>4. CASE Store(c)
    <3>1. cache' = [q \in Prompts |-> IF q \in Entry(c) THEN reply[c] ELSE cache[q]]
      BY <2>1, <2>4 DEF Store
    <3>2. reply[c] # "torn"
      <4>1. reply[c] \in RepliesTo(Prompt(c))
        BY <2>4, StoreReceives
      <4>. QED
        BY <4>1, ReplyFacts DEF RepliesTo, Replies
    <3>3. p # Prompt(c)
      BY <1>4, <3>1, <3>2 DEF Entry
    <3>. QED
      BY <1>4, <2>2, <3>1, <3>3 DEF Entry
  <2>5. CASE Die(c)
    <3>1. end'[c] = "killed"
      BY <2>5 DEF Die, Stops, Typed, TypeOK
    <3>. QED
      BY <1>4, <3>1 DEF Blame
  <2>6. CASE cache' = cache /\ step[c] # "write"
    BY <1>4, <2>2, <2>6
  <2>. QED
    BY <2>3, <2>4, <2>5, <2>6 DEF Act, Begin, Disabled, Miss, Hit, HitTorn, AskAgain,
       GiveUp, Unavailable
<1>. QED
  BY <1>3, <1>4 DEF Torn

\* What a cached run does once it has begun.
LEMMA Cached ==
    ASSUME Typed, NEW c \in Callers, Act(c), mode[c] = "cached", step[c] # "idle"
    PROVE  Miss(c) \/ Hit(c) \/ HitTorn(c) \/ Die(c)
<1>1. step[c] # "write"
  BY DEF Typed, Staged
<1>. QED
  BY <1>1 DEF Act, Begin, Disabled, Answer, Store, AskAgain, GiveUp, Unavailable

LEMMA NextDies ==
    ASSUME Typed, Typed', Torn, ReplayDiesOfTornEntry, NEW c \in Callers, Act(c)
    PROVE  ReplayDiesOfTornEntry'
<1>1. mode' = mode /\ \A d \in Callers \ {c} : Stays(d)
  BY OthersStay DEF Typed
<1>2. Blame => Blame'
  BY BlameStays DEF Typed
<1>4. ASSUME mode[c] = "cached", end'[c] = "dead"
      PROVE  Blame
  <2>1. step[c] # "idle"
    <3>1. CASE step[c] = "idle"
      BY <1>4, <3>1, Shapes DEF Asks, Begin, results, Typed, Staged
    <3>. QED
      BY <3>1
  <2>2. CASE Hit(c)
    <3>1. Goes(c) /\ Asks(c) /\ end[c] = "open"
      BY <2>2, HitReceives DEF Hit, Asks, Typed, Staged
    <3>2. end'[c] \in {"open", "whole"}
      BY <3>1, Passes DEF Typed
    <3>. QED
      BY <1>4, <3>2
  <2>3. CASE Miss(c) \/ Die(c)
    BY <1>4, <2>3 DEF Miss, Die, Stops, Typed, TypeOK
  <2>4. CASE HitTorn(c)
    <3>1. step[c] = "start" /\ cache[Prompt(c)] = "torn" /\ Asks(c)
      BY <2>4 DEF HitTorn, Asks
    <3>2. Prompt(c) \in Prompts
      BY <3>1 DEF Typed, Prompted
    <3>3. Blame \/ \E d \in Callers : step[d] = "write" /\ Prompt(d) = Prompt(c)
      BY <3>1, <3>2 DEF Torn
    <3>4. ASSUME NEW d \in Callers, step[d] = "write" PROVE Blame
      BY <3>1, <3>4, AtWork DEF Typed, Staged, Asks
    <3>. QED
      BY <3>3, <3>4
  <2>. QED
    BY <1>4, <2>1, <2>2, <2>3, <2>4, Cached
<1>5. ASSUME NEW d \in Callers, mode'[d] = "cached", end'[d] = "dead"
      PROVE  Blame'
  <2>1. CASE d = c
    BY <1>1, <1>2, <1>4, <1>5, <2>1
  <2>2. CASE d # c
    BY <1>1, <1>2, <1>5, <2>2 DEF Stays, ReplayDiesOfTornEntry, Blame
  <2>. QED
    BY <2>1, <2>2
<1>. QED
  BY <1>5 DEF ReplayDiesOfTornEntry, Blame

(***************************************************************************)
(* What a run leaves in the cache, and what its replay makes of it.        *)
(***************************************************************************)

\* What a loop that goes on has behind it: what it had, and its item.
LEMMA Behind ==
    ASSUME TypeOK, TypeOK', NEW c \in Callers, Asks(c), end[c] = "open", Goes(c)
    PROVE  /\ Triaged(c) \subseteq Triaged(c)' /\ Explained(c) \subseteq Explained(c)'
           /\ loop[c][1] = "triage" =>
                 /\ At(c) \in Triaged(c)' /\ Explained(c) = {}
                 /\ \A k \in Triaged(c) : k < At(c)
           /\ loop[c][1] = "explain" =>
                 /\ Triaged(c) = Items /\ At(c) \in Explained(c)'
                 /\ \A k \in Explained(c) : k < At(c)
<1>1. /\ loop[c][1] \in {"triage", "explain"} /\ loop'[c][1] \in {"triage", "explain"}
      /\ At(c) \in Items /\ At(c) = loop[c][2] /\ loop'[c][2] \in Items /\ Items \subseteq Nat
      /\ step[c] # "stopped"
  BY ReplyFacts DEF TypeOK, At, Asks
<1>2. /\ Triaged(c) = IF loop[c][1] = "explain" THEN Items ELSE {j \in Items : j < At(c)}
      /\ Explained(c) = IF loop[c][1] = "explain" THEN {j \in Items : j < At(c)} ELSE {}
  BY <1>1 DEF Triaged, Explained
<1>3. CASE step'[c] = "stopped"
  <2>1. end'[c] = "whole"
    BY <1>3, Passes
  <2>2. Triaged(c)' = Items /\ Explained(c)' = Items
    BY <2>1 DEF Triaged, Explained
  <2>. QED
    BY <1>1, <1>2, <2>2
<1>4. CASE step'[c] = "start"
  <2>1. /\ loop'[c][1] = "triage" => loop[c][1] = "triage" /\ At(c) < loop'[c][2]
        /\ loop[c][1] = "explain" => At(c) < loop'[c][2]
        /\ end'[c] = "open"
    BY <1>4, Passes
  <2>2. /\ Triaged(c)' = IF loop'[c][1] = "explain" THEN Items ELSE {j \in Items : j < loop'[c][2]}
        /\ Explained(c)' = IF loop'[c][1] = "explain" THEN {j \in Items : j < loop'[c][2]} ELSE {}
    BY <1>1, <1>4, <2>1 DEF Triaged, Explained
  <2>3. \A j \in Items : At(c) < loop'[c][2] /\ j < At(c) => j < loop'[c][2]
    <3>1. At(c) \in Nat /\ loop'[c][2] \in Nat /\ \A j \in Items : j \in Nat
      BY <1>1
    <3>. QED
      BY <3>1
  <2>4. CASE loop[c][1] = "explain"
    BY <1>1, <1>2, <2>1, <2>2, <2>3, <2>4
  <2>5. CASE loop[c][1] = "triage"
    <3>1. At(c) \in Triaged(c)' /\ Explained(c) = {} /\ \A k \in Triaged(c) : k < At(c)
      BY <1>1, <1>2, <2>1, <2>2, <2>5
    <3>2. Triaged(c) \subseteq Triaged(c)'
      BY <1>1, <1>2, <2>1, <2>2, <2>3, <2>5
    <3>. QED
      BY <2>5, <3>1, <3>2
  <2>. QED
    BY <1>1, <2>4, <2>5
<1>. QED
  BY <1>3, <1>4, Passes

LEMMA NextRecorded ==
    ASSUME Typed, Typed', Recorded, NEW c \in Callers, Act(c)
    PROVE  Recorded'
<1>. TypeOK /\ Prompted /\ Ahead /\ Staged /\ TypeOK'
  BY DEF Typed
<1>1. mode' = mode /\ says' = says /\ \A d \in Callers \ {c} : Stays(d)
  BY OthersStay
<1>2. step'[c] # "idle"
  <2>1. CASE Goes(c) /\ Asks(c) /\ end[c] = "open"
    BY <2>1, Passes
  <2>2. CASE Halts(c)
    BY <2>2, Halted
  <2>3. CASE Begin(c) \/ Answer(c) \/ AskAgain(c)
    BY <2>3 DEF Begin, Answer, AskAgain, Goto, TypeOK
  <2>. QED
    BY <2>1, <2>2, <2>3, Shapes
<1>. SUFFICES ASSUME unanswered' = {}, NEW d \in Callers, AloneLive(d)', NEW p \in Prompts
              PROVE  /\ TriagedWith(d, p)' # {} => Writes(d, p)' \/ TriageStored(d, p)'
                     /\ ExplainedWith(d, p)' # {} => Writes(d, p)' \/ ExplainStored(d, p)'
  BY DEF Recorded
<1>3. mode[d] = "live" /\ \A e \in Callers \ {d} : mode[e] = "live" => step[e] = "idle" /\ e # c
  BY <1>1, <1>2 DEF AloneLive, Stays
<1>4. unanswered = {} /\ AloneLive(d)
  BY <1>3, CacheKept DEF AloneLive
<1>5. /\ TriagedWith(d, p) # {} => Writes(d, p) \/ TriageStored(d, p)
      /\ ExplainedWith(d, p) # {} => Writes(d, p) \/ ExplainStored(d, p)
  BY <1>4 DEF Recorded
<1>6. \A k \in Items : TriagePrompt(k)' = TriagePrompt(k)
  BY <1>1 DEF TriagePrompt
<1>7. ASSUME kept'[d] = kept[d], told'[d] = told[d], cache'[p] = cache[p],
             Triaged(d)' = Triaged(d), Explained(d)' = Explained(d)
      PROVE  /\ TriagedWith(d, p)' = TriagedWith(d, p)
             /\ ExplainedWith(d, p)' = ExplainedWith(d, p)
             /\ TriageStored(d, p) => TriageStored(d, p)'
             /\ ExplainStored(d, p) => ExplainStored(d, p)'
  <2>1. TriagedWith(d, p)' = TriagedWith(d, p) /\ ExplainedWith(d, p)' = ExplainedWith(d, p)
    BY <1>1, <1>7 DEF TriagedWith, ExplainedWith, TriagePrompt, ExplainPrompt
  <2>. QED
    BY <1>7, <2>1 DEF TriageStored, ExplainStored, IsLast
<1>8. ASSUME Triaged(d)' = {}, Explained(d)' = {}
      PROVE  TriagedWith(d, p)' = {} /\ ExplainedWith(d, p)' = {}
  BY <1>8 DEF TriagedWith, ExplainedWith
<1>9. CASE c # d
  <2>1. mode[c] # "live"
    BY <1>3, <1>9
  <2>2. cache' = cache
    BY <2>1, CacheKept DEF Answer, Store, Staged
  <2>3. Triaged(d)' = Triaged(d) /\ Explained(d)' = Explained(d) /\ kept'[d] = kept[d] /\ told'[d] = told[d]
    BY <1>1, <1>9 DEF Stays, Triaged, Explained
  <2>4. Writes(d, p) => Writes(d, p)'
    BY <1>1, <1>9 DEF Stays, Writes, Prompt, TriagePrompt, ExplainPrompt
  <2>. QED
    BY <1>5, <1>7, <2>2, <2>3, <2>4
<1>10. CASE c = d
  <2>. Items \subseteq Nat /\ At(c) \in Items /\ loop[c][1] \in {"triage", "explain"}
    BY ReplyFacts DEF TypeOK, At
  <2>1. CASE Begin(c) /\ step[c] = "idle"
    <3>1. loop'[c] = <<"triage", 1>> /\ step'[c] = "start" /\ end'[c] = "open"
      BY <2>1 DEF Begin, Goto, caller, results, Staged, TypeOK
    <3>2. \A j \in Items : j \in Nat /\ ~ (j < 1)
      <4>1. \A j \in Items : j >= 1
        <5>1. Cardinality(Items) \in Nat
          BY ItemsAssumption, FS_CardinalityType
        <5>. QED
          BY <5>1, ItemsAssumption
      <4>. QED
        BY <4>1
    <3>3. loop'[c][1] = "triage" /\ loop'[c][2] = 1
      BY <3>1
    <3>4. Triaged(c)' = {} /\ Explained(c)' = {}
      BY <3>1, <3>2, <3>3 DEF Triaged, Explained
    <3>. QED
      BY <1>8, <1>10, <3>4
  <2>2. CASE Disabled(c) \/ Miss(c) \/ HitTorn(c) \/ Unavailable(c) \/ Die(c)
    <3>1. Halts(c)
      BY <2>2 DEF Disabled, Miss, HitTorn, Unavailable, Die, Halts
    <3>2. step'[c] = "stopped" /\ end'[c] \in {"degraded", "dead", "killed"}
      BY <3>1, Halted
    <3>3. step'[c] = "stopped" /\ end'[c] # "whole"
      BY <3>2
    <3>4. Triaged(c)' = {} /\ Explained(c)' = {}
      BY <3>3 DEF Triaged, Explained
    <3>. QED
      BY <1>8, <1>10, <3>4
  <2>3. CASE AskAgain(c)
    <3>1. /\ cache' = cache /\ kept' = kept /\ told' = told
          /\ Triaged(c)' = Triaged(c) /\ Explained(c)' = Explained(c)
          /\ step[c] = "start"
      BY <2>3 DEF AskAgain, results, Triaged, Explained
    <3>. QED
      BY <1>5, <1>7, <1>10, <3>1 DEF Writes
  <2>4. CASE Answer(c) /\ step[c] = "start"
    <3>1. /\ cache' = [q \in Prompts |-> IF q \in Entry(c) THEN "torn" ELSE cache[q]]
          /\ kept' = kept /\ told' = told /\ loop' = loop /\ end' = end
          /\ step'[c] = "write"
      BY <2>4 DEF Answer, results, Goto, TypeOK
    <3>2. Triaged(c)' = Triaged(c) /\ Explained(c)' = Explained(c)
      BY <2>4, <3>1 DEF Triaged, Explained
    <3>3. CASE p = Prompt(c)
      BY <1>1, <1>10, <3>1, <3>3 DEF Writes, Prompt, TriagePrompt, ExplainPrompt
    <3>4. CASE p # Prompt(c)
      <4>1. cache'[p] = cache[p]
        BY <3>1, <3>4 DEF Entry
      <4>. QED
        BY <1>5, <1>7, <1>10, <3>1, <3>2, <3>4, <4>1 DEF Writes
    <3>. QED
      BY <3>3, <3>4
  <2>5. CASE Store(c)
    <3>1. Goes(c) /\ Asks(c) /\ end[c] = "open" /\ step[c] = "write"
      BY <2>5, StoreReceives DEF Store, Asks, Staged
    <3>2. c \notin spoilt
      BY <1>3, <1>10 DEF Staged
    <3>3. cache' = [q \in Prompts |-> IF q \in Entry(c) THEN reply[c] ELSE cache[q]]
      BY <2>5, <3>2 DEF Store
    <3>4. /\ Prompt(c) \in Prompts /\ cache'[Prompt(c)] = reply[c]
          /\ \A q \in Prompts : q # Prompt(c) => cache'[q] = cache[q]
      BY <3>1, <3>3 DEF Prompted, Entry
    <3>5. /\ Triaged(c)' \subseteq Triaged(c) \cup {At(c)}
          /\ \A j \in Explained(c)' :
                \/ j \in Explained(c) \/ kept'[c][j] = Nothing
                \/ j = At(c) /\ loop[c][1] = "explain"
      BY <3>1, Passes
    <3>6. /\ Triaged(c) \subseteq Triaged(c)' /\ Explained(c) \subseteq Explained(c)'
          /\ Triaged(c)' \subseteq Items /\ Explained(c)' \subseteq Items
      BY <3>1, Behind DEF Triaged, Explained
    <3>7. \A j \in Explained(c)' : ExplainPrompt(j, kept[c][j])' = p =>
                 j \in Explained(c) \/ (j = At(c) /\ loop[c][1] = "explain")
      <4>1. ASSUME NEW j \in Items, ExplainPrompt(j, kept[c][j])' = p
            PROVE  kept'[c][j] # Nothing
        <5>1. ExplainPrompt(j, kept'[c][j]) = p
          BY <1>1, <4>1 DEF ExplainPrompt
        <5>. QED
          BY <5>1, PromptFacts, ReplyFacts
      <4>. QED
        BY <3>5, <3>6, <4>1
    <3>8. \A k \in Items : k < At(c) \/ k = At(c) => k <= At(c)
      <4>1. At(c) \in Nat /\ \A k \in Items : k \in Nat
        OBVIOUS
      <4>. QED
        BY <4>1
    <3>9. CASE loop[c][1] = "triage"
      <4>1. /\ At(c) \in Triaged(c)' /\ Explained(c) = {} /\ \A k \in Triaged(c) : k < At(c)
            /\ Prompt(c) = TriagePrompt(At(c))
        BY <3>1, <3>9, Behind DEF Prompt, At
      <4>2. ExplainedWith(c, p)' = {}
        BY <3>7, <3>9, <4>1 DEF ExplainedWith
      <4>3. CASE p = Prompt(c)
        <5>1. At(c) \in TriagedWith(c, p)'
          BY <1>6, <4>1, <4>3 DEF TriagedWith
        <5>2. \A k \in Triaged(c)' : k <= At(c)
          <6>1. \A k \in Triaged(c)' : k \in Items /\ (k = At(c) \/ k < At(c))
            BY <3>5, <3>6, <4>1
          <6>. QED
            BY <3>8, <6>1
        <5>3. \A k \in TriagedWith(c, p)' : k <= At(c)
          BY <5>2 DEF TriagedWith
        <5>4. /\ cache'[p] \in Sound \cup Stray
              /\ kept'[c][At(c)] = IF cache'[p] \in Sound THEN cache'[p] ELSE Nothing
          <6>1. reply[c] \in Sound \cup Stray
            BY <2>5, <4>1, StoreReceives, PromptFacts DEF RepliesTo
          <6>. QED
            BY <2>5, <3>4, <3>9, <4>3, <6>1, StoreReceives
        <5>. QED
          BY <1>10, <4>2, <5>1, <5>3, <5>4 DEF TriageStored, IsLast
      <4>4. CASE p # Prompt(c) /\ TriagedWith(c, p)' # {}
        <5>1. TriagedWith(c, p)' = TriagedWith(c, p)
          BY <1>6, <3>5, <3>6, <4>1, <4>4 DEF TriagedWith
        <5>2. TriageStored(c, p)
          BY <1>5, <1>10, <4>4, <5>1 DEF Writes
        <5>3. \A k \in TriagedWith(c, p) : kept'[c][k] = kept[c][k]
          <6>1. \A k \in TriagedWith(c, p) : k \in Items /\ k # At(c)
            BY <3>6, <4>1, <4>4 DEF TriagedWith
          <6>. QED
            BY <3>1, <6>1 DEF Goes
        <5>. QED
          BY <1>10, <3>4, <4>2, <4>4, <5>1, <5>2, <5>3 DEF TriageStored, IsLast
      <4>. QED
        BY <1>10, <4>2, <4>3, <4>4
    <3>10. CASE loop[c][1] = "explain"
      <4>1. /\ Triaged(c) = Items /\ At(c) \in Explained(c)' /\ \A k \in Explained(c) : k < At(c)
            /\ Prompt(c) = ExplainPrompt(At(c), kept[c][At(c)]) /\ kept' = kept
        BY <3>1, <3>10, Behind DEF Prompt, At, Goes
      <4>2. TriagedWith(c, p)' # {} => TriageStored(c, p)'
        <5>1. TriagedWith(c, p)' = TriagedWith(c, p)
          BY <1>6, <3>6, <4>1 DEF TriagedWith
        <5>2. ASSUME TriagedWith(c, p) # {}
              PROVE  p # Prompt(c)
          <6>1. PICK k \in Items : TriagePrompt(k) = p
            BY <3>6, <4>1, <5>2 DEF TriagedWith
          <6>2. \A h : TriagePrompt(k) # ExplainPrompt(At(c), h)
            BY PromptFacts
          <6>. QED
            BY <4>1, <6>1, <6>2
        <5>3. TriagedWith(c, p) # {} => TriageStored(c, p)
          BY <1>5, <1>10, <5>2 DEF Writes
        <5>. QED
          BY <3>4, <4>1, <5>1, <5>2, <5>3 DEF TriageStored, IsLast
      <4>3. \A k \in Items : ExplainPrompt(k, kept[c][k])' = ExplainPrompt(k, kept[c][k])
        BY <1>1, <4>1 DEF ExplainPrompt
      <4>4. CASE p = Prompt(c)
        <5>1. At(c) \in ExplainedWith(c, p)'
          BY <4>1, <4>3, <4>4 DEF ExplainedWith
        <5>2. \A k \in ExplainedWith(c, p)' : k <= At(c)
          <6>1. \A k \in ExplainedWith(c, p)' : k \in Items /\ (k = At(c) \/ k < At(c))
            BY <3>6, <3>7, <4>1 DEF ExplainedWith
          <6>. QED
            BY <3>8, <6>1
        <5>3. cache'[p] \in Prose /\ told'[c][At(c)] = cache'[p]
          BY <2>5, <3>4, <3>10, <4>4, StoreReceives
        <5>. QED
          BY <1>10, <4>2, <5>1, <5>2, <5>3 DEF ExplainStored, IsLast
      <4>5. CASE p # Prompt(c) /\ ExplainedWith(c, p)' # {}
        <5>1. ExplainedWith(c, p)' = ExplainedWith(c, p)
          BY <3>6, <3>7, <4>1, <4>3, <4>5 DEF ExplainedWith
        <5>2. ExplainStored(c, p)
          BY <1>5, <1>10, <4>5, <5>1 DEF Writes
        <5>3. \A k \in ExplainedWith(c, p) : told'[c][k] = told[c][k]
          <6>1. \A k \in ExplainedWith(c, p) : k \in Items /\ k # At(c)
            BY <3>6, <4>1, <4>5 DEF ExplainedWith
          <6>. QED
            BY <3>1, <6>1 DEF Goes
        <5>. QED
          BY <1>10, <3>4, <4>2, <4>5, <5>1, <5>2, <5>3 DEF ExplainStored, IsLast
      <4>. QED
        BY <1>10, <4>2, <4>4, <4>5
    <3>. QED
      BY <3>9, <3>10
  <2>6. ~ Hit(c)
    BY <1>3, <1>10 DEF Hit
  <2>7. ~ GiveUp(c)
    BY DEF GiveUp
  <2>8. CASE Answer(c) \/ Begin(c)
    BY <2>1, <2>4, <2>8 DEF Answer, Begin
  <2>. QED
    BY <2>2, <2>3, <2>5, <2>6, <2>7, <2>8 DEF Act
<1>. QED
  BY <1>9, <1>10

LEMMA NextRepeated ==
    ASSUME Typed, Typed', Recorded, Repeated, NEW c \in Callers, Act(c)
    PROVE  Repeated'
<1>. TypeOK /\ Prompted /\ Ahead /\ Staged /\ TypeOK' /\ Staged'
  BY DEF Typed
<1>1. mode' = mode /\ says' = says /\ \A d \in Callers \ {c} : Stays(d)
  BY OthersStay
<1>2. step[c] # "stopped"
  BY Shapes DEF Asks
<1>. SUFFICES ASSUME unanswered' = {}, NEW a \in Callers, NEW d \in Callers, Follows(a, d)'
              PROVE  /\ end'[a] \in {"open", "whole"}
                     /\ \A i \in Triaged(a)' : KeptAgain(a, d, i)'
                     /\ \A i \in Explained(a)' : kept'[a][i] # Nothing => ToldAgain(a, d, i)'
  BY DEF Repeated
<1>3. unanswered = {}
  BY CacheKept
<1>4. /\ mode[a] = "cached" /\ mode[d] = "live" /\ a # d /\ d \in past'[a]
      /\ end'[a] # "killed" /\ end'[d] = "whole"
  BY <1>1 DEF Follows
<1>5. step[d] = "stopped" /\ d # c /\ end[d] = "whole" /\ kept'[d] = kept[d] /\ told'[d] = told[d]
  <2>1. step[d] = "stopped"
    <3>1. CASE past' = past
      BY <1>4, <3>1 DEF Staged
    <3>2. CASE Begin(c)
      BY <1>4, <3>2 DEF Begin, Staged, TypeOK
    <3>. QED
      BY <3>1, <3>2, CacheKept
  <2>. QED
    BY <1>1, <1>2, <1>4, <2>1 DEF Stays
<1>6. Triaged(d) = Items /\ Explained(d) = Items
  BY <1>5 DEF Triaged, Explained
<1>7. ASSUME NEW i \in Items, kept'[a][i] = kept[a][i]
      PROVE  /\ KeptAgain(a, d, i) => KeptAgain(a, d, i)'
             /\ told'[a][i] = told[a][i] /\ ToldAgain(a, d, i) => ToldAgain(a, d, i)'
  <2>1. AskedWith(i)' = AskedWith(i) /\ ToldWith(d, i, kept[a][i])' = ToldWith(d, i, kept[a][i])
    BY <1>1, <1>5, <1>7 DEF AskedWith, ToldWith, TriagePrompt, ExplainPrompt
  <2>. QED
    BY <1>5, <1>7, <2>1 DEF KeptAgain, ToldAgain, IsLast
<1>8. CASE a # c
  <2>1. end[a] # "killed" /\ d \in past[a]
    BY <1>1, <1>4, <1>8 DEF Stays
  <2>2. ASSUME NEW e \in Callers \ {a, d}, mode[e] = "live"
        PROVE  step[e] = "idle" \/ a \in past[e]
    <3>1. step'[e] = "idle" \/ a \in past'[e]
      BY <1>1, <2>2 DEF Follows
    <3>2. CASE e # c
      BY <1>1, <3>1, <3>2 DEF Stays
    <3>3. CASE e = c
      <4>1. CASE Begin(c)
        BY <3>3, <4>1 DEF Begin
      <4>2. CASE step[c] # "idle"
        <5>1. past' = past
          BY <4>2, CacheKept DEF Begin
        <5>2. step'[c] # "idle"
          <6>1. CASE Goes(c) /\ Asks(c) /\ end[c] = "open"
            BY <6>1, Passes
          <6>2. CASE Halts(c)
            BY <6>2, Halted
          <6>3. CASE Answer(c) \/ AskAgain(c)
            BY <6>3 DEF Answer, AskAgain, Goto, TypeOK
          <6>. QED
            BY <4>2, <6>1, <6>2, <6>3, Shapes
        <5>. QED
          BY <3>1, <3>3, <5>1, <5>2
      <4>. QED
        BY <3>3, <4>2
    <3>. QED
      BY <3>2, <3>3
  <2>3. Follows(a, d)
    BY <1>4, <1>5, <2>1, <2>2 DEF Follows
  <2>4. /\ end[a] \in {"open", "whole"}
        /\ \A i \in Triaged(a) : KeptAgain(a, d, i)
        /\ \A i \in Explained(a) : kept[a][i] # Nothing => ToldAgain(a, d, i)
    BY <1>3, <2>3 DEF Repeated
  <2>5. /\ end'[a] = end[a] /\ kept'[a] = kept[a] /\ told'[a] = told[a]
        /\ Triaged(a)' = Triaged(a) /\ Explained(a)' = Explained(a)
        /\ Triaged(a) \subseteq Items /\ Explained(a) \subseteq Items
    BY <1>1, <1>8 DEF Stays, Triaged, Explained
  <2>. QED
    BY <1>7, <2>4, <2>5
<1>9. CASE a = c /\ step[c] = "idle"
  <2>1. Begin(c)
    BY <1>9, Shapes DEF Asks
  <2>2. loop'[c] = <<"triage", 1>> /\ step'[c] = "start" /\ end'[c] = "open"
    BY <1>9, <2>1 DEF Begin, Goto, caller, results, Staged, TypeOK
  <2>3. \A j \in Items : j \in Nat /\ ~ (j < 1)
    <3>1. Cardinality(Items) \in Nat
      BY ItemsAssumption, FS_CardinalityType
    <3>2. \A j \in Items : j >= 1 /\ j \in Nat
      BY <3>1, ItemsAssumption
    <3>. QED
      BY <3>2
  <2>4. Triaged(c)' = {} /\ Explained(c)' = {}
    BY <2>2, <2>3 DEF Triaged, Explained
  <2>. QED
    BY <1>9, <2>2, <2>4
<1>10. CASE a = c /\ step[c] # "idle"
  <2>1. Miss(c) \/ Hit(c) \/ HitTorn(c)
    <3>1. Die(c) => end'[c] = "killed"
      BY DEF Die, Stops, TypeOK
    <3>. QED
      BY <1>4, <1>10, <3>1, Cached
  <2>2. step[c] = "start" /\ Asks(c) /\ end[c] = "open" /\ past' = past
    BY <1>10, <2>1, CacheKept DEF Miss, Hit, HitTorn, Asks, Staged, Begin
  <2>3. Follows(c, d)
    <3>1. ASSUME NEW e \in Callers \ {c, d}, mode[e] = "live"
          PROVE  step[e] = "idle" \/ c \in past[e]
      BY <1>1, <1>10, <3>1 DEF Follows, Stays
    <3>. QED
      BY <1>4, <1>5, <1>10, <2>2, <3>1 DEF Follows
  <2>4. AloneLive(d)
    <3>1. ASSUME NEW e \in Callers \ {d}, mode[e] = "live" PROVE step[e] = "idle"
      <4>1. e # c
        BY <1>4, <1>10, <3>1
      <4>2. c \notin past[e]
        BY <2>2 DEF Staged
      <4>. QED
        BY <2>3, <3>1, <4>1, <4>2 DEF Follows
    <3>. QED
      BY <1>4, <3>1 DEF AloneLive
  <2>5. /\ \A i \in Triaged(c) : KeptAgain(c, d, i)
        /\ \A i \in Explained(c) : kept[c][i] # Nothing => ToldAgain(c, d, i)
    BY <1>3, <2>3 DEF Repeated
  <2>6. /\ At(c) \in Items /\ loop[c][1] \in {"triage", "explain"} /\ Prompt(c) \in Prompts
        /\ Triaged(c)' \subseteq Items /\ Explained(c)' \subseteq Items
    BY <2>2 DEF TypeOK, At, Prompted, Triaged, Explained
  <2>7. ASSUME NEW p \in Prompts
        PROVE  /\ {k \in Items : TriagePrompt(k) = p} # {} => TriageStored(d, p)
               /\ {k \in Items : ExplainPrompt(k, kept[d][k]) = p} # {} => ExplainStored(d, p)
               /\ TriagedWith(d, p) = {k \in Items : TriagePrompt(k) = p}
               /\ ExplainedWith(d, p) = {k \in Items : ExplainPrompt(k, kept[d][k]) = p}
    BY <1>3, <1>5, <1>6, <2>4 DEF Recorded, Writes, TriagedWith, ExplainedWith
  <2>8. ASSUME loop[c][1] = "triage"
        PROVE  /\ cache[Prompt(c)] \in Replies
               /\ \E k \in Items :
                     /\ IsLast(k, AskedWith(At(c)))
                     /\ kept[d][k] = IF cache[Prompt(c)] \in Sound THEN cache[Prompt(c)]
                                     ELSE Nothing
    <3>1. Prompt(c) = TriagePrompt(At(c))
      BY <2>8 DEF Prompt, At
    <3>2. TriageStored(d, Prompt(c)) /\ TriagedWith(d, Prompt(c)) = AskedWith(At(c))
      BY <2>6, <2>7, <3>1 DEF AskedWith
    <3>. QED
      BY <3>2 DEF TriageStored, Replies
  <2>9. ASSUME loop[c][1] = "explain"
        PROVE  /\ cache[Prompt(c)] \in Replies
               /\ \E k \in Items :
                     /\ IsLast(k, ToldWith(d, At(c), kept[c][At(c)]))
                     /\ told[d][k] = cache[Prompt(c)]
    <3>1. Prompt(c) = ExplainPrompt(At(c), kept[c][At(c)])
      BY <2>9 DEF Prompt, At
    <3>2. Triaged(c) = Items
      BY <2>2, <2>9 DEF Triaged
    <3>3. PICK j \in Items : IsLast(j, AskedWith(At(c))) /\ kept[c][At(c)] = kept[d][j]
      BY <2>5, <2>6, <3>2 DEF KeptAgain
    <3>4. TriagePrompt(j) = TriagePrompt(At(c))
      BY <3>3 DEF IsLast, AskedWith
    <3>5. ExplainPrompt(j, kept[d][j]) = Prompt(c)
      BY <2>6, <3>1, <3>3, <3>4, PromptFacts
    <3>6. /\ ExplainStored(d, Prompt(c))
          /\ ExplainedWith(d, Prompt(c)) = ToldWith(d, At(c), kept[c][At(c)])
      BY <2>6, <2>7, <3>1, <3>5 DEF ToldWith
    <3>. QED
      BY <3>6, ReplyFacts DEF ExplainStored
  <2>10. Hit(c)
    BY <2>1, <2>6, <2>8, <2>9, ReplyFacts DEF Miss, HitTorn
  <2>11. Goes(c)
    BY <2>10, HitReceives
  <2>12. end'[c] \in {"open", "whole"}
    BY <2>2, <2>11, Passes
  <2>13. ASSUME NEW i \in Triaged(c)'
         PROVE  KeptAgain(c, d, i)'
    <3>1. i \in Items
      BY <2>6
    <3>2. CASE loop[c][1] = "triage" /\ i = At(c)
      <4>1. PICK k \in Items : IsLast(k, AskedWith(i)) /\ kept'[c][i] = kept[d][k]
        BY <2>8, <2>10, <3>2, HitReceives
      <4>2. AskedWith(i)' = AskedWith(i)
        BY <1>1 DEF AskedWith, TriagePrompt
      <4>. QED
        BY <1>5, <4>1, <4>2 DEF KeptAgain, IsLast
    <3>3. CASE ~ (loop[c][1] = "triage" /\ i = At(c))
      <4>1. i \in Triaged(c)
        <5>1. CASE loop[c][1] = "explain"
          BY <2>2, <3>1, <5>1 DEF Triaged
        <5>2. CASE loop[c][1] = "triage"
          BY <2>2, <2>11, <2>13, <3>3, <5>2, Passes
        <5>. QED
          BY <2>6, <5>1, <5>2
      <4>2. kept'[c][i] = kept[c][i]
        BY <2>6, <2>11, <3>1, <3>3 DEF Goes
      <4>. QED
        BY <1>10, <1>7, <2>5, <3>1, <4>1, <4>2
    <3>. QED
      BY <3>2, <3>3
  <2>14. ASSUME NEW i \in Explained(c)', kept'[c][i] # Nothing
         PROVE  ToldAgain(c, d, i)'
    <3>1. i \in Items
      BY <2>6
    <3>2. i \in Explained(c) \/ (i = At(c) /\ loop[c][1] = "explain")
      BY <2>2, <2>11, <2>14, Passes
    <3>3. loop[c][1] = "explain"
      BY <2>2, <3>2 DEF Explained
    <3>4. kept' = kept
      BY <2>11, <3>3 DEF Goes
    <3>5. CASE i = At(c)
      <4>1. PICK k \in Items :
                IsLast(k, ToldWith(d, i, kept[c][i])) /\ told'[c][i] = told[d][k]
        BY <2>9, <2>10, <3>3, <3>5, HitReceives
      <4>2. ToldWith(d, i, kept[c][i])' = ToldWith(d, i, kept[c][i])
        BY <1>1, <3>4 DEF ToldWith, ExplainPrompt
      <4>. QED
        BY <1>5, <4>1, <4>2 DEF ToldAgain, IsLast
    <3>6. CASE i # At(c)
      <4>1. told'[c][i] = told[c][i]
        BY <2>11, <3>1, <3>6 DEF Goes
      <4>. QED
        BY <1>10, <1>7, <2>5, <2>14, <3>1, <3>2, <3>4, <3>6, <4>1
    <3>. QED
      BY <3>5, <3>6
  <2>. QED
    BY <1>10, <2>12, <2>13, <2>14
<1>. QED
  BY <1>8, <1>9, <1>10

(***************************************************************************)
(* The theorems.                                                           *)
(***************************************************************************)

IInv == Typed /\ Torn /\ Recorded /\ Repeated /\ ReplayDiesOfTornEntry

LEMMA InitIInv == Init => IInv
<1>. SUFFICES ASSUME Init
              PROVE  IInv
  OBVIOUS
<1>1. Typed
  BY InitTyped
<1>2. \A c \in Callers : step[c] = "idle" /\ end[c] = "open" /\ past[c] = {} /\ loop[c] = <<"triage", 1>>
  BY DEF Init
<1>3. \A p \in Prompts : cache[p] = Nothing
  BY DEF Init
<1>4. Torn /\ ReplayDiesOfTornEntry
  BY <1>2, <1>3, ReplyFacts DEF Init, Torn, ReplayDiesOfTornEntry
<1>5. \A c \in Callers : Triaged(c) = {} /\ Explained(c) = {}
  <2>1. \A j \in Items : j \in Nat /\ ~ (j < 1)
    <3>1. Cardinality(Items) \in Nat
      BY ItemsAssumption, FS_CardinalityType
    <3>2. \A j \in Items : j >= 1 /\ j \in Nat
      BY <3>1, ItemsAssumption
    <3>. QED
      BY <3>2
  <2>2. \A c \in Callers : loop[c][1] = "triage" /\ loop[c][2] = 1 /\ end[c] = "open"
    BY <1>2
  <2>. QED
    BY <2>1, <2>2 DEF Triaged, Explained
<1>6. Recorded /\ Repeated
  BY <1>2, <1>5 DEF Recorded, Repeated, Follows, TriagedWith, ExplainedWith
<1>. QED
  BY <1>1, <1>4, <1>6 DEF IInv

LEMMA NextIInv == IInv /\ [Next]_vars => IInv'
<1>. SUFFICES ASSUME IInv, [Next]_vars
              PROVE  IInv'
  OBVIOUS
<1>1. Typed'
  BY NextTyped DEF IInv
<1>2. CASE Next
  <2>1. PICK c \in Callers : Act(c)
    BY <1>2 DEF Next, Act
  <2>. QED
    BY <1>1, <2>1, NextTorn, NextRecorded, NextRepeated, NextDies DEF IInv
<1>3. CASE UNCHANGED vars
  <2>1. Torn' /\ ReplayDiesOfTornEntry'
    BY <1>3 DEF vars, IInv, Torn, Blame, Overlap, Prompt, TriagePrompt,
       ExplainPrompt, ReplayDiesOfTornEntry
  <2>2. \A d \in Callers :
           /\ Triaged(d)' = Triaged(d) /\ Explained(d)' = Explained(d)
           /\ AloneLive(d)' = AloneLive(d) /\ \A c \in Callers : Follows(c, d)' = Follows(c, d)
    BY <1>3 DEF vars, Triaged, Explained, AloneLive, Follows
  <2>3. Recorded'
    <3>1. \A d \in Callers, p \in Prompts :
             /\ TriagedWith(d, p)' = TriagedWith(d, p)
             /\ ExplainedWith(d, p)' = ExplainedWith(d, p)
             /\ Writes(d, p)' = Writes(d, p)
      BY <1>3, <2>2 DEF vars, TriagedWith, ExplainedWith, Writes, Prompt, TriagePrompt,
         ExplainPrompt
    <3>2. \A d \in Callers, p \in Prompts :
             /\ TriageStored(d, p) => TriageStored(d, p)'
             /\ ExplainStored(d, p) => ExplainStored(d, p)'
      BY <1>3, <3>1 DEF vars, TriageStored, ExplainStored, IsLast
    <3>. QED
      BY <1>3, <2>2, <3>1, <3>2 DEF vars, IInv, Recorded
  <2>4. Repeated'
    <3>1. \A c, d \in Callers, i \in Items :
             /\ KeptAgain(c, d, i)' = KeptAgain(c, d, i)
             /\ ToldAgain(c, d, i)' = ToldAgain(c, d, i)
      BY <1>3 DEF vars, KeptAgain, ToldAgain, AskedWith, ToldWith, TriagePrompt,
         ExplainPrompt
    <3>2. \A c \in Callers : Triaged(c) \subseteq Items /\ Explained(c) \subseteq Items
      BY DEF Triaged, Explained
    <3>. QED
      BY <1>3, <2>2, <3>1, <3>2 DEF vars, IInv, Repeated
  <2>. QED
    BY <1>1, <2>1, <2>3, <2>4 DEF IInv
<1>. QED
  BY <1>2, <1>3

\* Every variable has its type: a step asks for a prompt that exists, a loop is
\* at an item there is, and no more attempts are made than are allowed.
THEOREM TypeCorrect == Spec => []TypeOK
<1>1. IInv => TypeOK
  BY DEF IInv, Typed
<1>. QED
  BY <1>1, InitIInv, NextIInv, PTL DEF Spec

\* What a run keeps was given by a provider to that very prompt and cites its
\* own records only, whether it asked, replayed, or read an entry that other
\* runs were writing.
THEOREM AnswersCorrect == Spec => []AnswersAreVouched
<1>1. IInv => AnswersAreVouched
  BY DEF IInv, Typed
<1>. QED
  BY <1>1, InitIInv, NextIInv, PTL DEF Spec

\* No replay dies of what it finds in the cache unless a worker was killed or a
\* live run was at work beside another one or beside the replay.
THEOREM TornEntriesExplained == Spec => []ReplayDiesOfTornEntry
<1>1. IInv => ReplayDiesOfTornEntry
  BY DEF IInv
<1>. QED
  BY <1>1, InitIInv, NextIInv, PTL DEF Spec

\* A replay that is over repeats the live run it follows.
LEMMA OverRepeats == IInv => ReplayRepeatsLive
<1>. SUFFICES ASSUME IInv, NEW c \in Callers, NEW d \in Callers, Replays(c, d),
                     unanswered = {}
              PROVE  /\ end[c] = "whole"
                     /\ \A i \in Items :
                           /\ KeptAgain(c, d, i)
                           /\ IF kept[c][i] = Nothing THEN told[c][i] = Nothing
                              ELSE ToldAgain(c, d, i)
  BY DEF ReplayRepeatsLive, KeptAgain, ToldAgain
<1>1. Follows(c, d) /\ end[c] \notin {"open", "killed"}
  BY DEF Replays, Follows
<1>2. /\ end[c] \in {"open", "whole"}
      /\ \A i \in Triaged(c) : KeptAgain(c, d, i)
      /\ \A i \in Explained(c) : kept[c][i] # Nothing => ToldAgain(c, d, i)
  BY <1>1 DEF IInv, Repeated
<1>3. end[c] = "whole"
  BY <1>1, <1>2
<1>4. Triaged(c) = Items /\ Explained(c) = Items
  BY <1>3 DEF Triaged, Explained
<1>5. \A i \in Items : kept[c][i] = Nothing => told[c][i] = Nothing
  BY DEF IInv, Typed, AnswersAreVouched
<1>. QED
  BY <1>2, <1>3, <1>4, <1>5

\* A replay after the only live run goes through both loops and gives each item
\* what that run last made of the item's prompt, rejected proposals included,
\* if every prompt of that run was answered: for any number of items, any sharing
\* of prompts among them and any replies.
THEOREM ReplayCorrect == Spec => []ReplayRepeatsLive
  BY OverRepeats, InitIInv, NextIInv, PTL DEF Spec

\* No two items share a text.
TextsDiffer ==
    \A i, j \in Items : i # j => says.triage[i] # says.triage[j] /\ says.explain[i] # says.explain[j]

ReplayIsLive ==
    \A c, d \in Callers : Replays(c, d) /\ unanswered = {} /\ TextsDiffer =>
        kept[c] = kept[d] /\ told[c] = told[d]

LEMMA DistinctIsSame == IInv => ReplayIsLive
<1>. SUFFICES ASSUME IInv, NEW c \in Callers, NEW d \in Callers, Replays(c, d),
                     unanswered = {}, TextsDiffer
              PROVE  kept[c] = kept[d] /\ told[c] = told[d]
  BY DEF ReplayIsLive
<1>1. \A i \in Items :
         /\ \E j \in Items : IsLast(j, AskedWith(i)) /\ kept[c][i] = kept[d][j]
         /\ IF kept[c][i] = Nothing THEN told[c][i] = Nothing
            ELSE \E j \in Items : IsLast(j, ToldWith(d, i, kept[c][i])) /\ told[c][i] = told[d][j]
  BY OverRepeats DEF ReplayRepeatsLive
<1>2. \A i, j \in Items : IsLast(j, AskedWith(i)) => j = i
  BY DEF IsLast, AskedWith, TriagePrompt, TextsDiffer
<1>3. \A i, j \in Items : \A h : IsLast(j, ToldWith(d, i, h)) => j = i
  BY DEF IsLast, ToldWith, ExplainPrompt, TextsDiffer
<1>4. \A i \in Items : kept[c][i] = kept[d][i]
  BY <1>1, <1>2
<1>5. \A i \in Items : kept[d][i] = Nothing => told[d][i] = Nothing
  BY DEF IInv, Typed, AnswersAreVouched
<1>6. \A i \in Items : told[c][i] = told[d][i]
  BY <1>1, <1>3, <1>4, <1>5
<1>. QED
  BY <1>4, <1>6 DEF IInv, Typed, TypeOK

\* A replay after the only live run is that run again, item by item, if no two
\* exceptions share a prompt and every prompt was answered.
THEOREM DistinctCorrect == Spec => []ReplayIsLive
  BY DistinctIsSame, InitIInv, NextIInv, PTL DEF Spec

=============================================================================
