------------------------------ MODULE LlmClient ------------------------------
(***************************************************************************)
(* The LLM client and its disk cache under the TRIAGE and EXPLAIN loops of *)
(* several runs, each in a worker of its own: live runs ask the provider   *)
(* and fill the cache, cached runs replay it, and all share one directory. *)
(* A prompt is the text it makes of an exception, for EXPLAIN with the     *)
(* hypothesis and action it quotes.  Exceptions may share a text: EXPLAIN  *)
(* puts no more of one in its prompt than its category and amount.         *)
(***************************************************************************)
EXTENDS Integers, FiniteSets

CONSTANTS
    Callers,        \* runs, created in one of their modes
    Modes,          \* caller -> modes its run may have: live, cached or disabled
    Items,          \* the exceptions of a run, 1..n in order of their loop
    Texts,          \* what a template makes of the fields of an exception
    Tellings,       \* for the two templates, the texts the items may have
    Sound,          \* proposals (hypothesis, action) that cite records of the run
    Stray,          \* proposals that cite an unknown record
    Prose,          \* explanations
    MaxAttempts     \* MAX_VALIDATION_RETRIES

ASSUME ItemsAssumption ==
    Items # {} /\ IsFiniteSet(Items) /\ Items = 1..Cardinality(Items)
ASSUME ModeAssumption == Modes \in [Callers -> SUBSET {"live", "cached", "disabled"}]
ASSUME ReplyAssumption ==
    /\ Sound \cap Stray = {} /\ MaxAttempts \in Nat \ {0}
    /\ Prose \cap (Sound \cup Stray) = {}
    /\ {"torn", "none"} \cap (Sound \cup Stray \cup Prose) = {}
\* What EXPLAIN quotes of an exception TRIAGE quotes as well.
ASSUME TellingAssumption ==
    \A s \in Tellings :
        /\ s \in [triage : [Items -> Texts], explain : [Items -> Texts]]
        /\ \A i, j \in Items : s.triage[i] = s.triage[j] => s.explain[i] = s.explain[j]

Nothing == "none"
Replies == Sound \cup Stray \cup Prose

\* The replies in the schema.
RepliesTo(p) == IF p[1] = "triage" THEN Sound \cup Stray ELSE Prose

\* What the key of a cache entry is the hash of.
Prompts == {<<"triage", x, Nothing>> : x \in Texts} \cup
           {<<"explain", x, h>> : x \in Texts, h \in Sound}

VARIABLES
    says,       \* the texts the items have, in every run of these records
    mode,       \* caller -> llm_mode of its run
    cache,      \* prompt -> the reply stored, "torn" or Nothing (no file)
    step,       \* caller -> what it does next
    loop,       \* caller -> the loop it is in and the item it is at
    attempts,   \* caller -> replies out of the schema to the prompt
    reply,      \* caller -> the reply it holds
    spoilt,     \* callers whose open file another one has written since
    kept,       \* caller -> item -> hypothesis
    told,       \* caller -> item -> explanation
    end,        \* caller -> how its loops ended
    past,       \* history: caller -> callers that had stopped when it began
    accepted,   \* history: prompts with the replies a live caller accepted
    unanswered  \* history: prompts that two replies out of schema have ended

vars == <<says, mode, cache, step, loop, attempts, reply, spoilt, kept, told, end, past,
          accepted, unanswered>>
caller == <<loop, attempts, reply>>
results == <<kept, told, end>>
fixed == <<says, mode>>
history == <<fixed, past, accepted, unanswered>>

\* triage_exception: category, entity, amount, trace and record of the item.
TriagePrompt(i) == <<"triage", says.triage[i], Nothing>>

\* explain_exception: category and amount of the item, and the proposal h.
ExplainPrompt(i, h) == <<"explain", says.explain[i], h>>

Prompt(c) ==
    LET i == loop[c][2]
    IN IF loop[c][1] = "triage" THEN TriagePrompt(i) ELSE ExplainPrompt(i, kept[c][i])

Init ==
    /\ says \in Tellings
    /\ mode \in {m \in [Callers -> UNION {Modes[c] : c \in Callers}] :
                     \A c \in Callers : m[c] \in Modes[c]}
    /\ cache = [p \in Prompts |-> Nothing]
    /\ step = [c \in Callers |-> "idle"]
    /\ loop = [c \in Callers |-> <<"triage", 1>>]
    /\ attempts = [c \in Callers |-> 0]
    /\ reply = [c \in Callers |-> Nothing]
    /\ spoilt = {}
    /\ kept = [c \in Callers |-> [i \in Items |-> Nothing]]
    /\ told = kept
    /\ end = [c \in Callers |-> "open"]
    /\ past = [c \in Callers |-> {}] /\ accepted = {} /\ unanswered = {}

Goto(c, s) == step' = [step EXCEPT ![c] = s]

\* What a caller holds between two prompts.
Forget(c) ==
    /\ attempts' = [attempts EXCEPT ![c] = 0]
    /\ reply' = [reply EXCEPT ![c] = Nothing]

\* The loops stop: whole, degraded, or because an exception that no handler
\* expects leaves the task.
Stops(c, how) ==
    /\ Goto(c, "stopped") /\ end' = [end EXCEPT ![c] = how]
    /\ loop' = [loop EXCEPT ![c] = <<"triage", 1>>]
    /\ Forget(c)

----------------------------------------------------------------------------
\* The loops of the orchestrator

Later(c) == {i \in Items : i > loop[c][2]}

\* What TRIAGE and EXPLAIN have yet to deal with; EXPLAIN passes over items
\* without a hypothesis.
Todo(c, hypotheses) ==
    LET explainable == {i \in Items : hypotheses[i] # Nothing}
    IN IF loop[c][1] = "triage"
       THEN IF Later(c) # {} THEN {"triage"} \X Later(c) ELSE {"explain"} \X explainable
       ELSE {"explain"} \X (explainable \cap Later(c))

\* The loop goes on with the hypotheses kept so far.
Proceed(c, hypotheses) ==
    IF Todo(c, hypotheses) = {}
    THEN Stops(c, "whole")
    ELSE /\ LET T == Todo(c, hypotheses)
            IN loop' = [loop EXCEPT ![c] = CHOOSE t \in T : \A u \in T : t[2] <= u[2]]
         /\ Goto(c, "start") /\ UNCHANGED end
         /\ Forget(c)

\* LLMValidationError: TRIAGE goes on to the next item, EXPLAIN has no handler.
Rejects(c) ==
    /\ IF loop[c][1] = "triage" THEN Proceed(c, kept[c]) ELSE Stops(c, "dead")
    /\ UNCHANGED <<kept, told>>

\* Mutant: the records a reply cites are not looked up.
Mut_Trusted(c, r) == TRUE

\* triage_exception checks the cited records of a live reply and of a replay.
Trusted(c, r) == loop[c][1] = "triage" => r \notin Stray

\* complete returns the reply r to its loop.
Receives(c, r) ==
    LET i == loop[c][2]
    IN IF ~ Trusted(c, r) THEN Rejects(c)
       ELSE IF loop[c][1] = "triage"
       THEN /\ kept' = [kept EXCEPT ![c][i] = r] /\ UNCHANGED told
            /\ Proceed(c, [kept[c] EXCEPT ![i] = r])
       ELSE /\ told' = [told EXCEPT ![c][i] = r] /\ UNCHANGED kept
            /\ Proceed(c, kept[c])

\* The orchestrator comes to TRIAGE.
Begin(c) ==
    /\ step[c] = "idle"
    /\ Goto(c, "start")
    /\ past' = [past EXCEPT ![c] = {d \in Callers : step[d] = "stopped"}]
    /\ UNCHANGED <<cache, caller, spoilt, results, fixed, accepted, unanswered>>

----------------------------------------------------------------------------
\* LLMClient.complete

Disabled(c) ==
    /\ step[c] = "start" /\ mode[c] = "disabled"
    /\ Stops(c, "degraded")
    /\ UNCHANGED <<cache, spoilt, kept, told, history>>

\* Cached mode: DiskCache.get and the validation of what it found.
Miss(c) ==
    /\ step[c] = "start" /\ mode[c] = "cached" /\ cache[Prompt(c)] = Nothing
    /\ Stops(c, "degraded")
    /\ UNCHANGED <<cache, spoilt, kept, told, history>>

Hit(c) ==
    /\ step[c] = "start" /\ mode[c] = "cached" /\ cache[Prompt(c)] \in Replies
    /\ Receives(c, cache[Prompt(c)])
    /\ UNCHANGED <<cache, spoilt, history>>

\* The entry is no JSON, or JSON out of the schema: neither is an LLMError.
HitTorn(c) ==
    /\ step[c] = "start" /\ mode[c] = "cached" /\ cache[Prompt(c)] = "torn"
    /\ Stops(c, "dead")
    /\ UNCHANGED <<cache, spoilt, kept, told, history>>

\* Mutant: the key is that of the prompt last sent, with the correction.
Mut_Entry(c) == IF attempts[c] = 0 THEN {Prompt(c)} ELSE {}

\* The entry a reply is stored in: that of the prompt as it was first sent.
Entry(c) == {Prompt(c)}

\* Live mode, one request that is answered in the schema.  DiskCache.set opens
\* the file, which empties it.
Answer(c) ==
    /\ step[c] = "start" /\ mode[c] = "live"
    /\ \E r \in RepliesTo(Prompt(c)) :
          /\ reply' = [reply EXCEPT ![c] = r]
          /\ accepted' = accepted \cup {<<Prompt(c), r>>}
    /\ cache' = [p \in Prompts |-> IF p \in Entry(c) THEN "torn" ELSE cache[p]]
    /\ Goto(c, "write")
    /\ UNCHANGED <<loop, attempts, spoilt, results, fixed, past, unanswered>>

\* DiskCache.set writes the file.  One that another caller has written since it
\* was opened may keep the tail of a longer entry.
Store(c) ==
    /\ step[c] = "write"
    /\ \E r \in {reply[c]} \cup (IF c \in spoilt THEN {"torn"} ELSE {}) :
        cache' = [p \in Prompts |-> IF p \in Entry(c) THEN r ELSE cache[p]]
    /\ spoilt' = (spoilt \ {c}) \cup
          {d \in Callers \ {c} : step[d] = "write" /\ Prompt(d) = Prompt(c)}
    /\ Receives(c, reply[c])
    /\ UNCHANGED history

\* Mutant: one attempt too many.
Mut_AskAgain(c) ==
    /\ step[c] = "start" /\ mode[c] = "live" /\ attempts[c] + 1 <= MaxAttempts
    /\ attempts' = [attempts EXCEPT ![c] = @ + 1]
    /\ UNCHANGED <<cache, step, loop, reply, spoilt, results, history>>

\* A reply out of the schema is asked for again, with the error added.
AskAgain(c) ==
    /\ step[c] = "start" /\ mode[c] = "live" /\ attempts[c] + 1 < MaxAttempts
    /\ attempts' = [attempts EXCEPT ![c] = @ + 1]
    /\ UNCHANGED <<cache, step, loop, reply, spoilt, results, history>>

\* Mutant: the reply is cached although it did not validate.
Mut_GiveUp(c) ==
    /\ step[c] = "start" /\ mode[c] = "live" /\ attempts[c] + 1 >= MaxAttempts
    /\ Rejects(c)
    /\ cache' = [cache EXCEPT ![Prompt(c)] = "torn"]
    /\ unanswered' = unanswered \cup {Prompt(c)}
    /\ UNCHANGED <<fixed, spoilt, past, accepted>>

\* LLMValidationError after the last attempt; nothing is cached.
GiveUp(c) ==
    /\ step[c] = "start" /\ mode[c] = "live" /\ attempts[c] + 1 >= MaxAttempts
    /\ Rejects(c)
    /\ unanswered' = unanswered \cup {Prompt(c)}
    /\ UNCHANGED <<fixed, cache, spoilt, past, accepted>>

\* No reply at all.  Without a key, or when the request to Gemini fails, this is
\* LLMDisabledError; a failed request to Anthropic, or a response that is no
\* JSON, raises what no handler expects.
Unavailable(c) ==
    /\ step[c] = "start" /\ mode[c] = "live"
    /\ \E how \in {"degraded", "dead"} : Stops(c, how)
    /\ UNCHANGED <<cache, spoilt, kept, told, history>>

\* The worker dies, perhaps between the opening and the writing of an entry.
Die(c) ==
    /\ step[c] \in {"start", "write"}
    /\ Stops(c, "killed")
    /\ spoilt' = spoilt \ {c}
    /\ UNCHANGED <<cache, kept, told, history>>

Next ==
    \E c \in Callers :
        \/ Begin(c) \/ Disabled(c)
        \/ Miss(c) \/ Hit(c) \/ HitTorn(c)
        \/ Answer(c) \/ Store(c) \/ AskAgain(c) \/ GiveUp(c) \/ Unavailable(c)
        \/ Die(c)

Spec == Init /\ [][Next]_vars

----------------------------------------------------------------------------
(* Properties.                                                             *)

Ends == {"open", "whole", "degraded", "dead", "killed"}

\* Every variable has its type.
TypeOK ==
    /\ says \in Tellings
    /\ \A c \in Callers : mode[c] \in Modes[c]
    /\ cache \in [Prompts -> Replies \cup {"torn", Nothing}]
    /\ step \in [Callers -> {"idle", "start", "write", "stopped"}]
    /\ loop \in [Callers -> {"triage", "explain"} \X Items]
    /\ attempts \in [Callers -> 0..MaxAttempts - 1]
    /\ reply \in [Callers -> Replies \cup {Nothing}]
    /\ spoilt \subseteq Callers
    /\ kept \in [Callers -> [Items -> Replies \cup {Nothing}]]
    /\ told \in [Callers -> [Items -> Replies \cup {Nothing}]]
    /\ end \in [Callers -> Ends]
    /\ past \in [Callers -> SUBSET Callers]
    /\ accepted \subseteq Prompts \X Replies
    /\ unanswered \subseteq Prompts

\* A hypothesis that a run keeps, live or replayed, cites records of the run
\* only and is one a provider gave to the prompt of its item; so is an
\* explanation, which is of the hypothesis it is kept beside.
AnswersAreVouched ==
    \A c \in Callers, i \in Items :
        /\ kept[c][i] # Nothing =>
              /\ kept[c][i] \in Sound
              /\ <<TriagePrompt(i), kept[c][i]>> \in accepted
        /\ told[c][i] # Nothing =>
              /\ kept[c][i] # Nothing
              /\ <<ExplainPrompt(i, kept[c][i]), told[c][i]>> \in accepted

\* Neither of two callers had ended when the other began.
Overlap(c, d) ==
    /\ c # d /\ step[c] # "idle" /\ step[d] # "idle"
    /\ c \notin past[d] /\ d \notin past[c]

\* c is a replay of d, the only live run before it, and both have ended.
Replays(c, d) ==
    /\ mode[c] = "cached" /\ end[c] \notin {"open", "killed"}
    /\ mode[d] = "live" /\ end[d] = "whole" /\ d \in past[c]
    /\ \A e \in Callers \ {c, d} : mode[e] = "live" => step[e] = "idle" \/ c \in past[e]

IsLast(j, S) == j \in S /\ \A k \in S : k <= j

\* The items that share the TRIAGE prompt of i, and those of a run d that share
\* its EXPLAIN prompt with the hypothesis h.
AskedWith(i) == {k \in Items : TriagePrompt(k) = TriagePrompt(i)}
ToldWith(d, i, h) == {k \in Items : ExplainPrompt(k, kept[d][k]) = ExplainPrompt(i, h)}

\* client.py:4-6, a live run "can be replayed later in cached mode": the replay
\* goes through both loops and gives every item what the live run last made of
\* the item's prompt, rejected proposals included, as long as no prompt of that
\* run was left without a reply in the schema.  Items that share a prompt thus
\* all get what the last of them got.
ReplayRepeatsLive ==
    \A c, d \in Callers : Replays(c, d) /\ unanswered = {} =>
        /\ end[c] = "whole"
        /\ \A i \in Items :
              /\ \E j \in Items : IsLast(j, AskedWith(i)) /\ kept[c][i] = kept[d][j]
              /\ IF kept[c][i] = Nothing THEN told[c][i] = Nothing
                 ELSE \E j \in Items : /\ IsLast(j, ToldWith(d, i, kept[c][i]))
                                       /\ told[c][i] = told[d][j]

\* Item by item the same as every live run that ended, which the code does not
\* keep: a prompt may be left unanswered, and two items may share one.
EveryLiveRunReplays ==
    \A c, d \in Callers :
        Replays(c, d) => kept[c] = kept[d] /\ told[c] = told[d] /\ end[c] = end[d]

\* A replay is ended by what it finds in the cache, which no handler expects,
\* only if a worker was killed or a live run was at work beside another one or
\* beside the replay.
ReplayDiesOfTornEntry ==
    \A c \in Callers : mode[c] = "cached" /\ end[c] = "dead" =>
        \/ \E d \in Callers : end[d] = "killed"
        \/ \E d, e \in Callers : mode[d] = "live" /\ Overlap(d, e)

=============================================================================
