---------------------------- MODULE MCLlmClient ----------------------------
(***************************************************************************)
(* Two live runs of the same records, the second perhaps without the LLM,  *)
(* and a replay.  The two exceptions have prompts of their own, share the  *)
(* EXPLAIN prompt or share both.                                           *)
(***************************************************************************)
EXTENDS LlmClient, TLC

CONSTANTS live1, live2, replay, first, second

MCModes == [c \in Callers |->
    CASE c = replay -> {"cached"} [] c = live1 -> {"live"} [] OTHER -> {"live", "disabled"}]
MCItems == 1..2
MCTexts == 1..2
MCTellings ==
    {[triage |-> <<1, 2>>, explain |-> <<1, 2>>],
     [triage |-> <<1, 2>>, explain |-> <<1, 1>>],
     [triage |-> <<1, 1>>, explain |-> <<1, 1>>]}
Symmetric == Permutations(Prose)
=============================================================================
