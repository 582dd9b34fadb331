--------------------------- MODULE MCRunLifecycle ---------------------------
(***************************************************************************)
(* Instances of RunLifecycle for TLC.                                      *)
(***************************************************************************)
EXTENDS RunLifecycle, TLC

CONSTANTS f1, f2, f3

\* Two runs that share a file, all that either does beside the other; failures
\* strike the second.
Overlapping == {{f1, f2}, {f2, f3}}
Second == {{f2, f3}}

\* Two runs of which one only can be created: one that finds a match group or
\* verifies a fee, and one that does neither.
Rivals == {{f1}, {f1, f2}}
First == {{f1}}

\* The trail of two deliveries of one run interleaves in millions of ways, and
\* of the trail no step reads more than whether a cancel is requested.
WithoutTrail ==
    <<status, ostate, metrics, owner, loaded, saved,
      [r \in Runs |-> CancelRequested(r)], broker, clients, worker>>

Symmetric == Permutations(Clients) \cup Permutations(Workers)
=============================================================================
