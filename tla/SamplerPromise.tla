---------------------------- MODULE SamplerPromise ----------------------------
(***************************************************************************)
(* What the sampler promises the caller of one submission, whatever happens *)
(* inside: once accepted, it is answered exactly once and the answer never  *)
(* changes, or it is lost because its task died; one of the two happens.    *)
(***************************************************************************)
CONSTANTS Reqs

VARIABLES phase, answer

Answers == {"completed", "failed", "cancelled"}

Init == /\ phase = [r \in Reqs |-> "unsent"]
        /\ answer = [r \in Reqs |-> "none"]

Accept(r) == /\ phase[r] = "unsent"
             /\ phase' = [phase EXCEPT ![r] = "pending"]
             /\ UNCHANGED answer

Answer(r) == /\ phase[r] = "pending"
             /\ phase' = [phase EXCEPT ![r] = "answered"]
             /\ \E a \in Answers : answer' = [answer EXCEPT ![r] = a]

Lose(r) == /\ phase[r] = "pending"
           /\ phase' = [phase EXCEPT ![r] = "lost"]
           /\ UNCHANGED answer

Next == \E r \in Reqs : Accept(r) \/ Answer(r) \/ Lose(r)

\* An answer is never changed or taken back, and nothing is both answered and
\* lost.
Safe == Init /\ [][Next]_<<phase, answer>>

Spec == /\ Safe
        /\ \A r \in Reqs : WF_<<phase, answer>>(Answer(r) \/ Lose(r))
=============================================================================
