----------------------------- MODULE AsyncAnswer ----------------------------
(***************************************************************************)
(* What the asynchronous doors promise of an answer, whatever produces it: *)
(* once a request is accepted its answer is owed, it is settled once, kept *)
(* or broken, and a settled answer never changes; only taking the record   *)
(* away as a whole ends it otherwise.                                      *)
(*                                                                         *)
(* AiTurns and PodcastJobs implement it, each over rows of its own.        *)
(***************************************************************************)
CONSTANT Requests

VARIABLE answer   \* per request: none, owed, kept or broken

Init == answer = [r \in Requests |-> "none"]

\* The request is accepted and its record written.
Accept(r) ==
    /\ answer[r] = "none"
    /\ answer' = [answer EXCEPT ![r] = "owed"]

\* The answer arrives.
Keep(r) ==
    /\ answer[r] = "owed"
    /\ answer' = [answer EXCEPT ![r] = "kept"]

\* It will not: one failed, or a sweep gives up on several.
Break(R) ==
    /\ \A r \in R : answer[r] = "owed"
    /\ answer' = [r \in Requests |-> IF r \in R THEN "broken" ELSE answer[r]]

\* The records are deleted with what they belong to.
Withdraw(R) ==
    answer' = [r \in Requests |-> IF r \in R THEN "none" ELSE answer[r]]

Next ==
    \/ \E r \in Requests : Accept(r) \/ Keep(r)
    \/ \E R \in SUBSET Requests : Break(R) \/ Withdraw(R)

Spec == Init /\ [][Next]_answer
=============================================================================
