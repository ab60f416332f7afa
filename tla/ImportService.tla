--------------------------- MODULE ImportService ---------------------------
(***************************************************************************)
(* What the import queue promises, without leases, tokens, clocks or       *)
(* workers.  A job is accepted once, is worked on by one holder at a time, *)
(* for at most MaxAttempts attempts, and ends in exactly one outcome that  *)
(* never changes.  ImportQueue is shown to implement this specification.   *)
(***************************************************************************)
EXTENDS Naturals

CONSTANTS MaxJobs,      \* jobs are numbered 1..MaxJobs in the order they are accepted
          MaxAttempts   \* attempts a job may consume

Jobs     == 1..MaxJobs
Outcomes == {"done", "partial", "failed"}

VARIABLES phase,    \* phase[j]: "none", "pending" or an outcome
          tries,    \* tries[j]: attempts consumed by j
          holder    \* the job being worked on, 0 when there is none

vars == <<phase, tries, holder>>

Init ==
    /\ phase  = [j \in Jobs |-> "none"]
    /\ tries  = [j \in Jobs |-> 0]
    /\ holder = 0

Accept(j) ==
    /\ phase[j] = "none"
    /\ \A k \in Jobs : k < j => phase[k] # "none"
    /\ phase' = [phase EXCEPT ![j] = "pending"]
    /\ UNCHANGED <<tries, holder>>

(* Jobs that used up their attempts and may be closed without being held. *)
Spent == {j \in Jobs : phase[j] = "pending" /\ tries[j] >= MaxAttempts}

(* Close the jobs of S, none of which reaches "done": nobody worked on them. *)
CloseSpent(S) ==
    /\ S \subseteq Spent
    /\ \E outcome \in [S -> {"partial", "failed"}] :
          phase' = [j \in Jobs |-> IF j \in S THEN outcome[j] ELSE phase[j]]

Attempt(j) ==
    /\ holder = 0
    /\ phase[j] = "pending"
    /\ tries[j] < MaxAttempts
    /\ \E S \in SUBSET Jobs : CloseSpent(S)
    /\ tries'  = [tries EXCEPT ![j] = @ + 1]
    /\ holder' = j

GiveUp ==
    /\ holder = 0
    /\ \E S \in SUBSET Jobs : CloseSpent(S)
    /\ UNCHANGED <<tries, holder>>

(* The holder lost the job: it asked for a retry, crashed or ran out of time. *)
Release ==
    /\ holder # 0
    /\ holder' = 0
    /\ UNCHANGED <<phase, tries>>

Finish(outcome) ==
    /\ holder # 0
    /\ phase'  = [phase EXCEPT ![holder] = outcome]
    /\ holder' = 0
    /\ UNCHANGED tries

Next ==
    \/ \E j \in Jobs : Accept(j) \/ Attempt(j)
    \/ GiveUp
    \/ Release
    \/ \E outcome \in Outcomes : Finish(outcome)

Spec == Init /\ [][Next]_vars
=============================================================================
