---------------------------- MODULE MCCollector ----------------------------
(***************************************************************************)
(* The client of GitHub's API and the activity cache.  Each behaviour      *)
(* shows one part, chosen in the initial state, with the other at rest:    *)
(* "core"    callers share the client for calls of one resource;           *)
(* "search"  and for those of both;                                        *)
(* "pages"   one process reads a branch that is pushed to meanwhile;       *)
(* "race"    two processes refresh the same repository;                    *)
(* "turns"   daily runs come back to more repositories than one of them    *)
(*           takes: some come into focus, and any may fail forever.        *)
(***************************************************************************)
EXTENDS GitHubClient, RepositoryActivity

VARIABLE part

ClientParts   == {"core", "search"}
ActivityParts == {"pages", "race", "turns"}

Daily == 1 \* the process of the daily run

ClientStepOf ==
    /\ ClientNext
    /\ \A c \in Callers :
          call'[c].kind \in IF part = "core" THEN AllKinds \ {"search"} ELSE {"repository", "search"}

(* Until its first result is stored, and without a signal. *)
Pages ==
    /\ \A p \in Runners \ {Daily} : refresh'[p] = refresh[p]
    /\ \A p \in Runners : Range(refresh'[p].plan) \subseteq {1} /\ ~refresh'[p].cancelled
    /\ \A r \in Repos \ {1} : branch'[r] = branch[r]
    /\ cached[1] # NotCached => cached' = cached
    /\ UNCHANGED <<monitored, focus>>

Race ==
    /\ \A p \in Runners : Range(refresh'[p].plan) \subseteq {1}
    /\ \A r \in Repos \ {1} : (r \in monitored') = (r \in monitored)
    /\ UNCHANGED <<branch, focus>>

(* One process, no commit and no command line; results go stale between    *)
(* the runs.                                                               *)
Turns ==
    \/ \E p \in Runners \cap {Daily} :
          StartRefresh(p, Repos, FALSE) \/ RefreshStep(p) \/ AbortRefresh(p)
    \/ \E r \in Repos : Follow(r)
    \/ AgeTick /\ \A p \in Runners : refresh[p].pc = "idle"

ActivityStep ==
    \/ part = "pages" /\ ActivityNext /\ Pages
    \/ part = "race" /\ ActivityNext /\ Race
    \/ part = "turns" /\ Turns

CollectorInit ==
    /\ part \in ClientParts \cup ActivityParts
    /\ ClientInit
    /\ ActivityInit
    /\ focus = {}
    /\ monitored = CASE part \in ClientParts -> {} [] part = "turns" -> Repos [] OTHER -> {1}

CollectorNext ==
    /\ UNCHANGED part
    /\ \/ part \in ClientParts /\ ClientStepOf /\ UNCHANGED activityVars
       \/ ActivityStep /\ UNCHANGED clientVars

(* The fairness of both modules where it matters: the daily run comes      *)
(* back, the command line need not.                                        *)
CollectorFairness ==
    /\ WF_clientVars(part \in ClientParts /\ ClientTick)
    /\ \A c \in Callers :
          /\ WF_clientVars(part \in ClientParts /\ ClientStep(c))
          /\ SF_clientVars(part \in ClientParts /\ Acquire(c))
    /\ \A p \in Runners \cap {Daily} :
          /\ SF_activityVars(part \in ActivityParts /\ StartRefresh(p, Repos, FALSE))
          /\ WF_activityVars(part \in ActivityParts /\ RefreshStep(p))

CollectorSpec ==
    /\ CollectorInit
    /\ [][CollectorNext]_<<clientVars, activityVars, part>>
    /\ CollectorFairness

CollectorTypeOK == ClientTypeOK /\ ActivityTypeOK
=============================================================================
