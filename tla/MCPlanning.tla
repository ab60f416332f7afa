----------------------------- MODULE MCPlanning -----------------------------
(***************************************************************************)
(* The path of a day: the daily run with its discovery, the search of a    *)
(* profile, the merge of candidates into the registry, and the pages that  *)
(* show the snapshots.  Each behaviour shows one part, chosen in the       *)
(* initial state, with the others at rest.                                 *)
(***************************************************************************)
EXTENDS DailyRun, SearchProfile, Candidates, Views, TLC

CONSTANTS r1, r2, n1, n2

VARIABLE part

(* Names are interchangeable: any first ones will do. *)
FirstTitles == r1 :> n1 @@ r2 :> n2

NoSnapshots == star = [r \in Repositories |-> [d \in Calendar |-> None]]

(* A part that is at rest has one initial state. *)
NoSearch ==
    /\ asked = [by |-> "none", sort |-> "stars", order |-> "desc", hi |-> Open]
    /\ matching = {}
    /\ value = [r \in Matches |-> [f \in Fields |-> 0]]

(* Each kind of profile: every way to partition, to sort and to order,     *)
(* with and without an upper bound of the stars.  By a field that only     *)
(* sorts, at most one repository differs at first; one may meet the query  *)
(* only later.                                                             *)
ProfileInit ==
    /\ SearchInit
    /\ asked.hi \in IF asked.by = "stars" THEN {Today - 1, Open} ELSE {Open}
    /\ asked.sort # asked.by => \E r \in Matches, n \in {0, 1} : \A s \in Matches :
          value[s][asked.sort] = IF s = r THEN n ELSE 0
    /\ matching \in {Matches, Matches \ {Max(Matches)}}

PlanningInit ==
    /\ part \in {"daily", "search", "candidates", "views"}
    /\ part = "views" \/ NoSnapshots
    /\ \/ part = "search" /\ ProfileInit
       \/ part # "search" /\ NoSearch /\ SearchInit
    /\ title = FirstTitles
    /\ DailyInit
    /\ CandidatesInit
    /\ ViewsInit
    /\ star[3][0] = None

(* A signal matters to what is stored where the merge loop sees it: before *)
(* and after, what it leads to is also what a failure leads to.  The last  *)
(* row is the discovery of a daily run, which plans by the others.         *)
DailyStep ==
    /\ DailyNext
    /\ \A p \in Processes :
          (process'[p].cancelled /\ ~process[p].cancelled) => process[p].pc = "merge"
    /\ Len(rows') = MaxRows => rows'[MaxRows].parent # 0

(* A search that is in doubt, was disturbed or fails promises nothing:     *)
(* repositories change before that, and a request fails for good only at   *)
(* first.                                                                  *)
ProfileStep ==
    /\ SearchNext
    /\ find.incomplete \/ find.truncated \/ disturbed => UNCHANGED <<matching, value>>
    /\ find'.pc = "failed" => find.ranges = <<>> \/ find.hits = {}

(* One candidate at a time of the second repository. *)
CandidatesStep ==
    /\ CandidatesNext
    /\ batch'.repo = r2 => batch'.size <= 1

(* Snapshots stored meanwhile are those of the day. *)
ViewsStep ==
    /\ ViewsNext
    /\ \A r \in Repositories, d \in Calendar \ {AsOf} : star'[r][d] = star[r][d]

PlanningNext ==
    /\ UNCHANGED part
    /\ \/ part = "daily" /\ DailyStep /\ UNCHANGED <<searchVars, candidateVars, viewsVars>>
       \/ part = "search" /\ ProfileStep /\ UNCHANGED <<dailyVars, candidateVars, viewsVars>>
       \/ part = "candidates" /\ CandidatesStep /\ UNCHANGED <<dailyVars, searchVars, viewsVars>>
       \/ part = "views" /\ ViewsStep /\ UNCHANGED <<dailyVars, searchVars, candidateVars>>

PlanningSpec == PlanningInit /\ [][PlanningNext]_<<dailyVars, searchVars, candidateVars, viewsVars, part>>

PlanningTypeOK == DailyTypeOK /\ SearchTypeOK /\ CandidatesTypeOK /\ ViewsTypeOK
=============================================================================
