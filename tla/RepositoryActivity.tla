------------------------- MODULE RepositoryActivity -------------------------
(***************************************************************************)
(* The activity cache: RefreshActivity (app/activity.go) takes a bounded   *)
(* list of stale repositories, FetchActivity (source/github/activity.go)   *)
(* counts the commits of the last Window days on the default branch of     *)
(* each, page after page, and PutRepositoryActivity                        *)
(* (store/sqlite/activity.go) stores the result.                           *)
(*                                                                         *)
(* Times are ages in ticks: of a commit, of a stored result, of the cutoff *)
(* of a call and then of its result.  A negative age lies in the future.   *)
(* Commits are numbered as they are pushed, so that a branch is the set of *)
(* its commits and their numbers give its order.                           *)
(***************************************************************************)
EXTENDS Integers, Sequences, FiniteSetsExt

CONSTANTS Runners,     \* processes that refresh the cache
          Repos,       \* registered repositories, numbered in the order they were first seen
          Limit,       \* repositories a run takes
          PageSize, ActivityPages,
          Window,      \* days counted
          StaleTicks,  \* age from which a result is stale
          CallTicks,   \* bound: duration of a call
          MaxPushes    \* bound: commits drawn

ASSUME RepositoryActivityAssumption ==
    /\ Repos \subseteq Nat /\ IsFiniteSet(Repos)
    /\ {Limit, PageSize, ActivityPages, Window, StaleTicks} \subseteq Nat \ {0}
    /\ {CallTicks, MaxPushes} \subseteq Nat
    /\ CallTicks < StaleTicks

VARIABLES branch,    \* default branches on GitHub
          pushes,    \* commits drawn
          monitored, \* active repositories that are public
          focus,     \* is_focus
          cached,    \* activity_json
          refresh    \* runs under way

activityVars == <<branch, pushes, monitored, focus, cached, refresh>>

OldAge == Window + CallTicks
Commit == [sha : 1..MaxPushes, age : -1..OldAge]

(* A stored result; NotCached is NULL. *)
Result    == [age : 0..StaleTicks, commits : Nat, complete : BOOLEAN]
NotCached == [age |-> -1, commits |-> 0, complete |-> FALSE]

Report == [target : Nat, success : Nat, failures : Nat, skipped : Nat]

Refresh == [pc        : {"idle", "next", "meta", "head", "page", "put", "done"},
            plan      : Seq(Repos),
            index     : Nat,
            report    : Report,
            failed    : BOOLEAN, \* an error of the store or the configuration ended it
            cancelled : BOOLEAN,
            history   : SUBSET Commit, \* what the pinned head leads to
            page      : Nat,
            seen      : SUBSET (1..MaxPushes),
            complete  : BOOLEAN,
            age       : 0..CallTicks]  \* since the cutoff, then since FetchedAt

NoReport  == [target |-> 0, success |-> 0, failures |-> 0, skipped |-> 0]
NoRefresh == [pc |-> "idle", plan |-> <<>>, index |-> 0, report |-> NoReport, failed |-> FALSE,
              cancelled |-> FALSE, history |-> {}, page |-> 0, seen |-> {}, complete |-> FALSE, age |-> 0]

ActivityTypeOK ==
    /\ branch \in [Repos -> SUBSET Commit]
    /\ pushes \in 0..MaxPushes
    /\ monitored \subseteq Repos /\ focus \subseteq Repos
    /\ cached \in [Repos -> Result \cup {NotCached}]
    /\ refresh \in [Runners -> Refresh]

ActivityInit ==
    /\ branch = [r \in Repos |-> {}]
    /\ pushes = 0
    /\ monitored \in SUBSET Repos /\ focus \in SUBSET Repos
    /\ cached = [r \in Repos |-> NotCached]
    /\ refresh = [p \in Runners |-> NoRefresh]

(***************************************************************************)
(* RefreshActivity.                                                        *)
(***************************************************************************)
(* A forced run takes fresh results too. *)
Stale(r, force) == force \/ cached[r] = NotCached \/ cached[r].age = StaleTicks

(* Faulty variant: no place of their own for repositories never fetched. *)
SeenLater(r, s) == r > s

(* ORDER BY is_focus DESC, never fetched first, first_seen_at DESC. *)
Before(r, s) ==
    LET rank(x) == (IF x \in focus THEN 2 ELSE 0) + (IF cached[x] = NotCached THEN 1 ELSE 0)
    IN  rank(r) > rank(s) \/ (rank(r) = rank(s) /\ r > s)

ActivityCandidates(among, force) ==
    LET stale    == {r \in among \cap monitored : Stale(r, force)}
        Place(r) == Cardinality({s \in stale : Before(s, r)}) + 1
    IN  [i \in 1..Min({Limit, Cardinality(stale)}) |-> CHOOSE r \in stale : Place(r) = i]

Begin(p, plan) ==
    refresh' = [refresh EXCEPT ![p] = [NoRefresh EXCEPT
        !.pc = IF plan = <<>> THEN "done" ELSE "next", !.plan = plan, !.index = 1,
        !.report.target = Len(plan)]]

(* The daily run asks for all repositories, the command line also for      *)
(* those first seen on a date: numbers that follow each other.             *)
StartRefresh(p, among, force) ==
    /\ refresh[p].pc = "idle"
    /\ Begin(p, ActivityCandidates(among, force))
    /\ UNCHANGED <<branch, pushes, monitored, focus, cached>>

EndedAtOnce(p, plan, report, failed) ==
    refresh' = [refresh EXCEPT ![p] = [NoRefresh EXCEPT
        !.pc = "done", !.plan = plan, !.index = 1, !.report = report, !.failed = failed]]

(* The command line names one repository.  One that is not monitored is an *)
(* error, one whose result is fresh is skipped without being a target.     *)
StartSingle(p, r, force) ==
    /\ refresh[p].pc = "idle"
    /\ \/ r \notin monitored /\ EndedAtOnce(p, <<>>, NoReport, TRUE)
       \/ /\ r \in monitored /\ ~Stale(r, force)
          /\ EndedAtOnce(p, <<>>, [NoReport EXCEPT !.skipped = 1], FALSE)
       \/ r \in monitored /\ Stale(r, force) /\ Begin(p, <<r>>)
    /\ UNCHANGED <<branch, pushes, monitored, focus, cached>>

(* The list cannot be read, or there is one but no client: dependencies    *)
(* refuses the configuration after TargetCount is set.                     *)
StartFails(p, among, force) ==
    LET plan == ActivityCandidates(among, force)
    IN  /\ refresh[p].pc = "idle"
        /\ \/ EndedAtOnce(p, <<>>, NoReport, TRUE)
           \/ EndedAtOnce(p, plan, [NoReport EXCEPT !.target = Len(plan)], TRUE)
        /\ UNCHANGED <<branch, pushes, monitored, focus, cached>>

Current(p) == refresh[p].plan[refresh[p].index]

(* Faulty variant: the repository at which the run stops is not counted. *)
LeftAfter(p) == Len(refresh[p].plan) - refresh[p].index

Left(p) == Len(refresh[p].plan) - refresh[p].index + 1

End(p, report, failed) ==
    refresh' = [refresh EXCEPT ![p] = [NoRefresh EXCEPT
        !.pc = "done", !.plan = refresh[p].plan, !.index = refresh[p].index,
        !.report = report, !.failed = failed]]

(* The loop ends, its deadline has passed, or the quota is left to the     *)
(* snapshots; otherwise a call begins.                                     *)
NextRepository(p) ==
    LET x == refresh[p]
    IN  /\ x.pc = "next"
        /\ \/ Left(p) = 0 /\ End(p, x.report, FALSE)
           \/ Left(p) > 0 /\ End(p, [x.report EXCEPT !.skipped = @ + Left(p)], FALSE)
           \/ /\ Left(p) > 0 /\ ~x.cancelled
              /\ refresh' = [refresh EXCEPT ![p].pc = "meta"]
        /\ UNCHANGED <<branch, pushes, monitored, focus, cached>>

Advance(p, report) ==
    refresh' = [refresh EXCEPT ![p] = [NoRefresh EXCEPT
        !.pc = "next", !.plan = refresh[p].plan, !.index = refresh[p].index + 1,
        !.cancelled = refresh[p].cancelled, !.report = report]]

(* FetchActivity returns an error: the run goes on, or stops if GitHub     *)
(* refuses its requests or its context has ended.                          *)
FetchFails(p) ==
    LET failed == [refresh[p].report EXCEPT !.failures = @ + 1]
    IN  /\ refresh[p].pc \in {"meta", "head", "page"}
        /\ \/ ~refresh[p].cancelled /\ Advance(p, failed)
           \/ End(p, [failed EXCEPT !.skipped = @ + Left(p) - 1], FALSE)
        /\ UNCHANGED <<branch, pushes, monitored, focus, cached>>

Answers(p, pc) == refresh[p].pc = pc /\ ~refresh[p].cancelled

ReadRepository(p) ==
    /\ Answers(p, "meta")
    /\ refresh' = [refresh EXCEPT ![p].pc = "head"]
    /\ UNCHANGED <<branch, pushes, monitored, focus, cached>>

(* The newest commit not after the cutoff is pinned: GitHub answers the    *)
(* pages from its history, whatever is pushed meanwhile.  A branch with    *)
(* only future commits has no answer of one commit: an error.              *)
Heads(r, age) == {c \in branch[r] : c.age >= age}

LedToBy(head, commits) == {c \in commits : c.sha <= head.sha}

ReadHead(p) ==
    LET r    == Current(p)
        tips == Heads(r, refresh[p].age)
    IN  /\ Answers(p, "head")
        /\ \/ /\ branch[r] = {}
              /\ refresh' = [refresh EXCEPT ![p] = [@ EXCEPT !.pc = "put", !.complete = TRUE, !.age = 0]]
           \/ \E head \in tips :
                 /\ \A c \in tips : c.sha <= head.sha
                 /\ refresh' = [refresh EXCEPT ![p] = [@ EXCEPT
                        !.pc = "page", !.page = 1, !.history = LedToBy(head, branch[r])]]
        /\ UNCHANGED <<branch, pushes, monitored, focus, cached>>

InWindow(commit, age) == commit.age - age \in 0..(Window - 1)

(* Faulty variant: the pages follow the branch instead of the pinned head. *)
ListedNow(p) == {c.sha : c \in {d \in branch[Current(p)] : InWindow(d, refresh[p].age)}}

(* The commits of the window; GitHub lists them newest first. *)
Listed(p) == {c.sha : c \in {d \in refresh[p].history : InWindow(d, refresh[p].age)}}

Ahead(sha, list) == {s \in list : s > sha}

OnPage(list, page) ==
    {sha \in list : Cardinality(Ahead(sha, list)) \in ((page - 1) * PageSize)..(page * PageSize - 1)}

(* activityHasNext: GitHub links to a page after the one it answers. *)
HasNext(list, page) == Cardinality(list) > page * PageSize

(* Commits are counted once each; without a next page the result is        *)
(* complete, after the last page allowed it is cut off.                    *)
ReadPage(p) ==
    LET x    == refresh[p]
        list == Listed(p)
        more == HasNext(list, x.page)
        seen == x.seen \cup OnPage(list, x.page)
    IN  /\ Answers(p, "page")
        /\ refresh' = [refresh EXCEPT ![p] =
              IF more /\ x.page < ActivityPages
              THEN [x EXCEPT !.seen = seen, !.page = @ + 1]
              ELSE [x EXCEPT !.seen = seen, !.pc = "put", !.complete = ~more, !.age = 0]]
        /\ UNCHANGED <<branch, pushes, monitored, focus, cached>>

(* Faulty variant: what is fetched is stored. *)
IsLater(x, r) == TRUE

(* FetchedAt must be after the one that is stored. *)
IsNewer(x, r) == cached[r] = NotCached \/ x.age < cached[r].age

(* prepareRepositoryActivity: of its checks, the one that what GitHub      *)
(* answers decides.                                                        *)
Acceptable(x) == x.complete \/ x.seen # {}

(* PutRepositoryActivity: an older result is dropped without an error.     *)
StoreResult(p) ==
    LET x == refresh[p]
        r == Current(p)
    IN  /\ x.pc = "put"
        /\ Acceptable(x)
        /\ cached' = IF IsNewer(x, r)
                     THEN [cached EXCEPT ![r] = [age |-> x.age, commits |-> Cardinality(x.seen),
                                                 complete |-> x.complete]]
                     ELSE cached
        /\ Advance(p, [x.report EXCEPT !.success = @ + 1])
        /\ UNCHANGED <<branch, pushes, monitored, focus>>

(* An error of the store, or a result it refuses, ends the run: neither    *)
(* this repository nor those after it are counted.                         *)
StoreFails(p) ==
    /\ refresh[p].pc = "put"
    /\ End(p, refresh[p].report, TRUE)
    /\ UNCHANGED <<branch, pushes, monitored, focus, cached>>

(* The process dies. *)
AbortRefresh(p) ==
    /\ refresh[p].pc \notin {"idle", "done"}
    /\ refresh' = [refresh EXCEPT ![p] = NoRefresh]
    /\ UNCHANGED <<branch, pushes, monitored, focus, cached>>

(* The report is written out. *)
PrintReport(p) ==
    /\ refresh[p].pc = "done"
    /\ refresh' = [refresh EXCEPT ![p] = NoRefresh]
    /\ UNCHANGED <<branch, pushes, monitored, focus, cached>>

(* The three minutes of the daily run, or a signal. *)
CancelRefresh(p) ==
    /\ refresh[p].pc \notin {"idle", "done", "put"}
    /\ ~refresh[p].cancelled
    /\ refresh' = [refresh EXCEPT ![p].cancelled = TRUE]
    /\ UNCHANGED <<branch, pushes, monitored, focus, cached>>

(***************************************************************************)
(* GitHub, the watch commands and time.                                    *)
(***************************************************************************)
(* A commit is pushed or replaces the newest one; committers date it.      *)
Replaced(commits) == {c \in commits : \E d \in commits : d.sha > c.sha}

Push(r) ==
    /\ pushes < MaxPushes
    /\ pushes' = pushes + 1
    /\ \E age \in {-1, 0, Window}, base \in {branch[r], Replaced(branch[r])} :
          branch' = [branch EXCEPT ![r] = base \cup {[sha |-> pushes', age |-> age]}]
    /\ UNCHANGED <<monitored, focus, cached, refresh>>

(* watch pause and resume, and the snapshots' GitHub status. *)
Monitor(r) ==
    /\ monitored' = IF r \in monitored THEN monitored \ {r} ELSE monitored \cup {r}
    /\ UNCHANGED <<branch, pushes, focus, cached, refresh>>

(* watch add --focus: the program never takes the focus back. *)
Follow(r) ==
    /\ monitored' = monitored \cup {r}
    /\ focus' = focus \cup {r}
    /\ UNCHANGED <<branch, pushes, cached, refresh>>

Aged(commits) == {[c EXCEPT !.age = Min({@ + 1, OldAge})] : c \in commits}

AgeTick ==
    /\ \A p \in Runners : refresh[p].pc \notin {"idle", "next", "done"} => refresh[p].age < CallTicks
    /\ branch' = [r \in Repos |-> Aged(branch[r])]
    /\ cached' = [r \in Repos |-> IF cached[r] = NotCached THEN NotCached
                                  ELSE [cached[r] EXCEPT !.age = Min({@ + 1, StaleTicks})]]
    /\ refresh' = [p \in Runners |->
          IF refresh[p].pc \in {"idle", "next", "done"} THEN refresh[p]
          ELSE [refresh[p] EXCEPT !.age = @ + 1, !.history = Aged(@)]]
    /\ UNCHANGED <<pushes, monitored, focus>>

CallStep(p) == ReadRepository(p) \/ ReadHead(p) \/ ReadPage(p)

RefreshStep(p) ==
    \/ NextRepository(p) \/ CallStep(p) \/ FetchFails(p)
    \/ StoreResult(p) \/ StoreFails(p) \/ PrintReport(p)

Cohorts == {Repos} \cup {Repos \cap (a..b) : a \in Repos, b \in Repos}

ActivityNext ==
    \/ \E p \in Runners :
          \/ \E among \in Cohorts, force \in BOOLEAN :
                StartRefresh(p, among, force) \/ StartFails(p, among, force)
          \/ \E r \in Repos, force \in BOOLEAN : StartSingle(p, r, force)
          \/ RefreshStep(p) \/ AbortRefresh(p) \/ CancelRefresh(p)
    \/ \E r \in Repos : Push(r) \/ Monitor(r) \/ Follow(r)
    \/ AgeTick

(* The daily run comes back, and its steps follow each other. *)
ActivityFairness ==
    \A p \in Runners : SF_activityVars(StartRefresh(p, Repos, FALSE)) /\ WF_activityVars(RefreshStep(p))

ActivitySpec == ActivityInit /\ [][ActivityNext]_activityVars /\ ActivityFairness

(***************************************************************************)
(* Properties.                                                             *)
(***************************************************************************)
(* A complete result counts every commit of the window on the pinned       *)
(* history once, although the branch moves between two pages; one that is  *)
(* cut off counts some of them, but never none (FetchActivity).            *)
CountsAreWhole ==
    [][\A p \in Runners :
          (ReadPage(p) /\ refresh'[p].pc = "put") =>
             LET x      == refresh[p]
                 window == {c.sha : c \in {d \in x.history : InWindow(d, x.age)}}
             IN  IF refresh'[p].complete THEN refresh'[p].seen = window
                 ELSE refresh'[p].seen \subseteq window /\ refresh'[p].seen \notin {{}, window}]_activityVars

(* A stored result is replaced only by one that was fetched later, and     *)
(* never cleared: two processes may fetch the same repository, and the     *)
(* slower one may come back last (PutRepositoryActivity).                  *)
CacheMovesForward ==
    [][AgeTick \/ \A r \in Repos : cached[r] # NotCached =>
          cached'[r].age \in 0..cached[r].age]_activityVars

(* What a report says of the list.  A run that works its list off, or      *)
(* stops for a signal, its deadline, the quota or a refusal of GitHub,     *)
(* counts each repository once.  One that an error of the store or the     *)
(* configuration ends counts those before the error, and the target is     *)
(* still the whole list; the daily run keeps that report beside the error. *)
(* A single repository whose result is fresh is skipped, not a target.     *)
(* Each success counted left a result in the cache, whichever process      *)
(* stored it (RefreshActivity).                                            *)
ReportAddsUp ==
    \A p \in Runners : refresh[p].pc = "done" =>
        LET x       == refresh[p]
            counted == x.report.success + x.report.failures + x.report.skipped
        IN  /\ x.report.target = Len(x.plan)
            /\ \/ counted = Len(x.plan)
               \/ x.failed /\ counted = x.index - 1
               \/ x.plan = <<>> /\ x.report.skipped = 1 /\ counted = 1
            /\ x.report.success <= Cardinality({i \in DOMAIN x.plan : cached[x.plan[i]] # NotCached})

(* A run is stopped: by a signal, its deadline, an error of the store or   *)
(* the configuration, a crash, the quota, or by a failure of GitHub that   *)
(* is not one of a repository in broken.                                   *)
Interruption(p, broken) ==
    \/ AbortRefresh(p) \/ CancelRefresh(p) \/ StoreFails(p)
    \/ NextRepository(p) /\ Left(p) > 0 /\ refresh'[p].pc = "done"
    \/ FetchFails(p) /\ (Current(p) \notin broken \/ refresh'[p].pc = "done")

(* Those that can come before r in every run's list: in focus, again and   *)
(* again stale; or newer, and never answered.                              *)
Rivals(r, newer) == IF r \in focus THEN focus \cap newer ELSE focus \cup newer

(* A monitored repository that GitHub answers for gets its first result,   *)
(* unless runs are stopped forever, although all older and some newer ones *)
(* fail forever and others go stale again or come into focus: as long as   *)
(* its rivals are fewer than the places of a run.  With Limit rivals (the  *)
(* limit may be 1) it may wait forever, since the order of                 *)
(* ActivityCandidates leaves it no place.                                  *)
EachIsObserved ==
    \A r \in Repos : \A newer \in SUBSET {s \in Repos : s > r} :
       \/ []<><<\E p \in Runners : Interruption(p, newer \cup {s \in Repos : s < r})>>_activityVars
       \/ (cached[r] = NotCached /\ r \in monitored /\ Cardinality(Rivals(r, newer)) < Limit) ~>
             (cached[r] # NotCached \/ r \notin monitored \/ Cardinality(Rivals(r, newer)) >= Limit)
=============================================================================
