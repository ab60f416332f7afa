-------------------------------- MODULE Views --------------------------------
(***************************************************************************)
(* What the pages show of the daily snapshots: the growth of all projects  *)
(* (store/sqlite/metrics.go growthHistory), the curve of a topic           *)
(* (GetTopicDetail, topicHistory) and the project list that is read page   *)
(* by page with a cursor (store/sqlite/trends.go ListRepositoryTrends).    *)
(* Snapshots are stored while a reader is between two pages.               *)
(*                                                                         *)
(* A failed snapshot counts like a missing one in all of these queries.    *)
(***************************************************************************)
EXTENDS Integers, SequencesExt, FiniteSetsExt

CONSTANTS Repositories, \* GitHub repository IDs
          None,         \* NULL
          AsOf,         \* the date of the pages; the calendar begins at 0
          HistoryDays,  \* days of a history before AsOf (29 in the code)
          WindowDays,   \* comparison window of the list
          MaxStars,     \* bound: counts
          Limit,        \* repositories of a page
          MaxStored     \* bound: snapshots stored while a list is read

ASSUME ViewsAssumption ==
    /\ Repositories \subseteq Nat \ {0} /\ IsFiniteSet(Repositories)
    /\ {AsOf, HistoryDays, WindowDays, Limit} \subseteq Nat \ {0}
    /\ HistoryDays <= AsOf /\ WindowDays <= AsOf
    /\ {MaxStars, MaxStored} \subseteq Nat
    /\ None \notin Int

VARIABLES star,   \* successful snapshots
          page,   \* what a reader looks at
          stored, \* rows stored since the list was opened (history)
          moved   \* the repository of the cursor moved in the list (history)

viewsVars == <<star, page, stored, moved>>

Calendar  == 0..AsOf
From  == AsOf - HistoryDays
Sorts == {"stars", "delta", "low_growth", "slowdown"}

Home == [kind |-> "home"]

List == [kind : {"list", "end", "error"}, sort : Sorts, after : Repositories \cup {None},
         shown : Seq(Repositories)]

GrowthPoint == [delta : Int \cup {None}, comparable : Nat, gaps : Nat]
TopicPoint  == [stars : Nat \cup {None}, observed : Nat, target : Nat]

View == {Home} \cup List
          \cup [kind : {"dashboard"}, points : [From..AsOf -> GrowthPoint]]
          \cup [kind : {"topic"}, members : SUBSET Repositories,
                points : UNION {[d..AsOf -> TopicPoint] : d \in From..AsOf + 1}]

ViewsTypeOK ==
    /\ star \in [Repositories -> [Calendar -> 0..MaxStars \cup {None}]]
    /\ page.kind = "home" => page = Home
    /\ page.kind \in {"list", "end", "error"} => page \in List
    /\ page.kind = "dashboard" => \A d \in From..AsOf : page.points[d] \in GrowthPoint
    /\ page.kind = "topic" => \A d \in DOMAIN page.points : page.points[d] \in TopicPoint
    /\ stored \subseteq Repositories \X Calendar /\ moved \in BOOLEAN

ViewsInit ==
    /\ star \in [Repositories -> [Calendar -> 0..MaxStars \cup {None}]]
    /\ page = Home
    /\ stored = {}
    /\ moved = FALSE

Observed(r, d) == star[r][d] # None

Stars(members, d) == SumFunction([r \in members |-> star[r][d]])

(***************************************************************************)
(* Growth of all projects.                                                 *)
(***************************************************************************)
(* Faulty variant: only the day before counts as the previous success. *)
Yesterday(r, d) == {e \in Calendar : e = d - 1 /\ Observed(r, e)}

Earlier(r, d) == {e \in Calendar : e < d /\ Observed(r, e)}

PreviousDay(r, d) == Max(Earlier(r, d))

(* growthHistory: each success is compared with the one before it, which   *)
(* may lie before the window and several days back.                        *)
GrowthOn(d) ==
    LET compared == {r \in Repositories : Observed(r, d) /\ Earlier(r, d) # {}}
    IN  [delta      |-> IF compared = {} THEN None
                        ELSE SumFunction([r \in compared |-> star[r][d] - star[r][PreviousDay(r, d)]]),
         comparable |-> Cardinality(compared),
         gaps       |-> Cardinality({r \in compared : d - PreviousDay(r, d) > 1})]

OpenDashboard ==
    /\ page.kind = "home"
    /\ page' = [kind |-> "dashboard", points |-> [d \in From..AsOf |-> GrowthOn(d)]]
    /\ UNCHANGED <<star, stored, moved>>

(***************************************************************************)
(* The curve of a topic.                                                   *)
(***************************************************************************)
(* ListRepositoryMetrics: growth needs a success on both days; NULL is     *)
(* smaller than every value.                                               *)
Growth(r, days) ==
    IF Observed(r, AsOf) /\ Observed(r, AsOf - days) THEN star[r][AsOf] - star[r][AsOf - days] ELSE None

Less(a, b) == b # None /\ (a = None \/ a < b)

Listed(r, s) ==
    LET a == Growth(r, 1)
        b == Growth(s, 1)
    IN  Less(b, a) \/ (a = b /\ r < s)

(* topicMetric: the largest count, the first in the list among equals. *)
Leaders(members) ==
    {r \in members : /\ Observed(r, AsOf)
                     /\ \A s \in members \ {r} :
                           Observed(s, AsOf) => \/ star[s][AsOf] < star[r][AsOf]
                                                \/ star[s][AsOf] = star[r][AsOf] /\ Listed(r, s)}

(* topicHistory: it begins with the first success of a repository that has *)
(* one on the last day, and follows those that have both.                  *)
Starts(members) ==
    {d \in From..AsOf : \E r \in members : Observed(r, d) /\ Observed(r, AsOf)}

(* Faulty variant: everything observed at the end is followed. *)
CohortAtEnd(members, start) == {r \in members : Observed(r, AsOf)}

Cohort(members, start) == {r \in members : Observed(r, start) /\ Observed(r, AsOf)}

TopicOn(cohort, d) ==
    LET observed == {r \in cohort : Observed(r, d)}
    IN  [stars    |-> IF observed = {} THEN None ELSE Stars(observed, d),
         observed |-> Cardinality(observed),
         target   |-> Cardinality(cohort)]

TopicHistory(members) ==
    IF Starts(members) = {} THEN <<>>
    ELSE LET start == Min(Starts(members))
         IN  [d \in start..AsOf |-> TopicOn(Cohort(members, start), d)]

(* The page leaves a gap where not all that is followed was observed. *)
Shown(point) == IF point.observed < point.target THEN [point EXCEPT !.stars = None] ELSE point

OpenTopic(members, excludeLeader) ==
    LET shown   == IF excludeLeader THEN members \ Leaders(members) ELSE members
        history == TopicHistory(shown)
    IN  /\ page.kind = "home"
        /\ page' = [kind |-> "topic", members |-> shown, points |-> [d \in DOMAIN history |-> Shown(history[d])]]
        /\ UNCHANGED <<star, stored, moved>>

(***************************************************************************)
(* The project list.                                                       *)
(***************************************************************************)
Before(days) == AsOf - WindowDays - days

Momentum(r) ==
    IF Growth(r, WindowDays) # None /\ Before(WindowDays) \in Calendar /\ Observed(r, Before(WindowDays))
    THEN star[r][AsOf] - 2 * star[r][Before(0)] + star[r][Before(WindowDays)]
    ELSE None

(* COALESCE(current_stars, last_observed_stars). *)
LastStars(r) ==
    LET days == {d \in Calendar : Observed(r, d)} IN IF days = {} THEN None ELSE star[r][Max(days)]

(* trendFilteredWhere. *)
Listable(sort) ==
    {r \in Repositories :
        /\ sort = "low_growth" => Less(-1, Growth(r, WindowDays))
        /\ sort = "slowdown" => Momentum(r) # None /\ Less(Momentum(r), 0)}

(* trendSortExpression. *)
Key(sort, r) ==
    CASE sort = "stars" -> LastStars(r)
      [] sort = "delta" -> Growth(r, WindowDays)
      [] sort = "low_growth" -> -Growth(r, WindowDays)
      [] sort = "slowdown" -> -Momentum(r)

(* ORDER BY: NULL last, then the key, the stars and the ID. *)
Ahead(sort, r, s) ==
    LET a == Key(sort, r)
        b == Key(sort, s)
    IN  \/ Less(b, a)
        \/ a = b /\ Less(LastStars(s), LastStars(r))
        \/ a = b /\ LastStars(s) = LastStars(r) /\ r < s

(* Faulty variant: the cursor compares no more than the key. *)
RestByKey(sort, after) ==
    {r \in Listable(sort) : after = None \/ (after \in Listable(sort) /\ Less(Key(sort, r), Key(sort, after)))}

(* What follows the cursor; a cursor that is not in the list selects       *)
(* nothing.                                                                *)
Rest(sort, after) ==
    {r \in Listable(sort) : after = None \/ (after \in Listable(sort) /\ Ahead(sort, after, r))}

(* trendCoverage: the size of the whole list, shown on every page. *)
Total(sort) == Cardinality(Listable(sort))

(* ListRepositoryTrends: one row more than the limit tells whether there   *)
(* are more; a cursor without rows is refused.                             *)
RowsAfter(sort, after, shown) ==
    LET rest    == Rest(sort, after)
        Line(r) == Cardinality({s \in rest : Ahead(sort, s, r)}) + 1
        items   == [i \in 1..Min({Limit, Cardinality(rest)}) |-> CHOOSE r \in rest : Line(r) = i]
    IN  [kind  |-> IF rest = {} /\ after # None /\ Total(sort) > 0 THEN "error"
                   ELSE IF Cardinality(rest) > Limit THEN "list" ELSE "end",
         sort  |-> sort,
         after |-> IF items = <<>> THEN after ELSE items[Len(items)],
         shown |-> shown \o items]

OpenList(sort) ==
    /\ page.kind = "home"
    /\ page' = RowsAfter(sort, None, <<>>)
    /\ UNCHANGED <<star, stored, moved>>

ReadOn ==
    /\ page.kind = "list"
    /\ page' = RowsAfter(page.sort, page.after, page.shown)
    /\ UNCHANGED <<star, stored, moved>>

Close ==
    /\ page.kind # "home"
    /\ page' = Home
    /\ stored' = {}
    /\ moved' = FALSE
    /\ UNCHANGED star

Place(sort, r) == <<r \in Listable(sort), IF r \in Listable(sort) THEN Key(sort, r) ELSE None, LastStars(r)>>

(* PutDailySnapshot of another process: a success is final. *)
Store(r, d, n) ==
    /\ page.kind = "list"
    /\ Cardinality(stored) < MaxStored
    /\ ~Observed(r, d)
    /\ star' = [star EXCEPT ![r][d] = n]
    /\ stored' = stored \cup {<<r, d>>}
    /\ page' = page
    /\ moved' = (moved \/ (r = page.after /\ Place(page.sort, r)' # Place(page.sort, r)))

ViewsNext ==
    \/ OpenDashboard
    \/ \E members \in SUBSET Repositories, exclude \in BOOLEAN : OpenTopic(members, exclude)
    \/ \E sort \in Sorts : OpenList(sort)
    \/ ReadOn
    \/ Close
    \/ \E r \in Repositories, d \in Calendar, n \in 0..MaxStars : Store(r, d, n)

ViewsSpec == ViewsInit /\ [][ViewsNext]_viewsVars

(***************************************************************************)
(* Properties.                                                             *)
(***************************************************************************)
(* The growth of the window is counted once whatever days are missing: the *)
(* points add up to what each repository gained between its last success   *)
(* and the one before the window, or its first one (growthHistory).        *)
GrowthIsCountedOnce ==
    LET Seen(r)  == {d \in From..AsOf : Observed(r, d)}
        Old(r)   == {d \in Calendar \ (From..AsOf) : Observed(r, d)}
        Base(r)  == IF Old(r) = {} THEN Min(Seen(r)) ELSE Max(Old(r))
        Gain(r)  == star[r][Max(Seen(r))] - star[r][Base(r)]
        Delta(d) == IF page.points[d].delta = None THEN 0 ELSE page.points[d].delta
    IN  page.kind = "dashboard" =>
           SumFunction([d \in From..AsOf |-> Delta(d)])
               = SumFunction([r \in {s \in Repositories : Seen(s) # {}} |-> Gain(r)])

(* A topic's curve compares one population: its ends are shown, and        *)
(* between any two days that are, it rises by what the same repositories   *)
(* gained, never by projects that came or went (topicHistory).             *)
CurvesCompareOnePopulation ==
    LET days     == DOMAIN page.points
        stars(d) == page.points[d].stars
        followed == {r \in page.members : Observed(r, Min(days)) /\ Observed(r, AsOf)}
    IN  (page.kind = "topic" /\ days # {}) =>
           /\ stars(Min(days)) # None /\ stars(AsOf) # None
           /\ \A d \in days : stars(d) # None =>
                 stars(d) - stars(Min(days))
                    = SumFunction([r \in followed |-> star[r][d] - star[r][Min(days)]])

(* Paging shows every repository of the list once, although snapshots are  *)
(* stored between the pages: one that did not change itself is neither     *)
(* repeated nor skipped, as long as the repository of the cursor keeps its *)
(* place (ListRepositoryTrends).                                           *)
ListShowsEachOnce ==
    (page.kind \in {"list", "end"} /\ ~moved) =>
        \A r \in Repositories \ {cell[1] : cell \in stored} :
            LET times == Cardinality({i \in DOMAIN page.shown : page.shown[i] = r})
            IN  /\ times <= 1
                /\ (page.kind = "end" /\ r \in Listable(page.sort)) => times = 1
=============================================================================
