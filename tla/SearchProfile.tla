---------------------------- MODULE SearchProfile ----------------------------
(***************************************************************************)
(* A query of a search profile (source/github/search.go): one of more than *)
(* MaxItems results is split in two by the number of stars or by a date,   *)
(* recursively, and one of fewer is read page by page.                     *)
(*                                                                         *)
(* Between two requests repositories gain and lose stars, are pushed to    *)
(* and updated, and come to meet the query or cease to, which moves them   *)
(* among the results and between ranges.  Stars, days of creation and of   *)
(* the last push, and times of the last update are numbers up to Today.    *)
(***************************************************************************)
EXTENDS Integers, SequencesExt, FiniteSetsExt

CONSTANTS Matches,    \* repositories that may come to meet the query
          Today,      \* the largest number of stars and the current day
          MaxItems,   \* SearchMaxItems
          PageSize,   \* SearchPerPage
          MaxDepth,   \* max_depth of a profile that partitions
          MaxChanges  \* bound: repositories that change during the search

ASSUME SearchAssumption ==
    /\ {Today, MaxItems, PageSize, MaxDepth, MaxChanges} \subseteq Nat \ {0}
    /\ MaxItems % PageSize = 0
    /\ Matches \subseteq Int /\ IsFiniteSet(Matches)

VARIABLES asked,     \* what the profile partitions and sorts by, and the upper bound of its range
          matching,  \* repositories that meet the query but for that range
          value,     \* the fields of a repository
          find,      \* the search
          changed,   \* repositories that changed during the search (history)
          disturbed  \* results moved across the pages being read (history)

searchVars == <<asked, matching, value, find, changed, disturbed>>

Numbers == 0..Today
Open    == Today + 1

Fields == {"stars", "created", "pushed", "updated"}

Asked == [by    : {"none", "stars", "created", "pushed"},
          sort  : {"stars", "updated"},
          order : {"asc", "desc"},
          hi    : Numbers \cup {Open}]

Range_ == [lo : Numbers, hi : Numbers \cup {Open}, depth : 0..MaxDepth]

Find == [pc         : {"query", "probe", "pages", "done", "failed"},
         ranges     : Seq(Range_),          \* queries to make, the first one next
         query      : Range_,               \* the one being read
         first      : SUBSET Matches,       \* its first page
         page       : 0..(MaxItems \div PageSize),
         pages      : 0..(MaxItems \div PageSize),
         hits       : SUBSET Matches,
         incomplete : BOOLEAN,
         truncated  : BOOLEAN]

Root == [lo |-> 0, hi |-> asked.hi, depth |-> 0]

SearchTypeOK ==
    /\ asked \in Asked
    /\ matching \subseteq Matches
    /\ value \in [Matches -> [Fields -> Numbers]]
    /\ find \in Find
    /\ changed \subseteq Matches
    /\ disturbed \in BOOLEAN

(* Fields that neither partition nor sort may have any value: one will do. *)
Told == {fields \in [Fields -> Numbers] : \A f \in Fields \ {asked.by, asked.sort} : fields[f] = 0}

SearchInit ==
    /\ asked \in Asked
    /\ matching \in SUBSET Matches
    /\ value \in [Matches -> Told]
    /\ find = [pc |-> "query", ranges |-> <<Root>>, query |-> Root, first |-> {}, page |-> 0,
               pages |-> 0, hits |-> {}, incomplete |-> FALSE, truncated |-> FALSE]
    /\ changed = {}
    /\ disturbed = FALSE

(***************************************************************************)
(* GitHub's answers.                                                       *)
(***************************************************************************)
In(fields, query) == asked.by = "none" \/ fields[asked.by] \in query.lo..query.hi

Results(query) == {r \in matching : In(value[r], query)}

(* Of equal ones, GitHub keeps an order of its own. *)
Above(sorting, r, s) ==
    LET mine   == value[r][sorting.sort]
        theirs == value[s][sorting.sort]
    IN  \/ IF sorting.order = "desc" THEN mine > theirs ELSE mine < theirs
        \/ mine = theirs /\ r < s

Higher(sorting, r, query) == {s \in Results(query) : Above(sorting, s, r)}

Page(sorting, query, n) ==
    {r \in Results(query) :
        Cardinality(Higher(sorting, r, query)) \in ((n - 1) * PageSize)..(n * PageSize - 1)}

(***************************************************************************)
(* Splitting.                                                              *)
(***************************************************************************)
(* splitQuery: the last depth and a profile without partition do not split. *)
MaySplit(query) == asked.by # "none" /\ query.depth < MaxDepth

(* splitStars and splitDate: the halves of a range of more than one value. *)
Halves(query, top) ==
    LET middle == query.lo + (top - query.lo) \div 2
    IN  <<[lo |-> query.lo, hi |-> middle, depth |-> query.depth + 1],
          [lo |-> middle + 1, hi |-> top, depth |-> query.depth + 1]>>

Top(query, seen) ==
    IF query.hi # Open THEN query.hi
    ELSE IF asked.by = "stars" THEN Max({value[r]["stars"] : r \in seen})
    ELSE Today

(* Faulty variant: whatever the order. *)
StarSortedAnyhow == asked.sort = "stars"

FirstIsStarSorted == asked.sort = "stars" /\ asked.order = "desc"

(* GitHub shows no more than MaxItems of them. *)
PageCount(total) == Min({Max({1, (total + PageSize - 1) \div PageSize}), MaxItems \div PageSize})

Split(x, top) == [x EXCEPT !.pc = "query", !.ranges = Halves(x.query, top) \o @]

(* addPageHits: a repository that is listed again is one hit. *)
WithHits(x, items) == [x EXCEPT !.hits = @ \cup items]

(* The query is read as far as GitHub shows it. *)
Read(x, pages) ==
    [WithHits(x, x.first) EXCEPT !.pc = IF pages = 1 THEN "query" ELSE "pages",
                                 !.page = 1, !.pages = pages]

(* fetchQuery: the first page, and what its total count asks for.  A first *)
(* page that GitHub calls incomplete shows some of it.                     *)
FirstPage ==
    LET query == Head(find.ranges)
        total == Cardinality(Results(query))
        shown == Page(asked, query, 1)
    IN  /\ find.pc = "query"
        /\ find.ranges # <<>>
        /\ \E partly \in BOOLEAN : \E items \in IF partly THEN {shown, {}} ELSE {shown} :
              LET x    == [find EXCEPT !.ranges = Tail(@), !.query = query, !.first = items,
                                       !.incomplete = @ \/ partly]
                  whole == [x EXCEPT !.truncated = TRUE]
                  probe == /\ query.hi = Open /\ asked.by = "stars"
                           /\ ~FirstIsStarSorted \/ partly \/ items = {}
                  top   == Top(query, items)
              IN  find' = IF total <= MaxItems THEN Read(x, PageCount(total))
                          ELSE IF ~MaySplit(query) THEN Read(whole, PageCount(total))
                          ELSE IF probe THEN [x EXCEPT !.pc = "probe", !.pages = PageCount(total)]
                          ELSE IF top <= query.lo THEN Read(whole, PageCount(total))
                          ELSE Split(x, top)
        /\ UNCHANGED <<asked, matching, value, changed, disturbed>>

(* splitStars asks for the largest count if the first page does not tell:  *)
(* an answer without it ends the splitting.                                *)
ByStars == [sort |-> "stars", order |-> "desc"]

Probe ==
    LET shown == Page(ByStars, find.query, 1)
        top   == Top(find.query, shown)
    IN  /\ find.pc = "probe"
        /\ \E usable \in BOOLEAN :
              find' = IF usable /\ shown # {} /\ top > find.query.lo
                      THEN Split(find, top)
                      ELSE Read([find EXCEPT !.truncated = TRUE], find.pages)
        /\ UNCHANGED <<asked, matching, value, changed, disturbed>>

(* The following pages: an empty one before the end reports the query as   *)
(* incomplete and ends it.                                                 *)
NextPage ==
    LET page  == find.page + 1
        items == Page(asked, find.query, page)
        last  == items = {} \/ page = find.pages
    IN  /\ find.pc = "pages"
        /\ \E partly \in BOOLEAN :
              find' = [WithHits(find, items) EXCEPT
                                   !.page = page, !.incomplete = @ \/ partly \/ items = {},
                                   !.pc = IF last THEN "query" ELSE "pages"]
        /\ UNCHANGED <<asked, matching, value, changed, disturbed>>

(* SearchProfile: an integrity error, or the complete result. *)
SearchEnds ==
    /\ find.pc = "query"
    /\ find.ranges = <<>>
    /\ find' = [find EXCEPT !.pc = IF find.incomplete \/ find.truncated THEN "failed" ELSE "done"]
    /\ UNCHANGED <<asked, matching, value, changed, disturbed>>

(* A request fails for good: the hits so far remain. *)
RequestFails ==
    /\ find.pc \in {"query", "pages"}
    /\ find.pc = "query" => find.ranges # <<>>
    /\ find' = [find EXCEPT !.pc = "failed"]
    /\ UNCHANGED <<asked, matching, value, changed, disturbed>>

(***************************************************************************)
(* Repositories change between two requests.                               *)
(***************************************************************************)
(* A result comes or goes, or falls behind another one: those in between   *)
(* move forward, perhaps to a page that has been read.                     *)
Disturbs(r) ==
    LET results == Results(find.query)
    IN  \/ (r \in results) # (r \in results')
        \/ /\ r \in results
           /\ \E s \in results : Above(asked, r, s) /\ ~Above(asked, r, s)'

Changes(r) ==
    /\ find.pc \notin {"done", "failed"}
    /\ r \in changed \/ Cardinality(changed) < MaxChanges
    /\ UNCHANGED <<asked, find>>
    /\ changed' = changed \cup {r}
    /\ disturbed' = (disturbed \/ (find.pc = "pages" /\ Disturbs(r)))

(* A repository gains or loses a star. *)
Star(r) ==
    /\ "stars" \in {asked.by, asked.sort}
    /\ \E count \in {value[r]["stars"] - 1, value[r]["stars"] + 1} \cap Numbers :
          value' = [value EXCEPT ![r]["stars"] = count]
    /\ UNCHANGED matching
    /\ Changes(r)

(* It is pushed to or updated. *)
Renew(r, f) ==
    /\ f \in {"pushed", "updated"} \cap {asked.by, asked.sort}
    /\ value[r][f] < Today
    /\ value' = [value EXCEPT ![r][f] = Today]
    /\ UNCHANGED matching
    /\ Changes(r)

(* It comes to meet the query, or no longer does: its topics, its language *)
(* or its archiving changed, or it was published, hidden or deleted.       *)
Qualify(r) ==
    /\ matching' = IF r \in matching THEN matching \ {r} ELSE matching \cup {r}
    /\ UNCHANGED value
    /\ Changes(r)

SearchNext ==
    \/ FirstPage \/ Probe \/ NextPage \/ SearchEnds \/ RequestFails
    \/ \E r \in Matches : Star(r) \/ Renew(r, "pushed") \/ Renew(r, "updated") \/ Qualify(r)

SearchSpec == SearchInit /\ [][SearchNext]_searchVars

(***************************************************************************)
(* Properties.                                                             *)
(***************************************************************************)
Steady == {r \in matching \ changed : In(value[r], Root)}

(* A search that reports no doubt about its result has found every         *)
(* repository that kept still: the halves of a range leave nothing out,    *)
(* whatever the profile sorts by, nor do the pages when others move up in  *)
(* between (SearchProfile).  Not covered is a query in which a result      *)
(* came, went or fell behind another one while its pages were read: the    *)
(* next one may slip to a page already read, and only an empty page would  *)
(* be noticed.                                                             *)
CompleteIsWhole ==
    (find.pc = "done" /\ ~disturbed) => Steady \subseteq find.hits
=============================================================================
