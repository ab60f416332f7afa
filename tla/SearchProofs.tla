---------------------------- MODULE SearchProofs ----------------------------
(***************************************************************************)
(* Theorems about SearchProfile, for every number of repositories, values  *)
(* of a field, limit, page size and depth.                                 *)
(*                                                                         *)
(* A search that reports a complete result has lost nobody who kept still. *)
(* The inductive invariant SearchInv follows such a repository: it is a    *)
(* hit, or in a query to make, or on a page to read of the current one     *)
(* (Awaited).  A query is split into halves that cover it, or read to its  *)
(* last page, or leaves a doubt.                                           *)
(***************************************************************************)
EXTENDS SearchProfile, DataLemmas, SequenceTheorems

(***************************************************************************)
(* The inductive invariant.                                                *)
(***************************************************************************)
(* Full pages: the number of a page never exceeds it. *)
MaxShown == MaxItems \div PageSize

(* Nothing so far keeps the result from being reported as complete. *)
Undoubted(x) == ~x.incomplete /\ ~x.truncated

(* A repository is still to come: in a query to make, in one that waits    *)
(* for its largest count, or on a later page of the one being read.        *)
Awaited(x, r) ==
    \/ \E i \in DOMAIN x.ranges : In(value[r], x.ranges[i])
    \/ x.pc = "probe" /\ In(value[r], x.query)
    \/ /\ x.pc = "pages"
       /\ In(value[r], x.query)
       /\ Cardinality(Higher(asked, r, x.query)) >= x.page * PageSize

(* While there is no doubt about the result, the pages to read hold all    *)
(* results of the query, and whoever kept still is a hit or still to come. *)
FindOK(x) ==
    /\ x \in Find
    /\ x.pc = "pages" => x.page \in 1..(x.pages - 1)
    /\ x.pc = "probe" => MaySplit(x.query) /\ x.pages # 0
    /\ x.pc = "done" => x.ranges = <<>> /\ Undoubted(x)
    /\ (x.pc = "pages" /\ Undoubted(x) /\ ~disturbed) =>
          Cardinality(Results(x.query)) <= x.pages * PageSize
    /\ (x.pc # "failed" /\ Undoubted(x) /\ ~disturbed) =>
          \A r \in Steady : r \in x.hits \/ Awaited(x, r)

SearchInv ==
    /\ SearchTypeOK
    /\ FindOK(find)

(* What the assumption says of each constant. *)
LEMMA SearchConstants ==
    /\ Today \in Nat \ {0} /\ MaxItems \in Nat \ {0} /\ PageSize \in Nat \ {0}
    /\ MaxDepth \in Nat \ {0} /\ MaxChanges \in Nat \ {0}
    /\ Matches \subseteq Int /\ IsFiniteSet(Matches)
    /\ MaxShown \in Nat \ {0} /\ MaxShown * PageSize = MaxItems
<1>1. /\ Today \in Nat \ {0} /\ MaxItems \in Nat \ {0} /\ PageSize \in Nat \ {0}
      /\ MaxDepth \in Nat \ {0} /\ MaxChanges \in Nat \ {0}
      /\ Matches \subseteq Int /\ IsFiniteSet(Matches) /\ MaxItems % PageSize = 0
  BY SearchAssumption
<1>2. ASSUME NEW m \in Nat \ {0}, NEW p \in Nat \ {0}, m % p = 0
      PROVE  m \div p \in Nat \ {0} /\ (m \div p) * p = m
  <2>1. m = (p * (m \div p)) + (m % p) /\ m \div p \in Int
    OBVIOUS
  <2> DEFINE q == m \div p
  <2>2. q \in Int /\ m = p * q
    BY <2>1, <1>2
  <2> HIDE DEF q
  <2>3. p * q = q * p
    BY <2>2
  <2>4. q > 0
    <3> SUFFICES ASSUME q <= 0 PROVE FALSE
      BY <2>2
    <3>1. p * q <= 0
      BY <2>2
    <3> QED BY <3>1, <2>2
  <2> QED BY <2>2, <2>3, <2>4 DEF q
<1> QED BY <1>1, <1>2 DEF MaxShown

(* The pages of a query hold its results, unless there are too many. *)
LEMMA PagesHoldResults ==
    ASSUME NEW total \in Nat
    PROVE  /\ PageCount(total) \in 1..MaxShown
           /\ total <= MaxItems => total <= PageCount(total) * PageSize
<1> DEFINE q == (total + PageSize - 1) \div PageSize
           m == IF q > 1 THEN q ELSE 1
           n == IF MaxShown < m THEN MaxShown ELSE m
<1>1. PageSize \in Nat \ {0} /\ MaxShown \in Nat \ {0} /\ MaxShown * PageSize = MaxItems
  BY SearchConstants
<1>2. q \in Int /\ total + PageSize - 1 < PageSize * q + PageSize
  BY <1>1
<1> HIDE DEF q
<1>3. Max({1, q}) = m
  BY <1>2, MaxOfTwo
<1>4. m \in Int /\ m >= 1 /\ m >= q
  BY <1>2
<1> HIDE DEF m
<1>5. PageCount(total) = n
  <2>1. PageCount(total) = Min({m, MaxShown})
    BY <1>3 DEF PageCount, q, MaxShown
  <2>2. MaxShown \in Int
    BY <1>1
  <2> QED BY <2>1, <2>2, <1>4, MinOfTwo
<1>6. n \in 1..MaxShown
  BY <1>1, <1>4
<1>7. ASSUME total <= MaxItems PROVE total <= n * PageSize
  <2>1. CASE n = MaxShown
    BY <2>1, <1>1, <1>7
  <2>2. CASE n = m
    <3>1. PageSize * q <= PageSize * m /\ PageSize * m = m * PageSize
      BY <1>1, <1>2, <1>4
    <3>2. PageSize * q \in Int /\ m * PageSize \in Int
      BY <1>1, <1>2, <1>4
    <3> QED BY <2>2, <3>1, <3>2, <1>1, <1>2
  <2> QED BY <2>1, <2>2
<1> QED BY <1>5, <1>6, <1>7

LEMMA ValueTyped ==
    ASSUME SearchTypeOK, NEW r \in Matches, NEW f \in Fields
    PROVE  value[r][f] \in 0..Today /\ value[r][f] \in Int
<1>1. value[r][f] \in Numbers
  BY DEF SearchTypeOK
<1> QED BY <1>1, SearchConstants DEF Numbers

LEMMA SortField ==
    SearchTypeOK => asked.sort \in Fields /\ (asked.by # "none" => asked.by \in Fields)
BY DEF SearchTypeOK, Asked, Fields

LEMMA ResultsTyped == ASSUME SearchTypeOK, NEW query PROVE Results(query) \in SUBSET Matches
BY DEF Results, SearchTypeOK

LEMMA PageTyped ==
    ASSUME SearchTypeOK, NEW sorting, NEW query, NEW n
    PROVE  Page(sorting, query, n) \in SUBSET Matches
BY ResultsTyped DEF Page

(* Results are in a strict total order, and each has its place in it. *)
LEMMA ResultsOrdered ==
    ASSUME SearchTypeOK, NEW sorting, sorting.sort \in Fields, NEW query
    PROVE  /\ IsFiniteSet(Results(query)) /\ Cardinality(Results(query)) \in Nat
           /\ \A r \in Results(query) :
                 /\ IsFiniteSet(Higher(sorting, r, query))
                 /\ Cardinality(Higher(sorting, r, query)) \in Nat
                 /\ Cardinality(Higher(sorting, r, query)) < Cardinality(Results(query))
           /\ Results(query) # {} =>
                 \E m \in Page(sorting, query, 1) :
                    \A r \in Results(query) : ~Above(sorting, r, m)
<1> DEFINE S == Results(query)
           R == {p \in S \X S : Above(sorting, p[1], p[2])}
           w(r) == value[r][sorting.sort]
           v(r) == IF sorting.order = "desc" THEN w(r) ELSE -w(r)
<1>1. S \in SUBSET Matches /\ IsFiniteSet(S) /\ Cardinality(S) \in Nat
  <2>1. S \in SUBSET Matches
    BY ResultsTyped
  <2> QED BY <2>1, SearchConstants, FS_Subset, FS_CardinalityType
<1>2. \A r \in S : r \in Int /\ w(r) \in Int
  BY <1>1, ValueTyped, SearchConstants
<1>3. \A r, s \in S : Above(sorting, r, s) <=> v(r) > v(s) \/ (v(r) = v(s) /\ r < s)
  <2> SUFFICES ASSUME NEW r \in S, NEW s \in S
               PROVE  Above(sorting, r, s) <=> v(r) > v(s) \/ (v(r) = v(s) /\ r < s)
    OBVIOUS
  <2>1. w(r) \in Int /\ w(s) \in Int
    BY <1>2
  <2>2. Above(sorting, r, s) <=>
           \/ IF sorting.order = "desc" THEN w(r) > w(s) ELSE w(r) < w(s)
           \/ w(r) = w(s) /\ r < s
    BY DEF Above
  <2> HIDE DEF w
  <2> QED BY <2>1, <2>2
<1>4. \A r, s \in S : <<r, s>> \in R <=> v(r) > v(s) \/ (v(r) = v(s) /\ r < s)
  <2> SUFFICES ASSUME NEW r \in S, NEW s \in S
               PROVE  <<r, s>> \in R <=> v(r) > v(s) \/ (v(r) = v(s) /\ r < s)
    OBVIOUS
  <2>1. <<r, s>> \in R <=> Above(sorting, r, s)
    BY DEF R
  <2> HIDE DEF R, v, S
  <2> QED BY <2>1, <1>3
<1>5. \A r \in S : r \in Int /\ v(r) \in Int
  <2> HIDE DEF w
  <2> QED BY <1>2
<1> HIDE DEF v, w
<1>6. Orders(R, S)
  <2> HIDE DEF R, S
  <2> QED BY <1>4, <1>5 DEF Orders
<1>7. \A r \in S : Higher(sorting, r, query) = Under(r, S, R)
  <2> SUFFICES ASSUME NEW r \in S PROVE Higher(sorting, r, query) = Under(r, S, R)
    OBVIOUS
  <2>1. \A s \in S : Above(sorting, s, r) <=> <<s, r>> \in R
    BY DEF R
  <2> QED BY <2>1 DEF Higher, Under, S
<1>8. ASSUME NEW r \in S
      PROVE  /\ Higher(sorting, r, query) \in SUBSET S /\ IsFiniteSet(Higher(sorting, r, query))
             /\ Cardinality(Higher(sorting, r, query)) \in 0..(Cardinality(S) - 1)
  <2>1. Higher(sorting, r, query) \in SUBSET S
    BY DEF Higher, S
  <2>2. IsFiniteSet(Higher(sorting, r, query))
    <3> HIDE DEF S
    <3> QED BY <2>1, <1>1, FS_Subset
  <2>3. Cardinality(Under(r, S, R)) \in 0..(Cardinality(S) - 1)
    <3> HIDE DEF S, R
    <3> QED BY <1>1, <1>6, PlacesAreTaken
  <2> QED BY <2>1, <2>2, <2>3, <1>7
<1>9. ASSUME S # {}
      PROVE  \E m \in Page(sorting, query, 1) : \A r \in S : ~Above(sorting, r, m)
  <2> HIDE DEF S, R
  <2>1. Cardinality(S) # 0
    BY <1>1, <1>9, FS_EmptySet
  <2>2. 0 \in 0..(Cardinality(S) - 1)
    BY <1>1, <2>1
  <2>3. PICK m \in S : Cardinality(Under(m, S, R)) = 0
    BY <2>2, <1>1, <1>6, PlacesAreTaken
  <2>4. Higher(sorting, m, query) = {} /\ Cardinality(Higher(sorting, m, query)) = 0
    <3>1. Higher(sorting, m, query) = Under(m, S, R) /\ IsFiniteSet(Higher(sorting, m, query))
      BY <1>7, <1>8
    <3> QED BY <3>1, <2>3, FS_EmptySet
  <2>5. m \in Page(sorting, query, 1)
    <3>1. (1 - 1) * PageSize = 0 /\ 1 * PageSize - 1 \in Nat
      BY SearchConstants
    <3>2. Cardinality(Higher(sorting, m, query)) \in ((1 - 1) * PageSize)..(1 * PageSize - 1)
      BY <3>1, <2>4
    <3> QED BY <3>2 DEF Page, S
  <2>6. ASSUME NEW r \in S PROVE ~Above(sorting, r, m)
    BY <2>4, <2>6 DEF Higher, S
  <2> QED BY <2>5, <2>6
<1>10. \A r \in S : Cardinality(Higher(sorting, r, query)) \in Nat
                    /\ Cardinality(Higher(sorting, r, query)) < Cardinality(S)
  BY <1>1, <1>8
<1> QED BY <1>1, <1>8, <1>9, <1>10 DEF S

LEMMA ByStarsSorts == ByStars.sort = "stars" /\ ByStars.order = "desc" /\ ByStars.sort \in Fields
BY DEF ByStars, Fields

(* The first page of a profile that sorts by falling stars is the probe's. *)
LEMMA FirstIsProbe ==
    ASSUME FirstIsStarSorted, NEW query
    PROVE  Page(asked, query, 1) = Page(ByStars, query, 1)
BY DEF FirstIsStarSorted, Page, Higher, Above, ByStars

LEMMA RangeTyped ==
    ASSUME NEW query \in Range_
    PROVE  /\ query.lo \in 0..Today /\ query.lo \in Int /\ query.hi \in Int
           /\ query.hi # Open => query.hi \in Numbers
           /\ query.depth \in 0..MaxDepth
BY SearchConstants DEF Range_, Numbers, Open

(* The top of a range: what splits it is a number, and nothing that        *)
(* matches is above it if it was read from all of the first page.          *)
LEMMA TopTyped ==
    ASSUME SearchTypeOK, NEW query \in Range_, NEW seen \in SUBSET Matches,
           seen # {} \/ query.hi # Open \/ asked.by # "stars"
    PROVE  Top(query, seen) \in Numbers
<1>1. CASE query.hi # Open
  BY <1>1, RangeTyped DEF Top
<1>2. CASE query.hi = Open /\ asked.by # "stars"
  BY <1>2, SearchConstants DEF Top, Numbers
<1>3. CASE query.hi = Open /\ asked.by = "stars"
  <2> DEFINE counts == {value[r]["stars"] : r \in seen}
             f == [r \in Matches |-> value[r]["stars"]]
  <2>1. IsFiniteSet(seen)
    BY SearchConstants, FS_Subset
  <2>2. counts = {f[r] : r \in seen}
    OBVIOUS
  <2>3. IsFiniteSet(counts)
    <3> HIDE DEF f, counts
    <3> QED BY <2>1, <2>2, ImageIsFinite
  <2>4. \A r \in seen : value[r]["stars"] \in Numbers
    BY ValueTyped DEF Fields, Numbers
  <2>5. counts \in SUBSET Numbers /\ counts \in SUBSET Int /\ counts # {}
    BY <1>3, <2>4 DEF Numbers
  <2> HIDE DEF counts
  <2>6. Max(counts) \in counts
    BY <2>3, <2>5, FiniteMax
  <2> QED BY <1>3, <2>5, <2>6 DEF Top, counts
<1> QED BY <1>1, <1>2, <1>3

LEMMA ResultInRange ==
    ASSUME SearchTypeOK, asked.by # "none", NEW query \in Range_, NEW r \in Results(query)
    PROVE  /\ r \in Matches /\ value[r][asked.by] \in 0..Today /\ value[r][asked.by] \in Int
           /\ query.lo <= value[r][asked.by] /\ value[r][asked.by] <= query.hi
<1>1. r \in Matches /\ asked.by \in Fields
  BY SortField, ResultsTyped
<1>2. value[r][asked.by] \in 0..Today /\ value[r][asked.by] \in Int
  BY <1>1, ValueTyped
<1>3. value[r][asked.by] \in query.lo..query.hi
  BY DEF Results, In
<1> QED BY <1>1, <1>2, <1>3, RangeTyped

LEMMA TopIsAbove ==
    ASSUME SearchTypeOK, asked.by # "none", NEW query \in Range_, NEW r \in Results(query),
           NEW seen, (query.hi = Open /\ asked.by = "stars") => seen = Page(ByStars, query, 1)
    PROVE  value[r][asked.by] <= Top(query, seen)
<1>1. /\ r \in Matches /\ value[r][asked.by] \in 0..Today /\ value[r][asked.by] \in Int
      /\ value[r][asked.by] <= query.hi
  BY ResultInRange
<1>2. CASE query.hi # Open
  BY <1>1, <1>2 DEF Top
<1>3. CASE query.hi = Open /\ asked.by # "stars"
  BY <1>1, <1>3 DEF Top
<1>4. CASE query.hi = Open /\ asked.by = "stars"
  <2> DEFINE counts == {value[s]["stars"] : s \in seen}
             f == [s \in Matches |-> value[s]["stars"]]
  <2>1. seen = Page(ByStars, query, 1) /\ seen \in SUBSET Matches
    BY <1>4, PageTyped
  <2>2. IsFiniteSet(seen)
    BY <2>1, SearchConstants, FS_Subset
  <2>3. counts = {f[s] : s \in seen}
    BY <2>1
  <2>4. IsFiniteSet(counts)
    <3> HIDE DEF f, counts
    <3> QED BY <2>1, <2>2, <2>3, ImageIsFinite
  <2>5. \A s \in seen : value[s]["stars"] \in Int
    BY <2>1, ValueTyped DEF Fields
  <2>6. PICK m \in seen : ~Above(ByStars, r, m)
    BY <2>1, ResultsOrdered, ByStarsSorts
  <2>7. value[m]["stars"] \in counts /\ counts \in SUBSET Int
    BY <2>5
  <2>8. Top(query, seen) = Max(counts)
    BY <1>4 DEF Top
  <2> HIDE DEF counts
  <2>9. Max(counts) \in Int /\ Max(counts) >= value[m]["stars"]
    BY <2>4, <2>7, FiniteMax
  <2>10. ~(value[r]["stars"] > value[m]["stars"]) /\ value[m]["stars"] \in Int
    BY <2>5, <2>6, ByStarsSorts DEF Above
  <2>11. value[r]["stars"] <= Top(query, seen)
    BY <1>1, <1>4, <2>8, <2>9, <2>10
  <2> QED BY <1>4, <2>11
<1> QED BY <1>2, <1>3, <1>4

(* The halves of a range cover it up to its top. *)
LEMMA HalvesCover ==
    ASSUME NEW query \in Range_, NEW top \in Numbers, query.lo < top, query.depth < MaxDepth
    PROVE  /\ Halves(query, top) \in Seq(Range_)
           /\ Len(Halves(query, top)) = 2
           /\ \A v \in Int : (query.lo <= v /\ v <= top) =>
                 \E i \in 1..2 : v \in Halves(query, top)[i].lo..Halves(query, top)[i].hi
<1> DEFINE lo == query.lo
           half == (top - lo) \div 2
           middle == lo + half
           a == [lo |-> lo, hi |-> middle, depth |-> query.depth + 1]
           b == [lo |-> middle + 1, hi |-> top, depth |-> query.depth + 1]
<1>1. lo \in Int /\ lo >= 0 /\ lo < top /\ top \in Int /\ top <= Today /\ Today \in Int /\ MaxDepth \in Int
      /\ query.depth \in 0..MaxDepth
  BY RangeTyped, SearchConstants DEF Numbers
<1>2. Halves(query, top) = <<a, b>>
  BY DEF Halves
<1>3. half \in Int /\ half >= 0 /\ half < top - lo
  BY <1>1
<1> HIDE DEF half, lo
<1>4. middle \in Int /\ lo <= middle /\ middle < top
  BY <1>1, <1>3
<1>5. query.lo = lo
  BY DEF lo
<1> HIDE DEF middle
<1>6. lo \in Numbers /\ middle \in Numbers /\ middle + 1 \in Numbers /\ query.depth + 1 \in 0..MaxDepth
  BY <1>1, <1>4 DEF Numbers
<1>7. a \in Range_ /\ b \in Range_
  BY <1>6 DEF Range_
<1>8. \A v \in Int : (lo <= v /\ v <= top) => v \in lo..middle \/ v \in (middle + 1)..top
  BY <1>1, <1>4
<1>9. a.lo = lo /\ a.hi = middle /\ b.lo = middle + 1 /\ b.hi = top
  OBVIOUS
<1> HIDE DEF a, b
<1> QED BY <1>2, <1>5, <1>7, <1>8, <1>9

(* What is in two sequences is in the one that joins them. *)
LEMMA Appended ==
    ASSUME NEW S, NEW s \in Seq(S), NEW t \in Seq(S)
    PROVE  /\ s \o t \in Seq(S)
           /\ \A i \in DOMAIN s : \E j \in DOMAIN (s \o t) : (s \o t)[j] = s[i]
           /\ \A i \in DOMAIN t : \E j \in DOMAIN (s \o t) : (s \o t)[j] = t[i]
<1> DEFINE u == s \o t
           m == Len(s)
           n == Len(t)
<1>1. /\ u \in Seq(S) /\ Len(u) = m + n
      /\ \A i \in 1..(m + n) : u[i] = IF i <= m THEN s[i] ELSE t[i - m]
  BY ConcatProperties
<1>2. m \in Nat /\ n \in Nat /\ DOMAIN s = 1..m /\ DOMAIN t = 1..n
  OBVIOUS
<1> HIDE DEF u, m, n
<1>3. DOMAIN u = 1..(m + n)
  BY <1>1
<1>4. \A i \in 1..m : i \in 1..(m + n) /\ u[i] = s[i]
  BY <1>1, <1>2
<1>5. \A i \in 1..n : m + i \in 1..(m + n) /\ u[m + i] = t[i]
  BY <1>1, <1>2
<1> QED BY <1>1, <1>2, <1>3, <1>4, <1>5 DEF u

(* A repository in a query that is to be made. *)
Queued(x, r) == \E i \in DOMAIN x.ranges : In(value[r], x.ranges[i])

LEMMA SplitKeeps ==
    ASSUME SearchTypeOK, NEW x \in Find, MaySplit(x.query),
           NEW top \in Numbers, x.query.lo < top
    PROVE  /\ Split(x, top) \in Find
           /\ Split(x, top).pc = "query" /\ Split(x, top).hits = x.hits
           /\ Undoubted(Split(x, top)) = Undoubted(x)
           /\ \A r \in Matches : Queued(x, r) => Queued(Split(x, top), r)
           /\ \A r \in Results(x.query) :
                 value[r][asked.by] <= top => Queued(Split(x, top), r)
<1> DEFINE y == Split(x, top)
           h == Halves(x.query, top)
<1>1. x.query \in Range_ /\ x.ranges \in Seq(Range_) /\ x.query.depth < MaxDepth /\ asked.by # "none"
  BY DEF Find, MaySplit
<1>2. /\ h \in Seq(Range_) /\ Len(h) = 2
      /\ \A v \in Int : (x.query.lo <= v /\ v <= top) => \E i \in 1..2 : v \in h[i].lo..h[i].hi
  BY <1>1, HalvesCover
<1> HIDE DEF h
<1>3. h \o x.ranges \in Seq(Range_)
  BY <1>1, <1>2
<1>4. y = [x EXCEPT !.pc = "query", !.ranges = h \o x.ranges]
  BY DEF Split, h
<1>5. y \in Find /\ y.pc = "query" /\ y.hits = x.hits /\ y.ranges = h \o x.ranges
      /\ y.incomplete = x.incomplete /\ y.truncated = x.truncated
  BY <1>3, <1>4 DEF Find
<1> HIDE DEF y
<1>6. /\ \A i \in DOMAIN h : \E j \in DOMAIN y.ranges : y.ranges[j] = h[i]
      /\ \A i \in DOMAIN x.ranges : \E j \in DOMAIN y.ranges : y.ranges[j] = x.ranges[i]
  <2> DEFINE s == x.ranges
  <2>1. h \in Seq(Range_) /\ s \in Seq(Range_) /\ y.ranges = h \o s
    BY <1>1, <1>2, <1>5
  <2> HIDE DEF s
  <2>2. \A i \in DOMAIN h : \E j \in DOMAIN (h \o s) : (h \o s)[j] = h[i]
    BY <2>1, Appended
  <2>3. \A i \in DOMAIN s : \E j \in DOMAIN (h \o s) : (h \o s)[j] = s[i]
    BY <2>1, Appended
  <2> QED BY <2>1, <2>2, <2>3 DEF s
<1>7. ASSUME NEW r \in Results(x.query), value[r][asked.by] <= top PROVE Queued(y, r)
  <2>1. r \in Matches /\ value[r][asked.by] \in Int
    BY <1>1, ResultInRange
  <2>2. x.query.lo <= value[r][asked.by]
    BY <1>1, ResultInRange
  <2>3. PICK i \in 1..2 : value[r][asked.by] \in h[i].lo..h[i].hi
    BY <1>2, <1>7, <2>1, <2>2
  <2>4. i \in DOMAIN h
    BY <1>2
  <2>5. PICK j \in DOMAIN y.ranges : y.ranges[j] = h[i]
    BY <1>6, <2>4
  <2> QED BY <2>3, <2>5 DEF Queued, In
<1>8. ASSUME NEW r \in Matches, Queued(x, r) PROVE Queued(y, r)
  BY <1>6, <1>8 DEF Queued
<1> QED BY <1>5, <1>7, <1>8 DEF y, Undoubted

LEMMA ReadFields ==
    ASSUME NEW x \in Find, NEW pages \in 1..MaxShown
    PROVE  LET y == Read(x, pages)
           IN  /\ y \in Find
               /\ y.pc = IF pages = 1 THEN "query" ELSE "pages"
               /\ y.hits = x.hits \cup x.first
               /\ y.page = 1 /\ y.pages = pages
               /\ y.ranges = x.ranges /\ y.query = x.query
               /\ y.incomplete = x.incomplete /\ y.truncated = x.truncated
<1>1. pages \in 0..MaxShown /\ 1 \in 0..MaxShown
  BY SearchConstants
<1>2. x.hits \cup x.first \in SUBSET Matches
  BY DEF Find
<1> QED BY <1>1, <1>2 DEF Read, WithHits, Find, MaxShown

(* Reading a query as far as GitHub shows it: either a doubt is recorded,  *)
(* or its pages hold all results and the first one, which is read, has     *)
(* those with fewer than PageSize above them.                              *)
LEMMA ReadKeeps ==
    ASSUME SearchInv, NEW x \in Find,
           x.pc \in {"query", "probe"},
           Undoubted(x) /\ ~disturbed =>
              /\ x.first = Page(asked, x.query, 1)
              /\ Cardinality(Results(x.query)) <= MaxItems
              /\ \A r \in Steady :
                    r \in x.hits \/ Queued(x, r) \/ r \in Results(x.query),
           NEW pages \in 1..MaxShown,
           Undoubted(x) /\ ~disturbed => pages = PageCount(Cardinality(Results(x.query)))
    PROVE  FindOK(Read(x, pages))
<1> DEFINE y == Read(x, pages)
           S == Results(x.query)
<1>1. /\ y \in Find
      /\ y.pc = IF pages = 1 THEN "query" ELSE "pages"
      /\ y.hits = x.hits \cup x.first
      /\ y.page = 1 /\ y.pages = pages
      /\ y.ranges = x.ranges /\ y.query = x.query
      /\ y.incomplete = x.incomplete /\ y.truncated = x.truncated
  BY ReadFields
<1> HIDE DEF y
<1>2. pages \in Int /\ pages >= 1 /\ PageSize \in Nat \ {0}
  BY SearchConstants
<1>3. ASSUME Undoubted(y), ~disturbed
      PROVE  /\ Cardinality(S) <= pages * PageSize
             /\ \A r \in Steady : r \in y.hits \/ Awaited(y, r)
  <2>1. /\ x.first = Page(asked, x.query, 1) /\ Cardinality(S) <= MaxItems
        /\ \A r \in Steady : r \in x.hits \/ Queued(x, r) \/ r \in S
        /\ pages = PageCount(Cardinality(S))
    BY <1>1, <1>3 DEF Undoubted
  <2>2. /\ Cardinality(S) \in Nat
        /\ \A r \in S : Cardinality(Higher(asked, r, x.query)) \in Nat
                        /\ Cardinality(Higher(asked, r, x.query)) < Cardinality(S)
    BY ResultsOrdered, SortField DEF SearchInv
  <2>3. Cardinality(S) <= pages * PageSize
    BY <2>1, <2>2, PagesHoldResults
  <2>4. ASSUME NEW r \in S PROVE r \in y.hits \/ Awaited(y, r)
    <3> DEFINE above == Cardinality(Higher(asked, r, x.query))
    <3>1. above \in Nat /\ above < Cardinality(S)
      BY <2>2
    <3>2. (1 - 1) * PageSize = 0 /\ 1 * PageSize = PageSize
      BY <1>2
    <3>3. CASE above < PageSize
      <4>1. above \in 0..(PageSize - 1)
        BY <3>1, <3>3, <1>2
      <4>2. above \in ((1 - 1) * PageSize)..(1 * PageSize - 1)
        BY <4>1, <3>2
      <4>3. r \in Page(asked, x.query, 1)
        BY <4>2 DEF Page
      <4> QED BY <4>3, <2>1, <1>1
    <3>4. CASE above >= PageSize
      <4>1. pages # 1
        BY <3>1, <3>2, <3>4, <2>2, <2>3, <1>2
      <4>2. y.pc = "pages" /\ above >= y.page * PageSize
        BY <4>1, <1>1, <3>2, <3>4
      <4>3. In(value[r], y.query) /\ Higher(asked, r, y.query) = Higher(asked, r, x.query)
        BY <1>1 DEF Results
      <4> QED BY <4>2, <4>3 DEF Awaited
    <3> HIDE DEF above
    <3> QED BY <3>1, <3>3, <3>4, <1>2
  <2>5. ASSUME NEW r \in Steady PROVE r \in y.hits \/ Awaited(y, r)
    <3>1. CASE r \in x.hits
      BY <3>1, <1>1
    <3>2. CASE Queued(x, r)
      BY <3>2, <1>1 DEF Queued, Awaited
    <3> QED BY <3>1, <3>2, <2>1, <2>4
  <2> QED BY <2>3, <2>5
<1>4. y.pc = "pages" => y.page \in 1..(y.pages - 1)
  BY <1>1, <1>2
<1>5. y.pc \notin {"probe", "done", "failed"}
  BY <1>1
<1> QED BY <1>1, <1>3, <1>4, <1>5 DEF FindOK, y

LEMMA FirstPageKeeps ==
    ASSUME SearchInv, FirstPage PROVE FindOK(find') /\ UNCHANGED <<asked, matching, value, changed, disturbed>>
<1> DEFINE query == Head(find.ranges)
           S == Results(query)
           total == Cardinality(S)
           shown == Page(asked, query, 1)
<1>1. find \in Find /\ FindOK(find) /\ SearchTypeOK
  BY DEF SearchInv, FindOK
<1>2. find.pc = "query" /\ find.ranges # <<>> /\ find.ranges \in Seq(Range_)
  BY <1>1 DEF FirstPage, Find
<1>3. query \in Range_ /\ Tail(find.ranges) \in Seq(Range_)
      /\ \A i \in DOMAIN find.ranges :
            \/ find.ranges[i] = query
            \/ \E j \in DOMAIN Tail(find.ranges) : Tail(find.ranges)[j] = find.ranges[i]
  <2> DEFINE s == find.ranges
             n == Len(s)
  <2>1. s \in Seq(Range_) /\ s # <<>>
    BY <1>2
  <2> HIDE DEF s
  <2>2. n \in Nat /\ n # 0 /\ DOMAIN s = 1..n /\ Head(s) = s[1] /\ s[1] \in Range_
    BY <2>1
  <2>3. Tail(s) \in Seq(Range_) /\ Len(Tail(s)) = n - 1 /\ \A j \in 1..(n - 1) : Tail(s)[j] = s[j + 1]
    BY <2>1
  <2>4. DOMAIN Tail(s) = 1..(n - 1)
    BY <2>2, <2>3
  <2> HIDE DEF n
  <2>5. ASSUME NEW i \in 1..n, i # 1 PROVE \E j \in 1..(n - 1) : Tail(s)[j] = s[i]
    <3>1. i - 1 \in 1..(n - 1) /\ (i - 1) + 1 = i
      BY <2>2, <2>5
    <3> QED BY <3>1, <2>3
  <2>6. \A i \in 1..n : s[i] = Head(s) \/ \E j \in DOMAIN Tail(s) : Tail(s)[j] = s[i]
    BY <2>2, <2>4, <2>5
  <2> QED BY <2>2, <2>3, <2>6 DEF s
<1>4. PICK partly \in BOOLEAN : \E items \in IF partly THEN {shown, {}} ELSE {shown} :
         LET x     == [find EXCEPT !.ranges = Tail(@), !.query = query, !.first = items,
                                   !.incomplete = @ \/ partly]
             whole == [x EXCEPT !.truncated = TRUE]
             probe == /\ query.hi = Open /\ asked.by = "stars"
                      /\ ~FirstIsStarSorted \/ partly \/ items = {}
             top   == Top(query, items)
         IN  find' = IF total <= MaxItems THEN Read(x, PageCount(total))
                     ELSE IF ~MaySplit(query) THEN Read(whole, PageCount(total))
                     ELSE IF probe THEN [x EXCEPT !.pc = "probe", !.pages = PageCount(total)]
                     ELSE IF top <= query.lo THEN Read(whole, PageCount(total))
                     ELSE Split(x, top)
  BY DEF FirstPage
<1>41. PICK items \in IF partly THEN {shown, {}} ELSE {shown} :
         LET x     == [find EXCEPT !.ranges = Tail(@), !.query = query, !.first = items,
                                   !.incomplete = @ \/ partly]
             whole == [x EXCEPT !.truncated = TRUE]
             probe == /\ query.hi = Open /\ asked.by = "stars"
                      /\ ~FirstIsStarSorted \/ partly \/ items = {}
             top   == Top(query, items)
         IN  find' = IF total <= MaxItems THEN Read(x, PageCount(total))
                     ELSE IF ~MaySplit(query) THEN Read(whole, PageCount(total))
                     ELSE IF probe THEN [x EXCEPT !.pc = "probe", !.pages = PageCount(total)]
                     ELSE IF top <= query.lo THEN Read(whole, PageCount(total))
                     ELSE Split(x, top)
  BY <1>4
<1> DEFINE x     == [find EXCEPT !.ranges = Tail(@), !.query = query, !.first = items,
                                 !.incomplete = @ \/ partly]
           whole == [x EXCEPT !.truncated = TRUE]
           probe == /\ query.hi = Open /\ asked.by = "stars"
                    /\ ~FirstIsStarSorted \/ partly \/ items = {}
           top   == Top(query, items)
<1>5. find' = IF total <= MaxItems THEN Read(x, PageCount(total))
              ELSE IF ~MaySplit(query) THEN Read(whole, PageCount(total))
              ELSE IF probe THEN [x EXCEPT !.pc = "probe", !.pages = PageCount(total)]
              ELSE IF top <= query.lo THEN Read(whole, PageCount(total))
              ELSE Split(x, top)
  BY <1>41
<1>6. /\ shown \in SUBSET Matches /\ items \in SUBSET Matches
      /\ total \in Nat /\ (S # {} => shown # {}) /\ (S = {} => total = 0)
  <2>1. shown \in SUBSET Matches
    BY <1>1, PageTyped
  <2> QED BY <2>1, <1>1, <1>41, SortField, ResultsOrdered, FS_EmptySet
<1> HIDE DEF query, total, shown
<1>7. /\ x \in Find /\ x.pc = "query" /\ x.query = query /\ x.ranges = Tail(find.ranges)
      /\ x.first = items /\ x.hits = find.hits
      /\ x.incomplete = (find.incomplete \/ partly) /\ x.truncated = find.truncated
      /\ x.pages = find.pages
  BY <1>1, <1>2, <1>3, <1>6 DEF Find
<1> HIDE DEF x
<1>8. /\ whole \in Find /\ whole.pc = "query" /\ whole.truncated /\ whole.query = query
      /\ ~Undoubted(whole)
  BY <1>7 DEF Find, Undoubted
<1> HIDE DEF whole
<1>9. PageCount(total) \in 1..MaxShown
  BY <1>6, PagesHoldResults
<1>10. ASSUME Undoubted(x), ~disturbed
       PROVE  /\ items = shown /\ ~partly
              /\ \A r \in Steady : r \in x.hits \/ Queued(x, r) \/ r \in S
  <2>1. ~partly /\ Undoubted(find)
    BY <1>7, <1>10 DEF Undoubted
  <2>2. ASSUME NEW r \in Steady, r \notin find.hits PROVE Queued(x, r) \/ r \in S
    <3>1. Awaited(find, r)
      BY <1>1, <1>2, <1>10, <2>1, <2>2 DEF FindOK
    <3>2. PICK i \in DOMAIN find.ranges : In(value[r], find.ranges[i])
      BY <3>1, <1>2 DEF Awaited
    <3>3. CASE find.ranges[i] = query
      BY <3>2, <3>3, <2>2 DEF Results, Steady
    <3>4. CASE \E j \in DOMAIN Tail(find.ranges) : Tail(find.ranges)[j] = find.ranges[i]
      BY <3>2, <3>4, <1>7 DEF Queued
    <3> QED BY <3>3, <3>4, <1>3
  <2> QED BY <2>1, <2>2, <1>41, <1>7
<1>11. CASE total <= MaxItems
  <2>1. FindOK(Read(x, PageCount(total)))
    BY <1>7, <1>9, <1>10, <1>11, ReadKeeps DEF total, shown
  <2> QED BY <2>1, <1>5, <1>11 DEF FirstPage
<1>12. ASSUME total > MaxItems, find' = Read(whole, PageCount(total)) PROVE FindOK(find')
  BY <1>8, <1>9, <1>12, ReadKeeps
<1>13. ASSUME total > MaxItems, MaySplit(query), probe,
              find' = [x EXCEPT !.pc = "probe", !.pages = PageCount(total)]
       PROVE  FindOK(find')
  <2>1. PageCount(total) \in 0..MaxShown /\ PageCount(total) # 0
    BY <1>9
  <2>2. /\ find' \in Find /\ find'.pc = "probe" /\ find'.query = query /\ find'.pages # 0
        /\ find'.incomplete = x.incomplete /\ find'.truncated = x.truncated
    BY <2>1, <1>7, <1>13 DEF Find, MaxShown
  <2>3. find'.hits = x.hits /\ find'.ranges = x.ranges
    BY <1>7, <1>13 DEF Find
  <2>4. ASSUME Undoubted(find'), ~disturbed, NEW r \in Steady
        PROVE  r \in find'.hits \/ Awaited(find', r)
    <3>1. r \in x.hits \/ Queued(x, r) \/ r \in S
      BY <2>2, <2>4, <1>10 DEF Undoubted
    <3>2. r \in S => In(value[r], query)
      BY DEF Results
    <3> QED BY <3>1, <3>2, <2>2, <2>3 DEF Queued, Awaited
  <2> QED BY <2>2, <2>4, <1>13 DEF FindOK
<1>14. ASSUME total > MaxItems, MaySplit(query), ~probe, ~(top <= query.lo), find' = Split(x, top)
       PROVE  FindOK(find')
  <2>1. items # {} \/ query.hi # Open \/ asked.by # "stars"
    BY <1>14
  <2>2. top \in Numbers /\ query.lo \in Int
    BY <2>1, <1>1, <1>3, <1>6, TopTyped, RangeTyped
  <2>3. query.lo < top
    <3>1. top \in Int
      BY <2>2, SearchConstants DEF Numbers
    <3> QED BY <3>1, <2>2, <1>14
  <2> HIDE DEF top
  <2>4. /\ find' \in Find
        /\ find'.pc = "query" /\ find'.hits = x.hits
        /\ Undoubted(find') = Undoubted(x)
        /\ \A r \in Matches : Queued(x, r) => Queued(find', r)
        /\ \A r \in Results(query) : value[r][asked.by] <= top => Queued(find', r)
    BY <1>1, <1>7, <1>14, <2>2, <2>3, SplitKeeps
  <2>5. ASSUME Undoubted(find'), ~disturbed, NEW r \in Steady
        PROVE  r \in find'.hits \/ Awaited(find', r)
    <3>1. items = shown /\ (r \in x.hits \/ Queued(x, r) \/ r \in S)
      BY <1>10, <2>4, <2>5
    <3>2. ASSUME r \in S PROVE Queued(find', r)
      <4>1. asked.by # "none"
        BY <1>14 DEF MaySplit
      <4>2. (query.hi = Open /\ asked.by = "stars") => items = Page(ByStars, query, 1)
        BY <1>10, <1>14, <2>4, <2>5, FirstIsProbe DEF shown
      <4>3. value[r][asked.by] <= top
        BY <4>1, <4>2, <3>2, <1>1, <1>3, TopIsAbove DEF top, S
      <4> QED BY <4>3, <3>2, <2>4
    <3>3. Queued(find', r) => Awaited(find', r)
      BY DEF Queued, Awaited
    <3>4. r \in Matches
      BY <1>1, <2>5 DEF Steady, SearchTypeOK
    <3> QED BY <3>1, <3>2, <3>3, <3>4, <2>4
  <2> QED BY <2>4, <2>5 DEF FindOK
<1>15. total \in Int /\ MaxItems \in Int
  BY <1>6, SearchConstants
<1>16. FindOK(find')
  <2> HIDE DEF top, probe
  <2> QED BY <1>5, <1>11, <1>12, <1>13, <1>14, <1>15
<1> QED BY <1>16 DEF FirstPage

LEMMA ProbeKeeps ==
    ASSUME SearchInv, Probe PROVE FindOK(find')
<1> DEFINE shown == Page(ByStars, find.query, 1)
           top   == Top(find.query, shown)
           whole == [find EXCEPT !.truncated = TRUE]
<1>1. find \in Find /\ FindOK(find) /\ SearchTypeOK /\ find.pc = "probe"
  BY DEF SearchInv, FindOK, Probe
<1>2. /\ find.query \in Range_ /\ MaySplit(find.query)
      /\ find.pages \in 1..MaxShown
  <2>1. find.query \in Range_ /\ find.pages \in 0..MaxShown /\ find.pages # 0
    BY <1>1 DEF FindOK, Find, MaxShown
  <2>2. MaySplit(find.query)
    BY <1>1 DEF FindOK
  <2> QED BY <2>1, <2>2, SearchConstants
<1>3. PICK usable \in BOOLEAN :
         find' = IF usable /\ shown # {} /\ top > find.query.lo
                 THEN Split(find, top) ELSE Read(whole, find.pages)
  BY DEF Probe
<1>4. shown \in SUBSET Matches
  BY <1>1, PageTyped
<1>5. CASE shown # {} /\ top > find.query.lo /\ find' = Split(find, top)
  <2>1. top \in Numbers /\ find.query.lo \in Int
    BY <1>1, <1>2, <1>4, <1>5, TopTyped, RangeTyped
  <2>2. find.query.lo < top
    <3>1. top \in Int
      BY <2>1, SearchConstants DEF Numbers
    <3> QED BY <3>1, <2>1, <1>5
  <2> HIDE DEF top
  <2>3. /\ find' \in Find
        /\ find'.pc = "query" /\ find'.hits = find.hits
        /\ Undoubted(find') = Undoubted(find)
        /\ \A r \in Matches : Queued(find, r) => Queued(find', r)
        /\ \A r \in Results(find.query) : value[r][asked.by] <= top => Queued(find', r)
    BY <1>1, <1>2, <1>5, <2>1, <2>2, SplitKeeps
  <2>4. ASSUME Undoubted(find'), ~disturbed, NEW r \in Steady
        PROVE  r \in find'.hits \/ Awaited(find', r)
    <3>1. r \in find.hits \/ Awaited(find, r)
      BY <1>1, <2>3, <2>4 DEF FindOK
    <3>2. r \in Matches /\ r \in matching
      BY <1>1, <2>4 DEF Steady, SearchTypeOK
    <3>3. CASE In(value[r], find.query)
      <4>1. r \in Results(find.query) /\ asked.by # "none"
        BY <3>2, <3>3, <1>2 DEF Results, MaySplit
      <4>2. value[r][asked.by] <= top
        BY <4>1, <1>1, <1>2, TopIsAbove DEF top
      <4>3. Queued(find', r)
        BY <4>1, <4>2, <2>3
      <4> QED BY <4>3 DEF Queued, Awaited
    <3>4. CASE Queued(find, r)
      BY <3>2, <3>4, <2>3 DEF Queued, Awaited
    <3> QED BY <3>1, <3>3, <3>4, <2>3, <1>1 DEF Awaited, Queued
  <2> QED BY <2>3, <2>4 DEF FindOK
<1>6. CASE find' = Read(whole, find.pages)
  <2>1. whole \in Find /\ whole.pc = "probe" /\ ~Undoubted(whole)
    BY <1>1 DEF Find, Undoubted
  <2> HIDE DEF whole
  <2> QED BY <2>1, <1>2, <1>6, ReadKeeps
<1> QED BY <1>3, <1>5, <1>6

LEMMA NextPageKeeps ==
    ASSUME SearchInv, NextPage PROVE FindOK(find')
<1> DEFINE page  == find.page + 1
           query == find.query
           S     == Results(query)
           items == Page(asked, query, page)
           last  == items = {} \/ page = find.pages
<1>1. find \in Find /\ FindOK(find) /\ SearchTypeOK /\ find.pc = "pages"
  BY DEF SearchInv, FindOK, NextPage
<1>2. PICK partly \in BOOLEAN :
         find' = [WithHits(find, items) EXCEPT
                     !.page = page, !.incomplete = @ \/ partly \/ items = {},
                     !.pc = IF last THEN "query" ELSE "pages"]
  BY DEF NextPage
<1>3. /\ find.page \in 1..(find.pages - 1) /\ find.pages \in 0..MaxShown /\ MaxShown \in Nat
      /\ PageSize \in Nat \ {0}
  BY <1>1, SearchConstants DEF FindOK, Find, MaxShown
<1>4. page \in 0..MaxShown /\ page \in 2..find.pages /\ page \in Int /\ find.pages \in Int
      /\ find.page \in Int
  BY <1>3
<1>5. find.hits \cup items \in SUBSET Matches
  BY <1>1, PageTyped DEF Find
<1>6. /\ find' \in Find
      /\ find'.page = page /\ find'.pages = find.pages /\ find'.query = query
      /\ find'.pc = IF last THEN "query" ELSE "pages"
      /\ find'.hits = find.hits \cup items /\ find'.ranges = find.ranges
      /\ find'.incomplete = (find.incomplete \/ partly \/ items = {})
      /\ find'.truncated = find.truncated
  <2> HIDE DEF page, items, last
  <2> QED BY <1>1, <1>2, <1>4, <1>5 DEF Find, WithHits, MaxShown
<1>7. find'.pc = "pages" => find'.page \in 1..(find'.pages - 1)
  <2> HIDE DEF page
  <2> QED BY <1>4, <1>6
<1>8. (page - 1) * PageSize = find.page * PageSize /\ page * PageSize \in Int
      /\ find.page * PageSize \in Int
  <2>1. page - 1 = find.page
    BY <1>4
  <2>2. \A m, n \in Int : m * n \in Int
    OBVIOUS
  <2>3. PageSize \in Int
    BY <1>3
  <2> HIDE DEF page
  <2> QED BY <2>1, <2>2, <2>3, <1>4
<1>9. ASSUME Undoubted(find'), ~disturbed
      PROVE  /\ items # {} /\ Cardinality(S) <= find.pages * PageSize
             /\ \A r \in Steady : r \in find'.hits \/ Awaited(find', r)
  <2>1. items # {} /\ Undoubted(find)
    BY <1>6, <1>9 DEF Undoubted
  <2>2. Cardinality(S) <= find.pages * PageSize
    BY <2>1, <1>1, <1>9 DEF FindOK
  <2>3. ASSUME NEW r \in Steady, r \notin find'.hits PROVE Awaited(find', r)
    <3>1. Awaited(find, r)
      BY <2>1, <2>3, <1>1, <1>6, <1>9 DEF FindOK
    <3>2. CASE \E i \in DOMAIN find.ranges : In(value[r], find.ranges[i])
      BY <3>2, <1>6 DEF Awaited
    <3>3. CASE /\ In(value[r], query)
               /\ Cardinality(Higher(asked, r, query)) >= find.page * PageSize
      <4> DEFINE above == Cardinality(Higher(asked, r, query))
      <4>1. r \in S /\ r \notin items
        BY <2>3, <3>3, <1>6 DEF Results, Steady
      <4>2. above \in Nat /\ above < Cardinality(S) /\ Cardinality(S) \in Nat
        BY <4>1, <1>1, SortField, ResultsOrdered
      <4>3. above \notin ((page - 1) * PageSize)..(page * PageSize - 1)
        BY <4>1 DEF Page
      <4> HIDE DEF above, page
      <4>4. above >= page * PageSize
        BY <4>2, <4>3, <3>3, <1>8 DEF above
      <4>5. page # find.pages
        BY <4>2, <4>4, <2>2, <1>8
      <4>6. find'.pc = "pages"
        BY <4>5, <2>1, <1>6
      <4>7. In(value[r], find'.query) /\ Higher(asked, r, find'.query) = Higher(asked, r, query)
        BY <1>6, <3>3
      <4> QED BY <4>4, <4>6, <4>7, <1>6 DEF Awaited, above
    <3> QED BY <3>1, <3>2, <3>3, <1>1 DEF Awaited
  <2> QED BY <2>1, <2>2, <2>3
<1>10. (find'.pc = "pages" /\ Undoubted(find') /\ ~disturbed) =>
          Cardinality(Results(find'.query)) <= find'.pages * PageSize
  BY <1>6, <1>9
<1>11. find'.pc \in {"query", "pages"}
  BY <1>6
<1> HIDE DEF page, items, last
<1> QED BY <1>6, <1>7, <1>9, <1>10, <1>11 DEF FindOK

LEMMA EndsKeep ==
    ASSUME SearchInv, SearchEnds \/ RequestFails PROVE FindOK(find')
<1>1. find \in Find /\ FindOK(find)
  BY DEF SearchInv, FindOK
<1>2. CASE SearchEnds
  <2> DEFINE pc == IF find.incomplete \/ find.truncated THEN "failed" ELSE "done"
  <2>1. find.pc = "query" /\ find.ranges = <<>> /\ find' = [find EXCEPT !.pc = pc]
    BY <1>2 DEF SearchEnds
  <2>2. pc \in {"failed", "done"}
    OBVIOUS
  <2> HIDE DEF pc
  <2>3. /\ find' \in Find /\ find'.pc = pc /\ find'.ranges = find.ranges /\ find'.hits = find.hits
        /\ find'.incomplete = find.incomplete /\ find'.truncated = find.truncated
    BY <1>1, <2>1, <2>2 DEF Find
  <2>4. ASSUME Undoubted(find'), ~disturbed, NEW r \in Steady
        PROVE  r \in find'.hits \/ Awaited(find', r)
    <3>1. r \in find.hits \/ Awaited(find, r)
      BY <1>1, <2>1, <2>3, <2>4 DEF FindOK, Undoubted
    <3> QED BY <3>1, <2>1, <2>3 DEF Awaited
  <2>5. find'.pc = "done" => Undoubted(find')
    BY <2>3 DEF pc, Undoubted
  <2> QED BY <2>1, <2>2, <2>3, <2>4, <2>5 DEF FindOK
<1>3. CASE RequestFails
  BY <1>1, <1>3 DEF RequestFails, FindOK, Find
<1> QED BY <1>2, <1>3

(* Others may leave and enter the ranges that are not being read, and only *)
(* move up in the one that is.                                             *)
LEMMA ChangeKeeps ==
    ASSUME SearchInv, NEW q \in Matches, Changes(q),
           value' \in [Matches -> [Fields -> Numbers]], matching' \in SUBSET Matches,
           \A s \in Matches : s # q => value'[s] = value[s] /\ (s \in matching' <=> s \in matching)
    PROVE  SearchInv'
<1>1. find \in Find /\ FindOK(find) /\ SearchTypeOK
  BY DEF SearchInv, FindOK
<1>2. /\ find' = find /\ asked' = asked /\ changed' = changed \cup {q}
      /\ disturbed' = (disturbed \/ (find.pc = "pages" /\ Disturbs(q)))
      /\ (~disturbed' => ~disturbed)
      /\ find.pc \notin {"done", "failed"}
  BY DEF Changes
<1>3. SearchTypeOK'
  BY <1>1, <1>2 DEF SearchTypeOK
<1>4. Steady' \subseteq Steady /\ \A r \in Steady' : r # q /\ r \in Matches /\ value'[r] = value[r]
  <2> SUFFICES ASSUME NEW r, r \in Steady'
               PROVE  r \in Steady /\ r # q /\ r \in Matches /\ value'[r] = value[r]
    OBVIOUS
  <2>1. r \in matching' /\ r \notin changed' /\ In(value[r], Root)'
    BY DEF Steady
  <2>2. r # q /\ r \in Matches /\ r \notin changed
    BY <2>1, <1>2
  <2>3. value'[r] = value[r] /\ r \in matching
    BY <2>1, <2>2
  <2>4. In(value[r], Root)
    BY <2>1, <2>3, <1>2 DEF In, Root
  <2> QED BY <2>2, <2>3, <2>4 DEF Steady
<1>5. ASSUME find.pc = "pages", ~disturbed'
      PROVE  /\ Results(find.query)' = Results(find.query)
             /\ \A r \in Steady' : In(value[r], find.query) =>
                   Higher(asked, r, find.query) \subseteq Higher(asked, r, find.query)'
  <2>1. ~Disturbs(q)
    BY <1>2, <1>5
  <2>2. Results(find.query)' = {s \in matching' : In(value'[s], find.query)}
    BY <1>2 DEF Results, In
  <2>3. ASSUME NEW s \in Matches PROVE s \in Results(find.query)' <=> s \in Results(find.query)
    <3>1. CASE s = q
      BY <2>1, <3>1, <1>2 DEF Disturbs
    <3>2. CASE s # q
      BY <2>2, <3>2 DEF Results
    <3> QED BY <3>1, <3>2
  <2>4. Results(find.query)' = Results(find.query)
    <3>1. Results(find.query) \in SUBSET Matches
      BY <1>1, ResultsTyped
    <3>2. Results(find.query)' \in SUBSET Matches
      BY <2>2
    <3> QED BY <2>3, <3>1, <3>2
  <2>5. ASSUME NEW r \in Steady', In(value[r], find.query), NEW s \in Higher(asked, r, find.query)
        PROVE  s \in Higher(asked, r, find.query)'
    <3>1. s \in Results(find.query) /\ Above(asked, s, r) /\ s \in Matches /\ r # q /\ value'[r] = value[r]
      BY <2>5, <1>1, <1>4, ResultsTyped DEF Higher
    <3>2. r \in Results(find.query)
      BY <2>5, <1>4 DEF Results, Steady
    <3>3. CASE s = q
      <4>1. Above(asked, q, r)'
        BY <2>1, <3>1, <3>2, <3>3 DEF Disturbs
      <4> QED BY <4>1, <3>1, <3>3, <2>4, <1>2 DEF Higher
    <3>4. CASE s # q
      <4>1. value'[s] = value[s]
        BY <3>1, <3>4
      <4>2. Above(asked, s, r)'
        BY <3>1, <4>1, <1>2 DEF Above
      <4> QED BY <4>2, <3>1, <2>4, <1>2 DEF Higher
    <3> QED BY <3>3, <3>4
  <2> QED BY <2>4, <2>5
<1>6. ASSUME find.pc = "pages", Undoubted(find), ~disturbed'
      PROVE  Cardinality(Results(find.query))' <= find.pages * PageSize
  <2>1. Cardinality(Results(find.query)) <= find.pages * PageSize
    <3>1. ~disturbed
      BY <1>2, <1>6
    <3> QED BY <3>1, <1>1, <1>6 DEF FindOK
  <2> QED BY <2>1, <1>5, <1>6
<1>7. ASSUME Undoubted(find), ~disturbed', NEW r \in Steady', r \notin find.hits
      PROVE  Awaited(find, r)'
  <2>1. Awaited(find, r) /\ value'[r] = value[r]
    <3>1. ~disturbed /\ r \in Steady /\ find.pc # "failed"
      BY <1>2, <1>4, <1>7
    <3> QED BY <3>1, <1>1, <1>4, <1>7 DEF FindOK
  <2>2. CASE \E i \in DOMAIN find.ranges : In(value[r], find.ranges[i])
    BY <2>1, <2>2, <1>2 DEF Awaited, In
  <2>3. CASE find.pc = "probe" /\ In(value[r], find.query)
    BY <2>1, <2>3, <1>2 DEF Awaited, In
  <2>4. CASE /\ find.pc = "pages" /\ In(value[r], find.query)
             /\ Cardinality(Higher(asked, r, find.query)) >= find.page * PageSize
    <3> DEFINE H == Higher(asked, r, find.query)
               G == Higher(asked, r, find.query)'
    <3>1. H \subseteq G
      BY <2>4, <1>5, <1>7
    <3>2. G \in SUBSET Matches
      <4>1. G \in SUBSET Results(find.query)'
        BY DEF Higher
      <4>2. Results(find.query)' \in SUBSET Matches
        BY <2>4, <1>1, <1>5, <1>7, ResultsTyped
      <4> QED BY <4>1, <4>2
    <3>3. IsFiniteSet(G)
      <4> HIDE DEF G
      <4> QED BY <3>2, SearchConstants, FS_Subset
    <3>4. Cardinality(H) <= Cardinality(G) /\ Cardinality(H) \in Nat /\ Cardinality(G) \in Nat
      <4> HIDE DEF G, H
      <4> QED BY <3>1, <3>3, FS_Subset, FS_CardinalityType
    <3>5. find.page * PageSize \in Int
      <4>1. find.page \in Int /\ PageSize \in Int
        BY <1>1, SearchConstants DEF Find, MaxShown
      <4> QED BY <4>1
    <3>6. Cardinality(G) >= find.page * PageSize
      <4> HIDE DEF G
      <4> QED BY <3>4, <3>5, <2>4
    <3>7. In(value[r], find.query)'
      BY <2>1, <2>4, <1>2 DEF In
    <3> QED BY <3>6, <3>7, <2>4, <1>2 DEF Awaited
  <2> QED BY <2>1, <2>2, <2>3, <2>4 DEF Awaited
<1>8. FindOK(find)'
  <2>1. find \in Find /\ (find.pc = "pages" => find.page \in 1..(find.pages - 1))
        /\ (find.pc = "probe" => MaySplit(find.query) /\ find.pages # 0)
        /\ (find.pc = "done" => find.ranges = <<>> /\ Undoubted(find))
    BY <1>1 DEF FindOK
  <2>2. MaySplit(find.query)' = MaySplit(find.query) /\ Undoubted(find)' = Undoubted(find)
    BY <1>2 DEF MaySplit, Undoubted
  <2> QED BY <2>1, <2>2, <1>2, <1>6, <1>7 DEF FindOK
<1> QED BY <1>3, <1>8 DEF SearchInv

LEMMA ChangesKeep ==
    ASSUME SearchInv, NEW q \in Matches,
           Star(q) \/ Renew(q, "pushed") \/ Renew(q, "updated") \/ Qualify(q)
    PROVE  SearchInv'
<1>1. value \in [Matches -> [Fields -> Numbers]] /\ matching \in SUBSET Matches
  BY DEF SearchInv, SearchTypeOK
<1>2. ASSUME NEW f \in Fields, NEW n \in Numbers, value' = [value EXCEPT ![q][f] = n],
             matching' = matching, Changes(q)
      PROVE  SearchInv'
  <2>1. /\ value' \in [Matches -> [Fields -> Numbers]]
        /\ \A s \in Matches : s # q => value'[s] = value[s]
    BY <1>1, <1>2
  <2> QED BY <2>1, <1>1, <1>2, ChangeKeeps
<1>3. CASE Star(q)
  <2>1. PICK n \in Numbers : value' = [value EXCEPT ![q]["stars"] = n]
    BY <1>3 DEF Star
  <2> QED BY <2>1, <1>2, <1>3 DEF Star, Fields
<1>4. ASSUME NEW f \in {"pushed", "updated"}, Renew(q, f) PROVE SearchInv'
  <2>1. f \in Fields /\ Today \in Numbers
    BY SearchConstants DEF Fields, Numbers
  <2> QED BY <2>1, <1>2, <1>4 DEF Renew
<1>5. CASE Qualify(q)
  <2>1. /\ Changes(q) /\ value' = value /\ matching' \in SUBSET Matches
        /\ \A s \in Matches : s # q => (s \in matching' <=> s \in matching)
    BY <1>1, <1>5 DEF Qualify
  <2> QED BY <2>1, <1>1, ChangeKeeps
<1> QED BY <1>3, <1>4, <1>5

LEMMA SearchBegins == SearchInit => SearchInv
<1> SUFFICES ASSUME SearchInit PROVE SearchInv
  OBVIOUS
<1>0. asked \in Asked
  BY DEF SearchInit
<1>1. Root \in Range_
  BY <1>0, SearchConstants DEF Asked, Root, Range_, Numbers, Open
<1>2. <<Root>> \in Seq(Range_) /\ 1 \in DOMAIN <<Root>> /\ <<Root>>[1] = Root
  BY <1>1
<1>3. find = [pc |-> "query", ranges |-> <<Root>>, query |-> Root, first |-> {}, page |-> 0,
              pages |-> 0, hits |-> {}, incomplete |-> FALSE, truncated |-> FALSE]
  BY DEF SearchInit
<1>4. 0 \in 0..(MaxItems \div PageSize)
  BY SearchConstants DEF MaxShown
<1>5. find \in Find
  BY <1>1, <1>2, <1>3, <1>4 DEF Find
<1>6. changed = {} /\ disturbed = FALSE /\ matching \subseteq Matches /\ value \in [Matches -> Told]
  BY DEF SearchInit
<1>7. Told \in SUBSET [Fields -> Numbers]
  BY DEF Told
<1>8. SearchTypeOK
  BY <1>0, <1>5, <1>6, <1>7 DEF SearchTypeOK
<1>9. ASSUME NEW r \in Steady PROVE Awaited(find, r)
  <2>1. In(value[r], Root)
    BY DEF Steady
  <2>2. find.ranges = <<Root>>
    BY <1>3
  <2> QED BY <2>1, <2>2, <1>2 DEF Awaited
<1>10. find.pc = "query"
  BY <1>3
<1>11. FindOK(find)
  BY <1>5, <1>9, <1>10 DEF FindOK
<1> QED BY <1>8, <1>11 DEF SearchInv

(* A search whose requests alone go on is judged by the values as they are. *)
LEMMA SearchGoesOn ==
    ASSUME SearchInv, FindOK(find'), UNCHANGED <<asked, matching, value, changed, disturbed>>
    PROVE  SearchInv'
<1>1. find' \in Find
  BY DEF FindOK
<1>2. SearchTypeOK'
  BY <1>1 DEF SearchInv, SearchTypeOK
<1>3. FindOK(find)'
  BY DEF FindOK, Undoubted, MaySplit, Results, In, Awaited, Higher, Above, Steady, Root
<1> QED BY <1>2, <1>3 DEF SearchInv

LEMMA SearchStep == SearchInv /\ [SearchNext]_searchVars => SearchInv'
<1> SUFFICES ASSUME SearchInv, [SearchNext]_searchVars PROVE SearchInv'
  OBVIOUS
<1>1. CASE FirstPage
  BY <1>1, FirstPageKeeps, SearchGoesOn
<1>2. CASE Probe
  <2>1. UNCHANGED <<asked, matching, value, changed, disturbed>>
    BY <1>2 DEF Probe
  <2> QED BY <2>1, <1>2, ProbeKeeps, SearchGoesOn
<1>3. CASE NextPage
  <2>1. UNCHANGED <<asked, matching, value, changed, disturbed>>
    BY <1>3 DEF NextPage
  <2> QED BY <2>1, <1>3, NextPageKeeps, SearchGoesOn
<1>4. CASE SearchEnds \/ RequestFails
  <2>1. UNCHANGED <<asked, matching, value, changed, disturbed>>
    BY <1>4 DEF SearchEnds, RequestFails
  <2> QED BY <2>1, <1>4, EndsKeep, SearchGoesOn
<1>5. CASE \E r \in Matches : Star(r) \/ Renew(r, "pushed") \/ Renew(r, "updated") \/ Qualify(r)
  BY <1>5, ChangesKeep
<1>6. CASE UNCHANGED searchVars
  <2>1. find' = find /\ UNCHANGED <<asked, matching, value, changed, disturbed>>
    BY <1>6 DEF searchVars
  <2>2. FindOK(find')
    BY <2>1 DEF SearchInv
  <2> QED BY <2>1, <2>2, SearchGoesOn
<1> QED BY <1>1, <1>2, <1>3, <1>4, <1>5, <1>6 DEF SearchNext

(* Every range a search of a profile makes has bounds it can be asked for, *)
(* within the depth of the profile, and its pages are among those GitHub   *)
(* shows (source/github/search.go).                                        *)
THEOREM SearchTypeCorrect == SearchSpec => []SearchTypeOK
<1>1. SearchInv => SearchTypeOK
  BY DEF SearchInv
<1> QED BY <1>1, SearchBegins, SearchStep, PTL DEF SearchSpec

(* A search that ends without an integrity error has found every           *)
(* repository that kept still, unless a result came, went or fell behind   *)
(* another one while the pages of its query were read: the halves of a     *)
(* range leave no value out, whatever the profile sorts by, and a          *)
(* repository that is overtaken only moves to a later page (SearchProfile  *)
(* and its helpers, source/github/search.go).                              *)
THEOREM CompleteCorrect == SearchSpec => []CompleteIsWhole
<1>1. ASSUME SearchInv PROVE CompleteIsWhole
  <2> SUFFICES ASSUME find.pc = "done", ~disturbed, NEW r \in Steady
               PROVE  r \in find.hits
    BY DEF CompleteIsWhole
  <2>1. find.ranges = <<>> /\ Undoubted(find) /\ (r \in find.hits \/ Awaited(find, r))
    BY <1>1 DEF SearchInv, FindOK
  <2> QED BY <2>1 DEF Awaited
<1> QED BY <1>1, SearchBegins, SearchStep, PTL DEF SearchSpec
=============================================================================
