----------------------------- MODULE ViewsProofs -----------------------------
(***************************************************************************)
(* Theorems about Views, for every number of repositories, days, stars and *)
(* rows of a page, and the types of MCPlanning as a whole.                 *)
(*                                                                         *)
(* Sums.  The dashboard sums over repositories and then over days, its     *)
(* promise over repositories only: the sums are exchanged                  *)
(* (SumOfDifferences), and for each repository the differences between     *)
(* neighbouring successes add up to its gain (GainRises, PointsAddUp).     *)
(*                                                                         *)
(* Paging.  The inductive invariant ListInv says of a repository that kept *)
(* still that it was shown once or follows the cursor, never both; the     *)
(* order of the list is total (AheadOrders), so the rows of a page are     *)
(* those with fewer rows ahead of them than the page has places.           *)
(***************************************************************************)
EXTENDS MCPlanning, PlanningProofs, SearchProofs

(***************************************************************************)
(* The inductive invariant of the list.                                    *)
(***************************************************************************)
Values == Int \cup {None}

(* The type of the snapshots. *)
StarOK == star \in [Repositories -> [Calendar -> 0..MaxStars \cup {None}]]

(* Repositories no snapshot of which was stored since the list was opened. *)
Still == Repositories \ {cell[1] : cell \in stored}

(* While the cursor keeps its place, whoever kept still has been shown     *)
(* once or follows the cursor, and nobody who was shown follows it.        *)
ListOK(p) ==
    /\ p \in List
    /\ (p.kind = "list" /\ ~moved) => p.after \in Listable(p.sort)
    /\ (p.kind \in {"list", "end"} /\ ~moved) =>
          \A r \in Still :
             /\ \A i, j \in DOMAIN p.shown : (p.shown[i] = r /\ p.shown[j] = r) => i = j
             /\ r \in Listable(p.sort) =>
                   \/ \E i \in DOMAIN p.shown : p.shown[i] = r
                   \/ p.kind = "list" /\ r \in Rest(p.sort, p.after)
             /\ (p.kind = "list" /\ r \in Rest(p.sort, p.after)) =>
                   \A i \in DOMAIN p.shown : p.shown[i] # r

(* The whole invariant; the other pages are drawn once. *)
ListInv ==
    /\ StarOK
    /\ page.kind \in {"list", "end", "error"} => ListOK(page)

(* What the assumption says of each constant. *)
LEMMA ViewsConstants ==
    /\ Repositories \subseteq Nat \ {0} /\ Repositories \subseteq Int /\ IsFiniteSet(Repositories)
    /\ AsOf \in Nat \ {0} /\ HistoryDays \in Nat \ {0} /\ WindowDays \in Nat \ {0} /\ Limit \in Nat \ {0}
    /\ HistoryDays <= AsOf /\ WindowDays <= AsOf /\ MaxStars \in Nat /\ MaxStored \in Nat
    /\ None \notin Int
BY ViewsAssumption

LEMMA LessOrders ==
    /\ \A a \in Values : ~Less(a, a)
    /\ \A a, b, c \in Values : Less(a, b) /\ Less(b, c) => Less(a, c)
    /\ \A a, b \in Values : a = b \/ Less(a, b) \/ Less(b, a)
BY ViewsConstants DEF Less, Values

LEMMA StarsTyped ==
    ASSUME StarOK, NEW r \in Repositories, NEW d \in Calendar
    PROVE  star[r][d] \in 0..MaxStars \cup {None} /\ (Observed(r, d) => star[r][d] \in Nat)
BY ViewsConstants DEF StarOK, Observed

LEMMA KeysTyped ==
    ASSUME StarOK, NEW sort \in Sorts, NEW r \in Listable(sort)
    PROVE  r \in Repositories /\ r \in Int /\ Key(sort, r) \in Values /\ LastStars(r) \in Values
<1>1. r \in Repositories /\ r \in Int
  BY ViewsConstants DEF Listable
<1>2. LastStars(r) \in Values
  <2> DEFINE days == {d \in Calendar : Observed(r, d)}
  <2>1. CASE days = {}
    BY <2>1 DEF LastStars, Values
  <2>2. CASE days # {}
    <3>1. AsOf \in Nat /\ days \in SUBSET (0..AsOf)
      BY ViewsConstants DEF Calendar
    <3> HIDE DEF days
    <3>2. PICK x \in days : \A y \in days : x >= y
      BY <3>1, <2>2, GreatestElement
    <3>3. IsFiniteSet(days)
      <4>1. IsFiniteSet(0..AsOf)
        BY <3>1, FS_Interval
      <4> QED BY <4>1, <3>1, FS_Subset
    <3>4. days \in SUBSET Int
      BY <3>1
    <3>5. Max(days) \in days
      BY <3>3, <3>4, <2>2, FiniteMax
    <3>6. star[r][Max(days)] \in Nat
      BY <3>5, <1>1, StarsTyped DEF days
    <3> QED BY <3>6, <2>2 DEF LastStars, Values, days
  <2> QED BY <2>1, <2>2
<1>3. Growth(r, WindowDays) \in Values
  <2>1. AsOf \in Calendar /\ AsOf - WindowDays \in Calendar
    BY ViewsConstants DEF Calendar
  <2>2. CASE Observed(r, AsOf) /\ Observed(r, AsOf - WindowDays)
    <3>1. star[r][AsOf] \in Nat /\ star[r][AsOf - WindowDays] \in Nat
      BY <2>1, <2>2, <1>1, StarsTyped
    <3> QED BY <3>1, <2>2 DEF Growth, Values
  <2> QED BY <2>2 DEF Growth, Values
<1>4. Momentum(r) \in Values
  <2>1. CASE /\ Growth(r, WindowDays) # None
             /\ Before(WindowDays) \in Calendar /\ Observed(r, Before(WindowDays))
    <3>1. Observed(r, AsOf) /\ Observed(r, AsOf - WindowDays)
      BY <2>1 DEF Growth
    <3>2. AsOf \in Calendar /\ AsOf - WindowDays \in Calendar /\ Before(0) = AsOf - WindowDays
      BY ViewsConstants DEF Calendar, Before
    <3>3. star[r][AsOf] \in Nat /\ star[r][Before(0)] \in Nat /\ star[r][Before(WindowDays)] \in Nat
      BY <3>1, <3>2, <2>1, <1>1, StarsTyped
    <3> QED BY <3>3, <2>1 DEF Momentum, Values
  <2> QED BY <2>1 DEF Momentum, Values
<1>5. Key(sort, r) \in Values
  <2>1. CASE sort = "stars"
    BY <2>1, <1>2 DEF Key
  <2>2. CASE sort = "delta"
    BY <2>2, <1>3 DEF Key
  <2>3. CASE sort = "low_growth"
    <3>1. Growth(r, WindowDays) \in Int
      BY <2>3, <1>3 DEF Listable, Less, Values
    <3> QED BY <3>1, <2>3 DEF Key, Values
  <2>4. CASE sort = "slowdown"
    <3>1. Momentum(r) \in Int
      BY <2>4, <1>4 DEF Listable, Less, Values
    <3> QED BY <3>1, <2>4 DEF Key, Values
  <2> QED BY <2>1, <2>2, <2>3, <2>4 DEF Sorts
<1> QED BY <1>1, <1>2, <1>5

(* The list is in a strict total order. *)
LEMMA AheadOrders ==
    ASSUME StarOK, NEW sort \in Sorts
    PROVE  /\ \A r \in Listable(sort) : ~Ahead(sort, r, r)
           /\ \A r, s, t \in Listable(sort) :
                 Ahead(sort, r, s) /\ Ahead(sort, s, t) => Ahead(sort, r, t)
           /\ \A r, s \in Listable(sort) : r = s \/ Ahead(sort, r, s) \/ Ahead(sort, s, r)
<1> DEFINE K(r) == Key(sort, r)
           L(r) == LastStars(r)
<1>1. \A r \in Listable(sort) : r \in Int /\ K(r) \in Values /\ L(r) \in Values
  BY KeysTyped
<1>2. \A r, s : Ahead(sort, r, s) <=> \/ Less(K(s), K(r))
                                      \/ K(r) = K(s) /\ Less(L(s), L(r))
                                      \/ K(r) = K(s) /\ L(s) = L(r) /\ r < s
  BY DEF Ahead
<1> HIDE DEF K, L
<1>3. ASSUME NEW r \in Listable(sort) PROVE ~Ahead(sort, r, r)
  BY <1>1, <1>2, LessOrders
<1>4. ASSUME NEW r \in Listable(sort), NEW s \in Listable(sort), NEW t \in Listable(sort),
             Ahead(sort, r, s), Ahead(sort, s, t)
      PROVE  Ahead(sort, r, t)
  <2>1. CASE Less(K(s), K(r)) \/ Less(K(t), K(s))
    BY <2>1, <1>1, <1>2, <1>4, LessOrders
  <2>2. CASE K(r) = K(s) /\ K(s) = K(t)
    <3>1. Less(L(s), L(r)) \/ (L(s) = L(r) /\ r < s)
      BY <2>2, <1>1, <1>2, <1>4, LessOrders
    <3>2. Less(L(t), L(s)) \/ (L(t) = L(s) /\ s < t)
      BY <2>2, <1>1, <1>2, <1>4, LessOrders
    <3>3. Less(L(t), L(r)) \/ (L(t) = L(r) /\ r < t)
      BY <3>1, <3>2, <1>1, LessOrders
    <3> QED BY <3>3, <2>2, <1>2
  <2> QED BY <2>1, <2>2, <1>2, <1>4
<1>5. ASSUME NEW r \in Listable(sort), NEW s \in Listable(sort)
      PROVE  r = s \/ Ahead(sort, r, s) \/ Ahead(sort, s, r)
  <2>1. K(r) = K(s) \/ Less(K(r), K(s)) \/ Less(K(s), K(r))
    BY <1>1, LessOrders
  <2>2. L(r) = L(s) \/ Less(L(r), L(s)) \/ Less(L(s), L(r))
    BY <1>1, LessOrders
  <2>3. r = s \/ r < s \/ s < r
    BY <1>1
  <2> QED BY <2>1, <2>2, <2>3, <1>2
<1> QED BY <1>3, <1>4, <1>5

LineIn(sort, rest, r) == Cardinality({s \in rest : Ahead(sort, s, r)}) + 1

(* Each of the rows that follow has a line of its own, in this order. *)
LEMMA LinesAreTaken ==
    ASSUME StarOK, NEW sort \in Sorts, NEW rest \in SUBSET Listable(sort)
    PROVE  /\ IsFiniteSet(rest) /\ Cardinality(rest) \in Nat
           /\ \A r \in rest : LineIn(sort, rest, r) \in 1..Cardinality(rest)
           /\ \A i \in 1..Cardinality(rest) : \E r \in rest : LineIn(sort, rest, r) = i
           /\ \A r, s \in rest : LineIn(sort, rest, r) = LineIn(sort, rest, s) => r = s
           /\ \A r, s \in rest : LineIn(sort, rest, r) < LineIn(sort, rest, s) => Ahead(sort, r, s)
<1> DEFINE R == {p \in rest \X rest : Ahead(sort, p[1], p[2])}
           n == Cardinality(rest)
           U(r) == Cardinality(Under(r, rest, R))
<1>1. IsFiniteSet(rest)
  <2>1. rest \in SUBSET Repositories
    BY DEF Listable
  <2> QED BY <2>1, ViewsConstants, FS_Subset
<1>2. \A r, s \in rest : <<r, s>> \in R <=> Ahead(sort, r, s)
  OBVIOUS
<1> HIDE DEF R
<1>3. Orders(R, rest)
  <2>1. \A r \in rest : r \in Listable(sort)
    OBVIOUS
  <2>2. \A r \in rest : <<r, r>> \notin R
    BY <2>1, <1>2, AheadOrders
  <2>3. \A r, s, t \in rest : <<r, s>> \in R /\ <<s, t>> \in R => <<r, t>> \in R
    BY <2>1, <1>2, AheadOrders
  <2>4. \A r, s \in rest : r = s \/ <<r, s>> \in R \/ <<s, r>> \in R
    BY <2>1, <1>2, AheadOrders
  <2> QED BY <2>2, <2>3, <2>4 DEF Orders
<1>4. /\ n \in Nat
      /\ \A r \in rest : U(r) \in 0..(n - 1)
      /\ \A i \in 0..(n - 1) : \E r \in rest : U(r) = i
      /\ \A r, s \in rest : U(r) = U(s) => r = s
  BY <1>1, <1>3, PlacesAreTaken
<1>5. \A r \in rest : LineIn(sort, rest, r) = U(r) + 1
  <2> SUFFICES ASSUME NEW r \in rest PROVE LineIn(sort, rest, r) = U(r) + 1
    OBVIOUS
  <2>1. Under(r, rest, R) = {s \in rest : Ahead(sort, s, r)}
    BY <1>2 DEF Under
  <2> QED BY <2>1 DEF LineIn
<1>6. ASSUME NEW r \in rest, NEW s \in rest, U(r) < U(s) PROVE Ahead(sort, r, s)
  <2> SUFFICES ASSUME ~Ahead(sort, r, s) PROVE FALSE
    OBVIOUS
  <2>1. r # s
    BY <1>4, <1>6
  <2>2. Ahead(sort, s, r)
    BY <2>1, AheadOrders
  <2>3. Under(s, rest, R) \subseteq Under(r, rest, R)
    BY <2>2, <1>2, AheadOrders DEF Under
  <2>4. IsFiniteSet(Under(r, rest, R))
    <3>1. Under(r, rest, R) \in SUBSET rest
      BY DEF Under
    <3> QED BY <3>1, <1>1, FS_Subset
  <2>5. U(s) <= U(r)
    BY <2>3, <2>4, FS_Subset
  <2> QED BY <2>5, <1>4, <1>6
<1> HIDE DEF n, U
<1>7. \A r \in rest : LineIn(sort, rest, r) \in 1..n
  BY <1>4, <1>5
<1>8. ASSUME NEW i \in 1..n PROVE \E r \in rest : LineIn(sort, rest, r) = i
  <2>1. i - 1 \in 0..(n - 1)
    BY <1>4
  <2>2. PICK r \in rest : U(r) = i - 1
    BY <2>1, <1>4
  <2> QED BY <2>2, <1>5, <1>4
<1>9. \A r, s \in rest : LineIn(sort, rest, r) = LineIn(sort, rest, s) => r = s
  BY <1>4, <1>5
<1>10. \A r, s \in rest : LineIn(sort, rest, r) < LineIn(sort, rest, s) => Ahead(sort, r, s)
  BY <1>4, <1>5, <1>6
<1> QED BY <1>1, <1>4, <1>7, <1>8, <1>9, <1>10 DEF n

RowCount(rest) == IF Limit < Cardinality(rest) THEN Limit ELSE Cardinality(rest)

PageShows(p, sort, after, shown) ==
    LET rest == Rest(sort, after)
        n    == Cardinality(rest)
        k    == RowCount(rest)
        m    == Len(shown)
    IN  /\ p \in List /\ p.sort = sort /\ n \in Nat /\ m \in Nat
        /\ rest = {} => p.shown = shown /\ p.kind \in {"error", "end"}
        /\ (rest = {} /\ p.kind = "end") => after = None \/ Listable(sort) = {}
        /\ rest # {} => p.kind = IF n > Limit THEN "list" ELSE "end"
        /\ DOMAIN p.shown = 1..(m + k)
        /\ \A i \in 1..m : p.shown[i] = shown[i]
        /\ \A i \in 1..k : p.shown[m + i] \in rest /\ LineIn(sort, rest, p.shown[m + i]) = i
        /\ k > 0 => p.after = p.shown[m + k]

(* The rows of a page. *)
LEMMA PageRows ==
    ASSUME StarOK, NEW sort \in Sorts, NEW after \in Repositories \cup {None},
           NEW shown \in Seq(Repositories)
    PROVE  PageShows(RowsAfter(sort, after, shown), sort, after, shown)
<1> DEFINE p     == RowsAfter(sort, after, shown)
           rest  == Rest(sort, after)
           n     == Cardinality(rest)
           k     == RowCount(rest)
           m     == Len(shown)
           items == [i \in 1..k |-> CHOOSE r \in rest : LineIn(sort, rest, r) = i]
<1>1. rest \in SUBSET Listable(sort)
  BY DEF Rest
<1>2. /\ IsFiniteSet(rest) /\ n \in Nat
      /\ \A i \in 1..n : \E r \in rest : LineIn(sort, rest, r) = i
  <2> HIDE DEF rest
  <2> QED BY <1>1, LinesAreTaken
<1>3. rest = {} <=> n = 0
  <2> HIDE DEF rest
  <2> QED BY <1>2, FS_EmptySet
<1>4. Limit \in Nat \ {0} /\ k \in 0..n /\ k \in Nat /\ (k = 0 <=> n = 0) /\ m \in Nat
  BY <1>2, ViewsConstants DEF RowCount
<1>5. Min({Limit, Cardinality(rest)}) = k
  <2> HIDE DEF rest
  <2>1. Cardinality(rest) \in Int /\ Limit \in Int
    BY <1>2, <1>4
  <2> QED BY <2>1, MinOfTwo DEF RowCount
<1>6. p = [kind  |-> IF rest = {} /\ after # None /\ Total(sort) > 0 THEN "error"
                     ELSE IF n > Limit THEN "list" ELSE "end",
           sort  |-> sort,
           after |-> IF items = <<>> THEN after ELSE items[Len(items)],
           shown |-> shown \o items]
  <2> DEFINE lines == [i \in 1..Min({Limit, Cardinality(rest)}) |->
                         CHOOSE r \in rest : Cardinality({s \in rest : Ahead(sort, s, r)}) + 1 = i]
  <2>1. lines = items
    <3> HIDE DEF rest, k
    <3> QED BY <1>5 DEF LineIn
  <2>2. p = [kind  |-> IF rest = {} /\ after # None /\ Total(sort) > 0 THEN "error"
                       ELSE IF n > Limit THEN "list" ELSE "end",
             sort  |-> sort,
             after |-> IF lines = <<>> THEN after ELSE lines[Len(lines)],
             shown |-> shown \o lines]
    BY DEF RowsAfter
  <2> HIDE DEF p, rest, lines, items, k
  <2> QED BY <2>1, <2>2
<1> HIDE DEF p, rest, k
<1>7. \A i \in 1..k : items[i] \in rest /\ LineIn(sort, rest, items[i]) = i
  <2> SUFFICES ASSUME NEW i \in 1..k
               PROVE  items[i] \in rest /\ LineIn(sort, rest, items[i]) = i
    OBVIOUS
  <2>1. i \in 1..n
    BY <1>2, <1>4
  <2>2. items[i] = CHOOSE r \in rest : LineIn(sort, rest, r) = i
    OBVIOUS
  <2> QED BY <2>1, <2>2, <1>2
<1>8. rest \in SUBSET Repositories
  BY <1>1 DEF Listable
<1>9. items \in Seq(Repositories) /\ Len(items) = k
  <2>1. \A i \in 1..k : items[i] \in Repositories
    BY <1>7, <1>8
  <2>2. items \in [1..k -> Repositories]
    BY <2>1
  <2> HIDE DEF items
  <2> QED BY <2>2, <1>4
<1> HIDE DEF items
<1>10. items = <<>> <=> k = 0
  BY <1>9, EmptySeq
<1>11. k > 0 => items[Len(items)] \in Repositories
  BY <1>4, <1>7, <1>8, <1>9
<1>12. /\ shown \o items \in Seq(Repositories) /\ Len(shown \o items) = m + k
       /\ \A i \in 1..(m + k) : (shown \o items)[i] = IF i <= m THEN shown[i] ELSE items[i - m]
  BY <1>9, ConcatProperties
<1> HIDE DEF m
<1>13. p.shown = shown \o items /\ p.sort = sort
  BY <1>6
<1>14. DOMAIN p.shown = 1..(m + k)
  BY <1>12, <1>13
<1>15. \A i \in 1..m : p.shown[i] = shown[i]
  <2> SUFFICES ASSUME NEW i \in 1..m PROVE p.shown[i] = shown[i]
    OBVIOUS
  <2>1. i \in 1..(m + k) /\ i <= m
    BY <1>4
  <2>2. (shown \o items)[i] = shown[i]
    BY <2>1, <1>12
  <2> QED BY <2>2, <1>13
<1>16. \A i \in 1..k : p.shown[m + i] = items[i]
  <2> SUFFICES ASSUME NEW i \in 1..k PROVE p.shown[m + i] = items[i]
    OBVIOUS
  <2>1. m + i \in 1..(m + k) /\ ~(m + i <= m) /\ (m + i) - m = i
    BY <1>4
  <2>2. (shown \o items)[m + i] = items[(m + i) - m]
    BY <2>1, <1>12
  <2> QED BY <2>1, <2>2, <1>13
<1>17. p.after \in Repositories \cup {None}
  BY <1>4, <1>6, <1>10, <1>11
<1>18. p \in List
  <2>1. p.kind \in {"list", "end", "error"}
    BY <1>6
  <2> QED BY <2>1, <1>6, <1>12, <1>13, <1>17 DEF List
<1>19. k > 0 => p.after = p.shown[m + k]
  <2>1. k > 0 => k \in 1..k
    BY <1>4
  <2>2. k > 0 => p.after = items[k]
    <3>1. k > 0 => items # <<>>
      BY <1>4, <1>10
    <3> QED BY <3>1, <1>6, <1>9
  <2> QED BY <2>1, <2>2, <1>16
<1>20. ASSUME rest = {} PROVE p.shown = shown /\ p.kind \in {"error", "end"}
  <2>1. n = 0 /\ k = 0
    BY <1>3, <1>4, <1>20
  <2>2. items = <<>>
    BY <2>1, <1>10
  <2>3. p.shown = shown
    BY <2>2, <1>13
  <2> QED BY <2>1, <2>3, <1>4, <1>6
<1>21. ASSUME rest = {}, p.kind = "end", after # None PROVE Listable(sort) = {}
  <2>1. ~(Total(sort) > 0)
    BY <1>6, <1>21
  <2>2. IsFiniteSet(Listable(sort))
    BY LinesAreTaken
  <2>3. Cardinality(Listable(sort)) = 0
    BY <2>1, <2>2, FS_CardinalityType DEF Total
  <2> QED BY <2>2, <2>3, FS_EmptySet
<1>22. rest # {} => p.kind = IF n > Limit THEN "list" ELSE "end"
  BY <1>6
<1>23. \A i \in 1..k : p.shown[m + i] \in rest /\ LineIn(sort, rest, p.shown[m + i]) = i
  BY <1>7, <1>16
<1>24. PageShows(p, sort, after, shown)
  BY <1>2, <1>4, <1>13, <1>14, <1>15, <1>18, <1>19, <1>20, <1>21, <1>22, <1>23
     DEF PageShows, rest, k, m
<1> QED BY <1>24 DEF p

(* Whoever kept still has been shown once or follows the cursor. *)
LEMMA RowsKeep ==
    ASSUME StarOK, NEW sort \in Sorts, NEW after \in Repositories \cup {None},
           NEW shown \in Seq(Repositories),
           ~moved => \A r \in Still :
              /\ \A i, j \in DOMAIN shown : (shown[i] = r /\ shown[j] = r) => i = j
              /\ r \in Listable(sort) =>
                    (\E i \in DOMAIN shown : shown[i] = r) \/ r \in Rest(sort, after)
              /\ r \in Rest(sort, after) => \A i \in DOMAIN shown : shown[i] # r
    PROVE  ListOK(RowsAfter(sort, after, shown))
<1> DEFINE p       == RowsAfter(sort, after, shown)
           rest    == Rest(sort, after)
           n       == Cardinality(rest)
           k       == RowCount(rest)
           m       == Len(shown)
           Line(r) == LineIn(sort, rest, r)
           last    == p.shown[m + k]
<1>1. /\ p \in List /\ p.sort = sort /\ n \in Nat /\ m \in Nat
      /\ rest = {} => p.shown = shown /\ p.kind \in {"error", "end"}
      /\ (rest = {} /\ p.kind = "end") => after = None \/ Listable(sort) = {}
      /\ rest # {} => p.kind = IF n > Limit THEN "list" ELSE "end"
      /\ DOMAIN p.shown = 1..(m + k)
      /\ \A i \in 1..m : p.shown[i] = shown[i]
      /\ \A i \in 1..k : p.shown[m + i] \in rest /\ Line(p.shown[m + i]) = i
      /\ k > 0 => p.after = last
  <2>1. PageShows(p, sort, after, shown)
    BY PageRows
  <2> HIDE DEF p
  <2> QED BY <2>1 DEF PageShows
<1>2. DOMAIN shown = 1..m
  OBVIOUS
<1>3. rest \in SUBSET Listable(sort)
  BY DEF Rest
<1> HIDE DEF p, k, m, last
<1>4. /\ \A r \in rest : Line(r) \in 1..n
      /\ \A r, s \in rest : Line(r) = Line(s) => r = s
      /\ \A r, s \in rest : Line(r) < Line(s) => Ahead(sort, r, s)
  <2> HIDE DEF rest
  <2> QED BY <1>3, LinesAreTaken
<1>5. k \in 0..n /\ Limit \in Nat \ {0} /\ (k = 0 => n = 0) /\ k \in Nat
  BY <1>1, ViewsConstants DEF k, RowCount
<1>6. (rest = {} <=> n = 0)
  <2>1. IsFiniteSet(rest)
    <3> HIDE DEF rest
    <3> QED BY <1>3, LinesAreTaken
  <2> HIDE DEF rest
  <2> QED BY <2>1, FS_EmptySet
<1>7. CASE rest = {}
  <2>1. p.kind = "list" => FALSE
    BY <1>1, <1>7
  <2>2. ASSUME ~moved, p.kind = "end", NEW r \in Still
        PROVE  /\ \A i, j \in DOMAIN p.shown : (p.shown[i] = r /\ p.shown[j] = r) => i = j
               /\ r \in Listable(sort) => \E i \in DOMAIN p.shown : p.shown[i] = r
    <3>1. p.shown = shown /\ (r \in Listable(sort) => after = None)
      BY <1>1, <1>7, <2>2
    <3>2. after = None => rest = Listable(sort)
      BY DEF Rest
    <3> HIDE DEF rest
    <3>3. r \notin Listable(sort)
      BY <3>1, <3>2, <1>7
    <3> QED BY <3>1, <3>3, <2>2
  <2> HIDE DEF rest
  <2> QED BY <1>1, <2>1, <2>2 DEF ListOK, p
<1>8. CASE rest # {}
  <2>1. n > 0 /\ k \in 1..n /\ k \in 1..k
    BY <1>1, <1>5, <1>6, <1>8
  <2>2. last \in rest /\ Line(last) = k /\ p.after = last
    BY <1>1, <2>1 DEF last
  <2>3. p.kind = "end" => k = n
    BY <1>1, <1>5, <1>8 DEF k, RowCount
  <2>4. last \in Listable(sort)
    BY <2>2, <1>3
  <2>5. \A r \in rest : r \in Rest(sort, last) <=> Ahead(sort, last, r)
    <3>1. last # None
      BY <2>4, ViewsConstants DEF Listable
    <3> QED BY <3>1, <2>4, <1>3 DEF Rest
  <2>6. Rest(sort, last) \subseteq rest
    <3> SUFFICES ASSUME NEW r \in Rest(sort, last) PROVE r \in rest
      OBVIOUS
    <3>1. last # None
      BY <2>4, ViewsConstants DEF Listable
    <3>2. r \in Listable(sort) /\ Ahead(sort, last, r)
      BY <3>1 DEF Rest
    <3>3. CASE after = None
      BY <3>2, <3>3 DEF Rest
    <3>4. CASE after # None
      <4>1. after \in Listable(sort) /\ Ahead(sort, after, last)
        BY <2>2, <3>4 DEF Rest
      <4>2. Ahead(sort, after, r)
        BY <4>1, <3>2, <2>4, AheadOrders
      <4> QED BY <4>1, <4>2, <3>2 DEF Rest
    <3> QED BY <3>3, <3>4
  <2> HIDE DEF rest
  <2>7. ASSUME NEW r \in rest
        PROVE  r \in Rest(sort, last) <=> Line(r) > k
    <3>1. Line(r) \in 1..n /\ r \in Listable(sort)
      BY <1>3, <1>4
    <3>2. CASE Line(r) > k
      BY <3>2, <2>2, <2>5, <1>4
    <3>3. CASE Line(r) = k
      <4>1. r = last
        BY <3>3, <2>2, <1>4
      <4> QED BY <4>1, <3>3, <3>1, <2>5, <1>5, AheadOrders
    <3>4. CASE Line(r) < k
      <4>1. Ahead(sort, r, last)
        BY <3>4, <2>2, <1>4
      <4>2. ~Ahead(sort, last, r)
        BY <4>1, <3>1, <2>4, AheadOrders
      <4> QED BY <4>2, <3>4, <3>1, <2>5, <1>5
    <3> QED BY <3>1, <3>2, <3>3, <3>4, <1>5
  <2>8. ASSUME NEW r \in rest
        PROVE  /\ Line(r) <= k => p.shown[m + Line(r)] = r
               /\ \A i \in 1..k : p.shown[m + i] = r => i = Line(r)
    <3>1. Line(r) \in 1..n
      BY <1>4
    <3>2. ASSUME Line(r) <= k PROVE p.shown[m + Line(r)] = r
      <4>1. Line(r) \in 1..k
        BY <3>1, <3>2, <1>5
      <4> QED BY <4>1, <1>1, <1>4
    <3> QED BY <3>2, <1>1
  <2>9. ASSUME NEW i \in DOMAIN p.shown
        PROVE  \/ i \in 1..m /\ p.shown[i] = shown[i]
               \/ i - m \in 1..k /\ p.shown[i] \in rest /\ Line(p.shown[i]) = i - m
    <3>1. i \in 1..(m + k)
      BY <1>1
    <3>2. CASE i <= m
      BY <3>1, <3>2, <1>1
    <3>3. CASE i > m
      <4>1. i - m \in 1..k /\ m + (i - m) = i
        BY <3>1, <3>3, <1>1, <1>5
      <4> QED BY <4>1, <1>1
    <3> QED BY <3>1, <3>2, <3>3, <1>1
  <2>10. ASSUME ~moved, NEW r \in Still
         PROVE  \A i, j \in DOMAIN p.shown : (p.shown[i] = r /\ p.shown[j] = r) => i = j
    <3>1. /\ \A i, j \in 1..m : (shown[i] = r /\ shown[j] = r) => i = j
          /\ r \in rest => \A i \in 1..m : shown[i] # r
      BY <2>10, <1>2 DEF rest
    <3> SUFFICES ASSUME NEW i \in DOMAIN p.shown, NEW j \in DOMAIN p.shown,
                        p.shown[i] = r, p.shown[j] = r
                 PROVE  i = j
      OBVIOUS
    <3>2. i \in Int /\ j \in Int
      BY <1>1, <1>5
    <3>3. CASE r \in rest
      <4>1. i - m = Line(r) /\ j - m = Line(r)
        BY <3>1, <3>3, <2>9
      <4> QED BY <4>1, <3>2, <1>1
    <3>4. CASE r \notin rest
      <4>1. i \in 1..m /\ shown[i] = r /\ j \in 1..m /\ shown[j] = r
        BY <3>4, <2>9
      <4> QED BY <4>1, <3>1
    <3> QED BY <3>3, <3>4
  <2>11. ASSUME ~moved, NEW r \in Still, r \in Listable(sort)
         PROVE  \/ \E i \in DOMAIN p.shown : p.shown[i] = r
                \/ p.kind = "list" /\ r \in Rest(sort, last)
    <3>1. CASE \E i \in DOMAIN shown : shown[i] = r
      <4>1. PICK i \in 1..m : shown[i] = r
        BY <3>1, <1>2
      <4>2. i \in 1..(m + k)
        BY <1>1, <1>5
      <4> QED BY <4>1, <4>2, <1>1
    <3>2. CASE r \in rest
      <4>1. Line(r) \in 1..n
        BY <3>2, <1>4
      <4>2. CASE Line(r) <= k
        <5>1. m + Line(r) \in 1..(m + k)
          BY <4>1, <4>2, <1>1, <1>5
        <5> QED BY <5>1, <4>2, <3>2, <2>8, <1>1
      <4>3. CASE Line(r) > k
        <5>1. p.kind = "list"
          BY <4>1, <4>3, <2>3, <1>1, <1>8
        <5> QED BY <5>1, <4>3, <3>2, <2>7
      <4> QED BY <4>1, <4>2, <4>3, <1>5
    <3> QED BY <3>1, <3>2, <2>11 DEF rest
  <2>12. ASSUME ~moved, NEW r \in Still, r \in Rest(sort, last), NEW i \in DOMAIN p.shown
         PROVE  p.shown[i] # r
    <3>1. r \in rest /\ \A j \in 1..m : shown[j] # r
      BY <2>12, <2>6, <1>2 DEF rest
    <3>2. Line(r) > k /\ Line(r) \in 1..n
      BY <3>1, <2>12, <2>7, <1>4
    <3>3. CASE i \in 1..m /\ p.shown[i] = shown[i]
      BY <3>1, <3>3
    <3>4. CASE i - m \in 1..k /\ Line(p.shown[i]) = i - m
      BY <3>2, <3>4, <1>5
    <3> QED BY <3>3, <3>4, <2>9
  <2> HIDE DEF Line
  <2> QED BY <1>1, <2>2, <2>4, <2>10, <2>11, <2>12 DEF ListOK, p
<1> QED BY <1>7, <1>8

(* The place of a repository depends on its own snapshots alone. *)
LEMMA PlaceIsOwn ==
    ASSUME NEW r \in Repositories, star'[r] = star[r], NEW sort \in Sorts
    PROVE  /\ LastStars(r)' = LastStars(r)
           /\ Key(sort, r)' = Key(sort, r)
           /\ (r \in Listable(sort))' <=> r \in Listable(sort)
<1>1. \A d : Observed(r, d)' = Observed(r, d)
  BY DEF Observed
<1>2. LastStars(r)' = LastStars(r)
  <2> DEFINE days == {d \in Calendar : Observed(r, d)}
  <2>1. days' = days
    BY <1>1
  <2>2. LastStars(r) = IF days = {} THEN None ELSE star[r][Max(days)]
    BY DEF LastStars
  <2>3. LastStars(r)' = IF days' = {} THEN None ELSE star'[r][Max(days')]
    BY DEF LastStars
  <2> HIDE DEF days
  <2> QED BY <2>1, <2>2, <2>3
<1>3. Growth(r, WindowDays)' = Growth(r, WindowDays)
  BY <1>1 DEF Growth
<1>4. Momentum(r)' = Momentum(r)
  BY <1>1, <1>3 DEF Momentum, Before
<1>5. Key(sort, r)' = Key(sort, r)
  BY <1>2, <1>3, <1>4 DEF Key
<1>6. (r \in Listable(sort))' <=> r \in Listable(sort)
  BY <1>3, <1>4 DEF Listable
<1> QED BY <1>2, <1>5, <1>6

LEMMA StoreKeeps ==
    ASSUME ListInv, NEW q \in Repositories, NEW d \in Calendar, NEW n \in 0..MaxStars, Store(q, d, n)
    PROVE  ListInv'
<1>1. /\ page.kind = "list" /\ page' = page /\ stored' = stored \cup {<<q, d>>}
      /\ star' = [star EXCEPT ![q][d] = n]
      /\ moved' = (moved \/ (q = page.after /\ Place(page.sort, q)' # Place(page.sort, q)))
  BY DEF Store
<1>2. StarOK /\ ListOK(page)
  BY <1>1 DEF ListInv
<1>3. StarOK'
  BY <1>1, <1>2 DEF StarOK
<1>4. \A r \in Repositories : r # q => star'[r] = star[r]
  BY <1>1, <1>2 DEF StarOK
<1>5. Still' \subseteq Still /\ q \notin Still' /\ Still \subseteq Repositories
  <2>1. <<q, d>> \in stored' /\ <<q, d>>[1] = q /\ stored \subseteq stored'
    BY <1>1
  <2>2. Still' = Repositories \ {cell[1] : cell \in stored'}
    BY DEF Still
  <2> QED BY <2>1, <2>2 DEF Still
<1>6. page \in List /\ page.sort \in Sorts /\ page.after \in Repositories \cup {None}
  BY <1>2 DEF ListOK, List
<1> DEFINE after == page.after
           sort  == page.sort
<1>7. ASSUME ~moved'
      PROVE  /\ after \in Listable(sort) /\ ~moved
             /\ after \in Repositories
             /\ (after \in Listable(sort))' 
             /\ Key(sort, after)' = Key(sort, after)
             /\ LastStars(after)' = LastStars(after)
  <2>1. after \in Listable(sort) /\ ~moved
    BY <1>1, <1>2, <1>7 DEF ListOK
  <2>2. after \in Repositories
    BY <2>1 DEF Listable
  <2>3. CASE after # q
    <3>1. star'[after] = star[after]
      BY <2>2, <2>3, <1>4
    <3>2. \A r \in Repositories, o \in Sorts : star'[r] = star[r] =>
             /\ LastStars(r)' = LastStars(r) /\ Key(o, r)' = Key(o, r)
             /\ (r \in Listable(o))' <=> r \in Listable(o)
      BY PlaceIsOwn
    <3> QED BY <3>1, <3>2, <2>1, <2>2, <1>1, <1>6
  <2>4. CASE after = q
    <3>1. Place(sort, q)' = Place(sort, q)
      BY <2>4, <1>1, <1>7
    <3> QED BY <3>1, <2>1, <2>2, <2>4, <1>1 DEF Place
  <2> QED BY <2>1, <2>2, <2>3, <2>4
<1>8. ASSUME ~moved', NEW r \in Still'
      PROVE  /\ r \in Still
             /\ (r \in Listable(sort))' <=> r \in Listable(sort)
             /\ (r \in Rest(sort, after))' <=> r \in Rest(sort, after)
  <2>1. r \in Still /\ r \in Repositories /\ star'[r] = star[r]
    BY <1>4, <1>5
  <2>2. \A o \in Sorts :
           /\ LastStars(r)' = LastStars(r) /\ Key(o, r)' = Key(o, r)
           /\ (r \in Listable(o))' <=> r \in Listable(o)
    BY <2>1, PlaceIsOwn
  <2>3. /\ LastStars(r)' = LastStars(r) /\ Key(sort, r)' = Key(sort, r)
        /\ (r \in Listable(sort))' <=> r \in Listable(sort)
    BY <2>2, <1>1, <1>6
  <2>4. Ahead(sort, after, r)' = Ahead(sort, after, r)
    BY <2>3, <1>1, <1>7, <1>8 DEF Ahead
  <2> QED BY <2>1, <2>3, <2>4, <1>1, <1>7, <1>8 DEF Rest
<1>9. ListOK(page)'
  BY <1>1, <1>2, <1>7, <1>8 DEF ListOK
<1> QED BY <1>3, <1>9 DEF ListInv

LEMMA ListInit == ViewsInit => ListInv
BY DEF ViewsInit, ListInv, StarOK, Home

LEMMA ListNext == ListInv /\ [ViewsNext]_viewsVars => ListInv'
<1> SUFFICES ASSUME ListInv, [ViewsNext]_viewsVars PROVE ListInv'
  OBVIOUS
<1>1. ASSUME ListOK(page'), UNCHANGED <<star, stored, moved>> PROVE ListInv'
  <2>1. \A r \in Repositories, sort \in Sorts :
           /\ LastStars(r)' = LastStars(r) /\ Key(sort, r)' = Key(sort, r)
           /\ (r \in Listable(sort))' <=> r \in Listable(sort)
    BY <1>1, PlaceIsOwn
  <2>2. \A sort \in Sorts : Listable(sort)' = Listable(sort) /\ Listable(sort) \subseteq Repositories
    BY <2>1 DEF Listable
  <2>3. \A sort \in Sorts : \A after : Rest(sort, after)' = Rest(sort, after)
    <3> SUFFICES ASSUME NEW sort \in Sorts, NEW after PROVE Rest(sort, after)' = Rest(sort, after)
      OBVIOUS
    <3>1. \A r, s \in Listable(sort) : Ahead(sort, r, s)' = Ahead(sort, r, s)
      BY <2>1, <2>2 DEF Ahead
    <3> QED BY <3>1, <2>2 DEF Rest
  <2>4. page' \in List => page'.sort \in Sorts
    BY DEF List
  <2>5. ListOK(page)'
    BY <2>2, <2>3, <2>4, <1>1 DEF ListOK, Still
  <2> QED BY <2>5, <1>1 DEF ListInv, StarOK
<1>2. CASE OpenDashboard
  BY <1>2 DEF OpenDashboard, ListInv, StarOK
<1>3. CASE \E members \in SUBSET Repositories, exclude \in BOOLEAN : OpenTopic(members, exclude)
  BY <1>3 DEF OpenTopic, ListInv, StarOK
<1>4. CASE \E sort \in Sorts : OpenList(sort)
  <2>1. PICK sort \in Sorts : OpenList(sort)
    BY <1>4
  <2>2. page' = RowsAfter(sort, None, <<>>) /\ UNCHANGED <<star, stored, moved>>
    BY <2>1 DEF OpenList
  <2>3. /\ Rest(sort, None) = Listable(sort) /\ <<>> \in Seq(Repositories)
        /\ DOMAIN <<>> = {} /\ StarOK /\ None \in Repositories \cup {None}
    BY DEF Rest, ListInv
  <2>4. ListOK(RowsAfter(sort, None, <<>>))
    BY <2>3, RowsKeep
  <2> QED BY <2>2, <2>4, <1>1
<1>5. CASE ReadOn
  <2>1. /\ page.kind = "list" /\ page' = RowsAfter(page.sort, page.after, page.shown)
        /\ UNCHANGED <<star, stored, moved>>
    BY <1>5 DEF ReadOn
  <2>2. ListOK(page) /\ StarOK /\ page \in List
    BY <2>1 DEF ListInv, ListOK
  <2>3. page.sort \in Sorts /\ page.after \in Repositories \cup {None} /\ page.shown \in Seq(Repositories)
    BY <2>2 DEF List
  <2>4. ListOK(RowsAfter(page.sort, page.after, page.shown))
    BY <2>1, <2>2, <2>3, RowsKeep DEF ListOK
  <2> QED BY <2>1, <2>4, <1>1
<1>6. CASE Close
  BY <1>6 DEF Close, ListInv, StarOK, Home
<1>7. CASE \E r \in Repositories, d \in Calendar, n \in 0..MaxStars : Store(r, d, n)
  BY <1>7, StoreKeeps
<1>8. CASE UNCHANGED viewsVars
  <2>1. page' = page /\ UNCHANGED <<star, stored, moved>>
    BY <1>8 DEF viewsVars
  <2>2. page.kind \in {"list", "end", "error"} => ListInv'
    BY <2>1, <1>1 DEF ListInv
  <2> QED BY <2>1, <2>2 DEF ListInv, StarOK
<1> QED BY <1>2, <1>3, <1>4, <1>5, <1>6, <1>7, <1>8 DEF ViewsNext

(* A reader who pages to the end of the project list is shown everything   *)
(* that did not change meanwhile, once, whatever is stored between two     *)
(* pages, as long as the repository of the cursor keeps its place: the     *)
(* keyset cursor and the order of the rows agree, ties and NULLs included  *)
(* (ListRepositoryTrends).                                                 *)
THEOREM ListCorrect == ViewsSpec => []ListShowsEachOnce
<1>1. ASSUME ListInv PROVE ListShowsEachOnce
  <2> SUFFICES ASSUME page.kind \in {"list", "end"}, ~moved, NEW r \in Still
               PROVE  LET times == Cardinality({i \in DOMAIN page.shown : page.shown[i] = r})
                      IN  /\ times <= 1
                          /\ (page.kind = "end" /\ r \in Listable(page.sort)) => times = 1
    BY DEF ListShowsEachOnce, Still
  <2> DEFINE at == {i \in DOMAIN page.shown : page.shown[i] = r}
  <2>1. /\ \A i, j \in at : i = j
        /\ (page.kind = "end" /\ r \in Listable(page.sort)) => at # {}
    BY <1>1 DEF ListInv, ListOK
  <2> HIDE DEF at
  <2>2. CASE at = {}
    BY <2>1, <2>2, FS_EmptySet DEF at
  <2>3. CASE at # {}
    <3>1. PICK i \in at : at = {i}
      BY <2>1, <2>3
    <3>2. Cardinality(at) = 1
      BY <3>1, FS_Singleton
    <3> QED BY <3>2 DEF at
  <2> QED BY <2>2, <2>3
<1> QED BY <1>1, ListInit, ListNext, PTL DEF ViewsSpec

(***************************************************************************)
(* The curve of a topic.                                                   *)
(***************************************************************************)
LEMMA WindowTyped ==
    /\ From \in Nat /\ AsOf \in Nat /\ From <= AsOf /\ From \in Int /\ AsOf \in Int
    /\ From..AsOf \subseteq Calendar /\ Calendar = 0..AsOf /\ IsFiniteSet(Calendar)
<1>1. AsOf \in Nat /\ HistoryDays \in Nat /\ HistoryDays <= AsOf
  BY ViewsConstants
<1>2. IsFiniteSet(0..AsOf)
  BY <1>1, FS_Interval
<1> QED BY <1>1, <1>2 DEF From, Calendar

(* The stars of a point are those of everything that is followed. *)
LEMMA PointOfCohort ==
    ASSUME StarOK, NEW C \in SUBSET Repositories, C # {}, NEW d \in Calendar
    PROVE  LET x == Shown(TopicOn(C, d))
           IN  /\ x \in TopicPoint
               /\ x.stars # None <=> \A r \in C : Observed(r, d)
               /\ x.stars # None => x.stars = SumFunctionOnSet([r \in C |-> star[r][d]], C)
<1> DEFINE O == {r \in C : Observed(r, d)}
           y == TopicOn(C, d)
           x == Shown(y)
           s == IF O = {} THEN None ELSE Stars(O, d)
<1>1. y = [stars |-> s, observed |-> Cardinality(O), target |-> Cardinality(C)]
  BY DEF TopicOn
<1>2. O \in SUBSET C /\ IsFiniteSet(C) /\ IsFiniteSet(O)
  <2>1. O \in SUBSET Repositories /\ IsFiniteSet(Repositories)
    BY ViewsConstants
  <2> HIDE DEF O
  <2>2. IsFiniteSet(C) /\ IsFiniteSet(O)
    BY <2>1, FS_Subset
  <2> QED BY <2>2 DEF O
<1>3. Stars(O, d) = SumFunctionOnSet([r \in O |-> star[r][d]], O)
  BY DEF Stars, SumFunction
<1>4. Stars(O, d) \in Nat
  <2> DEFINE f == [r \in O |-> star[r][d]]
  <2>1. \A r \in O : f[r] \in Nat
    BY StarsTyped
  <2> HIDE DEF f, O
  <2>2. SumFunctionOnSet(f, O) \in Nat
    BY <2>1, <1>2, SumOfNaturals
  <2> QED BY <2>2, <1>3 DEF f
<1>5. O # C => Cardinality(O) < Cardinality(C)
  <2> HIDE DEF O
  <2> QED BY <1>2, PartIsSmaller
<1>6. Cardinality(O) \in Nat /\ Cardinality(C) \in Nat
  BY <1>2, FS_CardinalityType
<1>7. O = C <=> \A r \in C : Observed(r, d)
  OBVIOUS
<1> HIDE DEF O, y, s
<1>8. y \in TopicPoint
  BY <1>1, <1>4, <1>6 DEF TopicPoint, s
<1>9. None \notin Nat
  BY ViewsConstants
<1>10. CASE O = C
  <2>1. x = y /\ y.stars = Stars(C, d)
    BY <1>1, <1>6, <1>10 DEF Shown, s
  <2>2. Stars(C, d) = SumFunctionOnSet([r \in C |-> star[r][d]], C)
    BY <1>3, <1>10
  <2>3. Stars(C, d) # None
    BY <1>4, <1>9, <1>10
  <2> HIDE DEF x
  <2> QED BY <2>1, <2>2, <2>3, <1>7, <1>8, <1>10 DEF x, y
<1>11. CASE O # C
  <2>1. x = [y EXCEPT !.stars = None]
    BY <1>1, <1>5, <1>11 DEF Shown
  <2>2. x \in TopicPoint /\ x.stars = None
    BY <2>1, <1>8 DEF TopicPoint
  <2> HIDE DEF x
  <2> QED BY <2>2, <1>7, <1>11 DEF x, y
<1> QED BY <1>10, <1>11

(* The days of a curve begin with the first one of its cohort. *)
LEMMA TopicDays ==
    ASSUME NEW members \in SUBSET Repositories, DOMAIN TopicHistory(members) # {}
    PROVE  LET start == Min(Starts(members))
               C     == Cohort(members, start)
           IN  /\ start \in From..AsOf
               /\ TopicHistory(members) = [d \in start..AsOf |-> TopicOn(C, d)]
               /\ Min(start..AsOf) = start /\ AsOf \in start..AsOf /\ start \in start..AsOf
               /\ start..AsOf \subseteq Calendar
               /\ C \in SUBSET Repositories /\ C # {}
               /\ \A r \in C : Observed(r, start) /\ Observed(r, AsOf)
<1> DEFINE start == Min(Starts(members))
           C     == Cohort(members, start)
<1>1. Starts(members) # {}
  BY DEF TopicHistory
<1>2. Starts(members) \in SUBSET Nat /\ Starts(members) \subseteq From..AsOf
  BY WindowTyped DEF Starts
<1>3. start \in Starts(members)
  BY <1>1, <1>2, MinIsLeast
<1> HIDE DEF start
<1>4. start \in From..AsOf /\ \E r \in members : Observed(r, start) /\ Observed(r, AsOf)
  BY <1>3 DEF Starts
<1>5. TopicHistory(members) = [d \in start..AsOf |-> TopicOn(C, d)]
  BY <1>1 DEF TopicHistory, start
<1>6. start \in Nat /\ start <= AsOf /\ AsOf \in Nat /\ start..AsOf \subseteq Calendar
  BY <1>4, WindowTyped
<1>7. Min(start..AsOf) = start
  <2>1. start..AsOf \in SUBSET Nat /\ start..AsOf # {} /\ start \in start..AsOf
    BY <1>6
  <2>2. Min(start..AsOf) \in start..AsOf /\ Min(start..AsOf) <= start
    BY <2>1, MinIsLeast
  <2> QED BY <2>2, <1>6
<1>8. C \in SUBSET Repositories /\ C # {} /\ \A r \in C : Observed(r, start) /\ Observed(r, AsOf)
  BY <1>4 DEF Cohort
<1> QED BY <1>4, <1>5, <1>6, <1>7, <1>8 DEF start

TopicOK(p) ==
    /\ p.members \in SUBSET Repositories
    /\ p.points = [d \in DOMAIN TopicHistory(p.members) |-> Shown(TopicHistory(p.members)[d])]

LEMMA CurveIsOfOnePopulation ==
    ASSUME StarOK, page.kind = "topic" => TopicOK(page)
    PROVE  CurvesCompareOnePopulation
<1> DEFINE members == page.members
           days    == DOMAIN page.points
           stars(d) == page.points[d].stars
           start   == Min(Starts(members))
           C       == Cohort(members, start)
           f(d)    == [r \in C |-> star[r][d]]
           g(d)    == [r \in C |-> star[r][d] - star[r][start]]
<1> SUFFICES ASSUME page.kind = "topic", days # {}
             PROVE  LET followed == {r \in members : Observed(r, Min(days)) /\ Observed(r, AsOf)}
                    IN  /\ stars(Min(days)) # None /\ stars(AsOf) # None
                        /\ \A d \in days : stars(d) # None =>
                              stars(d) - stars(Min(days))
                                 = SumFunction([r \in followed |-> star[r][d] - star[r][Min(days)]])
  BY DEF CurvesCompareOnePopulation
<1>1. /\ members \in SUBSET Repositories
      /\ page.points = [d \in DOMAIN TopicHistory(members) |-> Shown(TopicHistory(members)[d])]
  BY DEF TopicOK
<1>2. days = DOMAIN TopicHistory(members)
  BY <1>1
<1>3. /\ start \in From..AsOf
      /\ TopicHistory(members) = [d \in start..AsOf |-> TopicOn(C, d)]
      /\ Min(start..AsOf) = start /\ AsOf \in start..AsOf /\ start \in start..AsOf
      /\ start..AsOf \subseteq Calendar
      /\ C \in SUBSET Repositories /\ C # {}
      /\ \A r \in C : Observed(r, start) /\ Observed(r, AsOf)
  BY <1>1, <1>2, TopicDays
<1>4. {r \in members : Observed(r, start) /\ Observed(r, AsOf)} = C
  BY DEF Cohort
<1> HIDE DEF start, C
<1>5. days = start..AsOf /\ \A d \in start..AsOf : page.points[d] = Shown(TopicOn(C, d))
  BY <1>1, <1>2, <1>3
<1>6. \A d \in start..AsOf :
         /\ stars(d) # None <=> \A r \in C : Observed(r, d)
         /\ stars(d) # None => stars(d) = SumFunctionOnSet(f(d), C)
  <2> SUFFICES ASSUME NEW d \in start..AsOf
               PROVE  /\ stars(d) # None <=> \A r \in C : Observed(r, d)
                      /\ stars(d) # None => stars(d) = SumFunctionOnSet(f(d), C)
    OBVIOUS
  <2>1. d \in Calendar
    BY <1>3
  <2> DEFINE x == Shown(TopicOn(C, d))
  <2>2. /\ x.stars # None <=> \A r \in C : Observed(r, d)
        /\ x.stars # None => x.stars = SumFunctionOnSet(f(d), C)
    BY <2>1, <1>3, PointOfCohort
  <2>3. stars(d) = x.stars
    BY <1>5
  <2> HIDE DEF x, stars
  <2> QED BY <2>2, <2>3
<1>7. ASSUME NEW d \in start..AsOf, stars(d) # None
      PROVE  stars(d) - stars(start) = SumFunction(g(d))
  <2>1. IsFiniteSet(C)
    BY <1>3, ViewsConstants, FS_Subset
  <2>2. \A r \in C : star[r][d] \in Int /\ star[r][start] \in Int
    <3>1. \A r \in C : Observed(r, d) /\ Observed(r, start)
      BY <1>3, <1>6, <1>7
    <3>2. d \in Calendar /\ start \in Calendar
      BY <1>3
    <3> QED BY <3>1, <3>2, <1>3, StarsTyped
  <2>3. stars(d) = SumFunctionOnSet(f(d), C) /\ stars(start) = SumFunctionOnSet(f(start), C)
    BY <1>3, <1>6, <1>7
  <2> DEFINE fd == f(d)
             fs == f(start)
             gd == g(d)
  <2>4. \A r \in C : fd[r] \in Int /\ fs[r] \in Int /\ gd[r] = fd[r] - fs[r]
    BY <2>2
  <2>5. SumFunction(gd) = SumFunctionOnSet(gd, C)
    BY DEF SumFunction
  <2>6. stars(d) = SumFunctionOnSet(fd, C) /\ stars(start) = SumFunctionOnSet(fs, C)
    BY <2>3
  <2> HIDE DEF fd, fs, gd, stars
  <2>7. SumFunctionOnSet(gd, C) = SumFunctionOnSet(fd, C) - SumFunctionOnSet(fs, C)
    BY <2>1, <2>4, SumOfDifferences
  <2>8. SumFunction(gd) = stars(d) - stars(start)
    BY <2>5, <2>6, <2>7
  <2> QED BY <2>8 DEF gd
<1>8. stars(start) # None /\ stars(AsOf) # None
  BY <1>3, <1>6
<1>9. Min(days) = start
  BY <1>3, <1>5
<1> HIDE DEF stars, days
<1> QED BY <1>4, <1>5, <1>7, <1>8, <1>9

(***************************************************************************)
(* The growth of all projects.                                             *)
(***************************************************************************)
Risen(r, d) ==
    IF Observed(r, d) /\ Earlier(r, d) # {} THEN star[r][d] - star[r][PreviousDay(r, d)] ELSE 0

SeenTo(r, e) == {d \in From..e : Observed(r, d)}

Old(r) == {d \in Calendar \ (From..AsOf) : Observed(r, d)}

BaseTo(r, e) == IF Old(r) = {} THEN Min(SeenTo(r, e)) ELSE Max(Old(r))

GainTo(r, e) == IF SeenTo(r, e) = {} THEN 0 ELSE star[r][Max(SeenTo(r, e))] - star[r][BaseTo(r, e)]

DeltaOf(point) == IF point.delta = None THEN 0 ELSE point.delta

(* Days are numbers, and sets of them have extremes. *)
LEMMA DaysHaveEnds ==
    ASSUME NEW D \in SUBSET Calendar, D # {}
    PROVE  /\ IsFiniteSet(D) /\ D \in SUBSET Int /\ D \in SUBSET Nat
           /\ Max(D) \in D /\ Min(D) \in D
           /\ \A d \in D : Min(D) <= d /\ d <= Max(D)
<1>1. IsFiniteSet(D) /\ D \in SUBSET Int /\ D \in SUBSET Nat
  <2>1. IsFiniteSet(Calendar) /\ Calendar \in SUBSET Nat
    BY WindowTyped
  <2>2. IsFiniteSet(D)
    BY <2>1, FS_Subset
  <2>3. D \in SUBSET Nat /\ D \in SUBSET Int
    BY <2>1
  <2> QED BY <2>2, <2>3
<1>2. Max(D) \in D /\ \A d \in D : Max(D) >= d
  BY <1>1, FiniteMax
<1>3. Min(D) \in D /\ \A d \in D : Min(D) <= d
  BY <1>1, MinIsLeast
<1> QED BY <1>1, <1>2, <1>3

LEMMA LastDay ==
    ASSUME NEW D \in SUBSET Calendar, NEW m \in D, \A d \in D : d <= m
    PROVE  Max(D) = m
<1>1. Max(D) \in D /\ m <= Max(D) /\ D \in SUBSET Int
  BY DaysHaveEnds
<1>2. Max(D) \in Int /\ m \in Int /\ Max(D) <= m
  BY <1>1
<1> QED BY <1>1, <1>2

LEMMA RisenTyped ==
    ASSUME StarOK, NEW r \in Repositories, NEW d \in Calendar
    PROVE  /\ Risen(r, d) \in Int
           /\ (Observed(r, d) /\ Earlier(r, d) # {}) =>
                 /\ star[r][d] \in Nat /\ star[r][PreviousDay(r, d)] \in Nat
                 /\ PreviousDay(r, d) \in Earlier(r, d)
<1> SUFFICES ASSUME Observed(r, d), Earlier(r, d) # {}
             PROVE  /\ star[r][d] \in Nat /\ star[r][PreviousDay(r, d)] \in Nat
                    /\ PreviousDay(r, d) \in Earlier(r, d)
  BY DEF Risen
<1>1. Earlier(r, d) \in SUBSET Calendar
  BY DEF Earlier
<1>2. PreviousDay(r, d) \in Earlier(r, d)
  BY <1>1, DaysHaveEnds DEF PreviousDay
<1>3. PreviousDay(r, d) \in Calendar /\ Observed(r, PreviousDay(r, d))
  BY <1>2 DEF Earlier
<1> QED BY <1>2, <1>3, StarsTyped

(* A point is the sum of what each repository has risen on its day. *)
LEMMA PointOfDay ==
    ASSUME StarOK, NEW d \in Calendar
    PROVE  /\ GrowthOn(d) \in GrowthPoint
           /\ DeltaOf(GrowthOn(d)) = SumFunctionOnSet([r \in Repositories |-> Risen(r, d)], Repositories)
           /\ DeltaOf(GrowthOn(d)) \in Int
<1> DEFINE T == {r \in Repositories : Observed(r, d) /\ Earlier(r, d) # {}}
           f == [r \in T |-> star[r][d] - star[r][PreviousDay(r, d)]]
           g == [r \in Repositories |-> Risen(r, d)]
           total == IF T = {} THEN None ELSE SumFunction(f)
           G == {r \in T : d - PreviousDay(r, d) > 1}
<1>1. GrowthOn(d) = [delta |-> total, comparable |-> Cardinality(T), gaps |-> Cardinality(G)]
  BY DEF GrowthOn
<1>2. SumFunction(f) = SumFunctionOnSet(f, T)
  BY DEF SumFunction
<1>3. /\ \A r \in Repositories : g[r] = IF r \in T THEN f[r] ELSE 0
      /\ \A r \in T : f[r] \in Int
  BY RisenTyped DEF Risen
<1>4. T \in SUBSET Repositories /\ G \in SUBSET Repositories /\ IsFiniteSet(Repositories)
  BY ViewsConstants
<1> HIDE DEF T, f, g, G
<1>5. IsFiniteSet(T) /\ Cardinality(T) \in Nat /\ Cardinality(G) \in Nat
  BY <1>4, FS_Subset, FS_CardinalityType
<1>6. SumFunctionOnSet(g, Repositories) = SumFunctionOnSet(f, T)
  BY <1>3, <1>4, SumOfPart
<1>7. SumFunctionOnSet(f, T) \in Int
  BY <1>3, <1>5, SumPicks
<1>8. None \notin Int
  BY ViewsConstants
<1>9. T = {} => SumFunctionOnSet(f, T) = 0
  BY <1>5, SumSteps
<1>10. DeltaOf(GrowthOn(d)) = SumFunctionOnSet(f, T)
  BY <1>1, <1>2, <1>7, <1>8, <1>9 DEF DeltaOf
<1>11. GrowthOn(d) \in GrowthPoint
  BY <1>1, <1>2, <1>5, <1>7 DEF GrowthPoint
<1> QED BY <1>6, <1>7, <1>10, <1>11 DEF g

(* What a repository has gained grows by what it rises from day to day. *)
LEMMA GainRises ==
    ASSUME StarOK, NEW r \in Repositories, NEW e \in From..AsOf
    PROVE  /\ GainTo(r, e) \in Int /\ GainTo(r, e - 1) \in Int
           /\ GainTo(r, e - 1) = GainTo(r, e) - Risen(r, e)
<1> DEFINE fin == SeenTo(r, e)
           bef == SeenTo(r, e - 1)
           old == Old(r)
<1>1. e \in Calendar /\ e \in Nat /\ From \in Nat /\ e <= AsOf /\ AsOf \in Nat /\ From <= e
      /\ e \in Int /\ Calendar = 0..AsOf
  BY WindowTyped
<1>2. /\ fin \in SUBSET Calendar /\ bef \in SUBSET Calendar /\ old \in SUBSET Calendar
      /\ fin = bef \cup {d \in {e} : Observed(r, d)}
      /\ \A d \in bef : d < e
  <2>1. From..e \subseteq Calendar /\ From..(e - 1) \subseteq Calendar
    BY <1>1
  <2>2. From..e = (From..(e - 1)) \cup {e} /\ \A d \in From..(e - 1) : d < e
    BY <1>1
  <2> QED BY <2>1, <2>2 DEF SeenTo, Old
<1>3. Earlier(r, e) = old \cup bef /\ Earlier(r, e) \in SUBSET Calendar
  <2>1. \A d \in Calendar : d < e <=> d \in Calendar \ (From..AsOf) \/ d \in From..(e - 1)
    BY <1>1
  <2>2. From..(e - 1) \subseteq Calendar
    BY <1>1
  <2>3. \A d \in Calendar \ (From..AsOf) : d < e
    BY <1>1
  <2> QED BY <2>1, <2>2, <2>3 DEF Earlier, Old, SeenTo
<1>4. \A d \in old : d < From /\ d \in Int
  BY <1>1 DEF Old
<1>5. \A d \in bef : d \in Int /\ From <= d
  BY <1>1, <1>2 DEF SeenTo
<1>6. \A d \in Calendar : Observed(r, d) => star[r][d] \in Int
  BY StarsTyped
<1>7. \A d \in fin \cup old : d \in Calendar /\ Observed(r, d) /\ star[r][d] \in Int
  BY <1>2, <1>6 DEF SeenTo, Old
<1>8. fin # {} => Max(fin) \in fin /\ BaseTo(r, e) \in fin \cup old
  BY <1>2, DaysHaveEnds DEF BaseTo
<1>9. bef # {} => Max(bef) \in fin /\ BaseTo(r, e - 1) \in fin \cup old
  BY <1>2, DaysHaveEnds DEF BaseTo
<1>10. GainTo(r, e) \in Int /\ GainTo(r, e - 1) \in Int
  <2> HIDE DEF fin, bef, old
  <2>1. fin # {} => star[r][Max(fin)] \in Int /\ star[r][BaseTo(r, e)] \in Int
    BY <1>7, <1>8
  <2>2. bef # {} => star[r][Max(bef)] \in Int /\ star[r][BaseTo(r, e - 1)] \in Int
    BY <1>7, <1>9
  <2> QED BY <2>1, <2>2 DEF GainTo, fin, bef
<1>11. CASE ~Observed(r, e)
  <2>1. fin = bef /\ Risen(r, e) = 0
    BY <1>2, <1>11 DEF Risen
  <2>2. BaseTo(r, e) = BaseTo(r, e - 1)
    BY <2>1 DEF BaseTo
  <2>3. GainTo(r, e) = GainTo(r, e - 1)
    BY <2>1, <2>2 DEF GainTo
  <2> QED BY <2>1, <2>3, <1>10
<1>12. CASE Observed(r, e)
  <2>1. e \in fin /\ fin = bef \cup {e} /\ \A d \in fin : d <= e
    BY <1>1, <1>2, <1>12
  <2>2. Max(fin) = e
    <3> HIDE DEF fin
    <3> QED BY <2>1, <1>2, LastDay
  <2>3. GainTo(r, e) = star[r][e] - star[r][BaseTo(r, e)] /\ star[r][e] \in Int
    BY <2>1, <2>2, <1>7 DEF GainTo
  <2> HIDE DEF fin, bef, old
  <2>4. CASE bef = {} /\ old = {}
    <3>1. fin = {e} /\ Min(fin) = e
      <4>1. fin = {e}
        BY <2>1, <2>4
      <4>2. Min(fin) \in fin
        BY <4>1, <1>2, DaysHaveEnds
      <4> QED BY <4>1, <4>2
    <3>2. BaseTo(r, e) = e /\ Risen(r, e) = 0 /\ GainTo(r, e - 1) = 0
      BY <3>1, <2>4, <1>3 DEF BaseTo, Risen, GainTo, fin, old, bef
    <3> QED BY <3>2, <2>3, <1>10
  <2>5. CASE bef = {} /\ old # {}
    <3>1. PreviousDay(r, e) = Max(old) /\ BaseTo(r, e) = Max(old)
      BY <2>5, <1>3 DEF PreviousDay, BaseTo, old
    <3>2. Risen(r, e) = star[r][e] - star[r][Max(old)] /\ GainTo(r, e - 1) = 0
      BY <3>1, <2>5, <1>3, <1>12 DEF Risen, GainTo, bef
    <3>3. star[r][Max(old)] \in Int
      BY <2>5, <1>2, <1>7, DaysHaveEnds
    <3> QED BY <3>1, <3>2, <3>3, <2>3
  <2>6. CASE bef # {}
    <3> DEFINE p == Max(bef)
    <3>1. p \in bef /\ \A d \in bef : d <= p
      BY <2>6, <1>2, DaysHaveEnds
    <3> HIDE DEF p
    <3>2. p \in Int /\ \A d \in old \cup bef : d <= p
      BY <3>1, <1>1, <1>4, <1>5
    <3>3. PreviousDay(r, e) = p
      BY <3>1, <3>2, <1>3, LastDay DEF PreviousDay
    <3>4. BaseTo(r, e) = BaseTo(r, e - 1)
      <4>1. CASE old # {}
        BY <4>1 DEF BaseTo, old
      <4>2. CASE old = {}
        <5>1. Min(fin) = Min(bef)
          <6>1. /\ Min(fin) \in fin /\ \A d \in fin : Min(fin) <= d
                /\ Min(bef) \in bef /\ \A d \in bef : Min(bef) <= d
            BY <2>1, <2>6, <1>2, DaysHaveEnds
          <6>2. Min(bef) \in fin /\ Min(bef) \in Int /\ Min(bef) < e
            BY <6>1, <2>1, <1>2, <1>5
          <6>3. Min(fin) <= Min(bef) /\ Min(fin) \in Int
            BY <6>1, <6>2, <2>1, <1>1, <1>5
          <6>4. Min(fin) \in bef
            BY <6>1, <6>2, <6>3, <2>1, <1>1
          <6> QED BY <6>1, <6>2, <6>3, <6>4
        <5> QED BY <5>1, <4>2 DEF BaseTo, fin, bef, old
      <4> QED BY <4>1, <4>2
    <3>5. Risen(r, e) = star[r][e] - star[r][p]
      BY <3>3, <2>6, <1>3, <1>12 DEF Risen
    <3>6. GainTo(r, e - 1) = star[r][p] - star[r][BaseTo(r, e)]
      BY <3>4, <2>6 DEF GainTo, p, bef
    <3>7. star[r][p] \in Int /\ star[r][BaseTo(r, e)] \in Int
      BY <3>1, <3>4, <2>1, <2>6, <1>7, <1>9
    <3> QED BY <3>5, <3>6, <3>7, <2>3
  <2> QED BY <2>4, <2>5, <2>6, <1>10
<1> QED BY <1>10, <1>11, <1>12

DashboardOK(p) == p.points = [d \in From..AsOf |-> GrowthOn(d)]

(* Day by day, the points add up to what the repositories have gained. *)
LEMMA PointsAddUp ==
    ASSUME StarOK
    PROVE  SumFunctionOnSet([d \in From..AsOf |-> DeltaOf(GrowthOn(d))], From..AsOf)
              = SumFunctionOnSet([r \in Repositories |-> GainTo(r, AsOf)], Repositories)
<1> DEFINE f == [d \in From..AsOf |-> DeltaOf(GrowthOn(d))]
           G(e) == [r \in Repositories |-> GainTo(r, e)]
           until(k) == From + k - 1
           N == {k \in Nat : until(k) <= AsOf =>
                    SumFunctionOnSet(f, From..until(k)) = SumFunctionOnSet(G(until(k)), Repositories)}
<1>1. /\ From \in Nat /\ AsOf \in Nat /\ From <= AsOf /\ From..AsOf \subseteq Calendar
      /\ IsFiniteSet(Repositories)
  BY WindowTyped, ViewsConstants
<1>2. \A d \in From..AsOf : f[d] \in Int
  BY <1>1, PointOfDay
<1>3. 0 \in N
  <2>1. From..until(0) = {}
    BY <1>1
  <2>2. SumFunctionOnSet(f, From..until(0)) = 0
    <3>1. IsFiniteSet({})
      BY FS_EmptySet
    <3> HIDE DEF f, until
    <3> QED BY <3>1, <2>1, SumSteps
  <2>3. \A r \in Repositories : G(until(0))[r] = 0
    BY <2>1 DEF GainTo, SeenTo
  <2>4. SumFunctionOnSet(G(until(0)), Repositories) = 0
    <3> DEFINE g == G(until(0))
    <3>1. \A r \in Repositories : g[r] = IF r \in {} THEN g[r] ELSE 0
      BY <2>3
    <3> HIDE DEF g
    <3>2. SumFunctionOnSet(g, Repositories) = SumFunctionOnSet(g, {})
      BY <3>1, <1>1, SumOfPart
    <3>3. IsFiniteSet({})
      BY FS_EmptySet
    <3>4. SumFunctionOnSet(g, {}) = 0
      BY <3>3, SumSteps
    <3> QED BY <3>2, <3>4 DEF g
  <2> QED BY <2>2, <2>4
<1>4. ASSUME NEW k \in Nat \cap N PROVE k + 1 \in N
  <2> DEFINE e == until(k + 1)
             D == From..e
             g == G(e)
             h == G(until(k))
             up == [r \in Repositories |-> Risen(r, e)]
  <2> SUFFICES ASSUME e <= AsOf PROVE SumFunctionOnSet(f, D) = SumFunctionOnSet(g, Repositories)
    OBVIOUS
  <2>1. e \in From..AsOf /\ until(k) = e - 1 /\ until(k) <= AsOf
    BY <1>1
  <2>2. SumFunctionOnSet(f, From..(e - 1)) = SumFunctionOnSet(h, Repositories)
    BY <2>1
  <2>3. \A r \in Repositories : g[r] \in Int /\ up[r] \in Int /\ h[r] = g[r] - up[r]
    <3> SUFFICES ASSUME NEW r \in Repositories PROVE g[r] \in Int /\ up[r] \in Int /\ h[r] = g[r] - up[r]
      OBVIOUS
    <3>1. /\ GainTo(r, e) \in Int /\ GainTo(r, e - 1) \in Int
          /\ GainTo(r, e - 1) = GainTo(r, e) - Risen(r, e)
      <4> HIDE DEF e, until
      <4> QED BY <2>1, GainRises
    <3>2. Risen(r, e) \in Int
      <4> HIDE DEF e, until
      <4> QED BY <2>1, <1>1, RisenTyped
    <3>3. g[r] = GainTo(r, e) /\ up[r] = Risen(r, e) /\ h[r] = GainTo(r, e - 1)
      BY <2>1
    <3> QED BY <3>1, <3>2, <3>3
  <2>4. f[e] = SumFunctionOnSet(up, Repositories)
    <3> HIDE DEF e
    <3>1. e \in Calendar
      BY <2>1, <1>1
    <3>2. DeltaOf(GrowthOn(e)) = SumFunctionOnSet(up, Repositories)
      BY <3>1, PointOfDay
    <3> QED BY <3>2, <2>1
  <2>5. /\ IsFiniteSet(D) /\ e \in D /\ D \ {e} = From..(e - 1) /\ \A d \in D : d \in From..AsOf
    <3>1. IsFiniteSet(From..AsOf)
      BY <1>1, FS_Interval
    <3>2. D \in SUBSET (From..AsOf) /\ e \in D /\ D \ {e} = From..(e - 1)
      <4> HIDE DEF e
      <4> QED BY <2>1, <1>1
    <3> QED BY <3>1, <3>2, FS_Subset
  <2> HIDE DEF N, e, D, g, h, up, f, until
  <2>6. SumFunctionOnSet(f, D) = f[e] + SumFunctionOnSet(f, From..(e - 1))
    <3>1. \A d \in D : f[d] \in Int
      BY <2>5, <1>2
    <3>2. IsFiniteSet(D) /\ e \in D
      BY <2>5
    <3>3. SumFunctionOnSet(f, D) = f[e] + SumFunctionOnSet(f, D \ {e})
      BY <3>1, <3>2, SumPicks
    <3>4. D \ {e} = From..(e - 1)
      BY <2>5
    <3> QED BY <3>3, <3>4
  <2>7. SumFunctionOnSet(h, Repositories)
           = SumFunctionOnSet(g, Repositories) - SumFunctionOnSet(up, Repositories)
    BY <2>3, <1>1, SumOfDifferences
  <2>8. SumFunctionOnSet(g, Repositories) \in Int /\ SumFunctionOnSet(up, Repositories) \in Int
    BY <2>3, <1>1, SumPicks
  <2> QED BY <2>2, <2>4, <2>6, <2>7, <2>8
<1> HIDE DEF N, f, G
<1>5. Nat \subseteq N
  BY <1>3, <1>4, SetInduction
<1>6. AsOf - From + 1 \in Nat /\ until(AsOf - From + 1) = AsOf
  BY <1>1
<1> HIDE DEF until
<1>7. AsOf - From + 1 \in N /\ AsOf <= AsOf
  BY <1>1, <1>5, <1>6
<1>8. SumFunctionOnSet(f, From..AsOf) = SumFunctionOnSet(G(AsOf), Repositories)
  BY <1>6, <1>7 DEF N
<1> QED BY <1>8 DEF f, G

LEMMA GrowthAddsUp ==
    ASSUME StarOK, page.kind = "dashboard" => DashboardOK(page)
    PROVE  GrowthIsCountedOnce
<1> DEFINE Seen(r)  == {d \in From..AsOf : Observed(r, d)}
           Past(r)  == {d \in Calendar \ (From..AsOf) : Observed(r, d)}
           Base(r)  == IF Past(r) = {} THEN Min(Seen(r)) ELSE Max(Past(r))
           Gain(r)  == star[r][Max(Seen(r))] - star[r][Base(r)]
           Delta(d) == IF page.points[d].delta = None THEN 0 ELSE page.points[d].delta
           T == {s \in Repositories : Seen(s) # {}}
           f == [d \in From..AsOf |-> Delta(d)]
           g == [r \in T |-> Gain(r)]
           h == [r \in Repositories |-> GainTo(r, AsOf)]
<1> SUFFICES ASSUME page.kind = "dashboard" PROVE SumFunction(f) = SumFunction(g)
  BY DEF GrowthIsCountedOnce
<1>1. \A d \in From..AsOf : page.points[d] = GrowthOn(d)
  BY DEF DashboardOK
<1>2. f = [d \in From..AsOf |-> DeltaOf(GrowthOn(d))]
  BY <1>1 DEF DeltaOf
<1>3. SumFunction(f) = SumFunctionOnSet(f, From..AsOf) /\ SumFunction(g) = SumFunctionOnSet(g, T)
  BY DEF SumFunction
<1>4. \A r \in Repositories : GainTo(r, AsOf) = IF Seen(r) = {} THEN 0 ELSE Gain(r)
  BY DEF GainTo, SeenTo, BaseTo, Old
<1>5. AsOf \in From..AsOf /\ IsFiniteSet(Repositories)
  BY WindowTyped, ViewsConstants
<1>6. \A r \in Repositories : GainTo(r, AsOf) \in Int
  BY <1>5, GainRises
<1> HIDE DEF Seen, Gain, f
<1>7. T \in SUBSET Repositories
  OBVIOUS
<1>8. \A r \in Repositories : h[r] = IF r \in T THEN g[r] ELSE 0
  BY <1>4
<1>9. \A r \in T : g[r] \in Int
  BY <1>4, <1>6
<1> HIDE DEF T, g, h
<1>10. SumFunctionOnSet(h, Repositories) = SumFunctionOnSet(g, T)
  BY <1>5, <1>7, <1>8, <1>9, SumOfPart
<1>11. SumFunctionOnSet(f, From..AsOf) = SumFunctionOnSet(h, Repositories)
  BY <1>2, PointsAddUp DEF h
<1> QED BY <1>3, <1>10, <1>11

(***************************************************************************)
(* The pages show the snapshots as they are.                               *)
(***************************************************************************)
ViewsInv ==
    /\ ListInv
    /\ page.kind = "topic" => TopicOK(page)
    /\ page.kind = "dashboard" => DashboardOK(page)
    /\ page.kind = "home" => page = Home
    /\ stored \subseteq Repositories \X Calendar /\ moved \in BOOLEAN

LEMMA ViewsBegin == ViewsInit => ViewsInv
<1> SUFFICES ASSUME ViewsInit PROVE ViewsInv
  OBVIOUS
<1>1. page = Home /\ page.kind = "home" /\ stored = {} /\ moved = FALSE
  BY DEF ViewsInit, Home
<1> QED BY <1>1, ListInit DEF ViewsInv

LEMMA ViewsStays ==
    ASSUME ViewsInv, star' = star, page' = page
    PROVE  /\ (page.kind = "topic" => TopicOK(page))'
           /\ (page.kind = "dashboard" => DashboardOK(page))'
           /\ (page.kind = "home" => page = Home)'
<1>1. TopicHistory(page.members)' = TopicHistory(page.members)
  BY DEF TopicHistory, Starts, Cohort, TopicOn, Observed, Stars
<1>2. \A d : GrowthOn(d)' = GrowthOn(d)
  BY DEF GrowthOn, Observed, Earlier, PreviousDay
<1> QED BY <1>1, <1>2 DEF ViewsInv, TopicOK, DashboardOK

LEMMA ViewsInvStep == ViewsInv /\ [ViewsNext]_viewsVars => ViewsInv'
<1> SUFFICES ASSUME ViewsInv, [ViewsNext]_viewsVars PROVE ViewsInv'
  OBVIOUS
<1>1. ListInv'
  BY ListNext DEF ViewsInv
<1>2. CASE OpenDashboard
  <2>1. /\ page' = [kind |-> "dashboard", points |-> [d \in From..AsOf |-> GrowthOn(d)]]
        /\ star' = star /\ UNCHANGED <<stored, moved>>
    BY <1>2 DEF OpenDashboard
  <2>2. \A d : GrowthOn(d)' = GrowthOn(d)
    BY <2>1 DEF GrowthOn, Observed, Earlier, PreviousDay
  <2> QED BY <1>1, <2>1, <2>2 DEF ViewsInv, DashboardOK
<1>3. CASE \E members \in SUBSET Repositories, exclude \in BOOLEAN : OpenTopic(members, exclude)
  <2>1. PICK members \in SUBSET Repositories, exclude \in BOOLEAN : OpenTopic(members, exclude)
    BY <1>3
  <2> DEFINE shown == IF exclude THEN members \ Leaders(members) ELSE members
  <2>2. /\ page' = [kind |-> "topic", members |-> shown,
                    points |-> [d \in DOMAIN TopicHistory(shown) |-> Shown(TopicHistory(shown)[d])]]
        /\ star' = star /\ UNCHANGED <<stored, moved>>
    <3>1. page' = [kind |-> "topic", members |-> shown,
                   points |-> [d \in DOMAIN TopicHistory(shown) |-> Shown(TopicHistory(shown)[d])]]
      BY <2>1 DEF OpenTopic
    <3>2. star' = star /\ UNCHANGED <<stored, moved>>
      BY <2>1 DEF OpenTopic
    <3> QED BY <3>1, <3>2
  <2>3. shown \in SUBSET Repositories
    OBVIOUS
  <2> HIDE DEF shown
  <2>4. page'.members = shown
    BY <2>2
  <2>5. TopicHistory(page'.members) = TopicHistory(page.members)'
    <3>1. star' = star
      BY <2>2
    <3> QED BY <3>1 DEF TopicHistory, Starts, Cohort, TopicOn, Observed, Stars
  <2>6. TopicOK(page)'
    BY <2>2, <2>3, <2>4, <2>5 DEF TopicOK
  <2> QED BY <1>1, <2>2, <2>6 DEF ViewsInv
<1>4. ASSUME NEW sort, NEW after, NEW shown, page' = RowsAfter(sort, after, shown),
             UNCHANGED <<stored, moved>>
      PROVE  ViewsInv'
  <2>1. page'.kind \in {"error", "list", "end"}
    BY <1>4 DEF RowsAfter
  <2> QED BY <1>1, <1>4, <2>1 DEF ViewsInv
<1>5. CASE (\E sort \in Sorts : OpenList(sort)) \/ ReadOn
  BY <1>4, <1>5 DEF OpenList, ReadOn
<1>6. CASE Close
  BY <1>1, <1>6 DEF Close, ViewsInv, Home
<1>7. CASE \E r \in Repositories, d \in Calendar, n \in 0..MaxStars : Store(r, d, n)
  <2>1. PICK r \in Repositories, d \in Calendar, n \in 0..MaxStars : Store(r, d, n)
    BY <1>7
  <2>2. /\ page.kind = "list" /\ page' = page /\ stored' = stored \cup {<<r, d>>}
        /\ moved' \in BOOLEAN
    BY <2>1 DEF Store, ViewsInv
  <2> QED BY <1>1, <2>2 DEF ViewsInv
<1>8. CASE UNCHANGED viewsVars
  BY <1>1, <1>8, ViewsStays DEF viewsVars, ViewsInv
<1> QED BY <1>2, <1>3, <1>5, <1>6, <1>7, <1>8 DEF ViewsNext

LEMMA ViewsTyped == ViewsInv => ViewsTypeOK
<1> SUFFICES ASSUME ViewsInv PROVE ViewsTypeOK
  OBVIOUS
<1>1. ASSUME page.kind = "dashboard", NEW d \in From..AsOf PROVE page.points[d] \in GrowthPoint
  <2>1. page.points[d] = GrowthOn(d) /\ d \in Calendar /\ StarOK
    BY <1>1, WindowTyped DEF ViewsInv, ListInv, DashboardOK
  <2> QED BY <2>1, PointOfDay
<1>2. ASSUME page.kind = "topic", NEW d \in DOMAIN page.points PROVE page.points[d] \in TopicPoint
  <2> DEFINE members == page.members
             start   == Min(Starts(members))
             C       == Cohort(members, start)
  <2>1. /\ members \in SUBSET Repositories /\ StarOK
        /\ page.points = [e \in DOMAIN TopicHistory(members) |-> Shown(TopicHistory(members)[e])]
    BY <1>2 DEF ViewsInv, ListInv, TopicOK
  <2>2. d \in DOMAIN TopicHistory(members)
    BY <2>1, <1>2
  <2>3. /\ TopicHistory(members) = [e \in start..AsOf |-> TopicOn(C, e)]
        /\ start..AsOf \subseteq Calendar
        /\ C \in SUBSET Repositories /\ C # {}
    BY <2>1, <2>2, TopicDays
  <2> HIDE DEF members, start, C
  <2>4. d \in Calendar /\ page.points[d] = Shown(TopicOn(C, d))
    BY <2>1, <2>2, <2>3
  <2>5. Shown(TopicOn(C, d)) \in TopicPoint
    BY <2>1, <2>3, <2>4, PointOfCohort
  <2> QED BY <2>4, <2>5
<1> QED BY <1>1, <1>2 DEF ViewsInv, ListInv, ListOK, StarOK, ViewsTypeOK

(* What a page shows has the form its template expects: counts are natural *)
(* numbers or NULL, a reader of the list sees repositories of the registry *)
(* (store/sqlite/metrics.go, trends.go).                                   *)
THEOREM ViewsTypeCorrect == ViewsSpec => []ViewsTypeOK
BY ViewsBegin, ViewsInvStep, ViewsTyped, PTL DEF ViewsSpec

(* The growth shown for all projects counts each star once, however many   *)
(* days a repository missed and wherever its last success before the       *)
(* window was: a sum over days of sums over repositories telescopes to     *)
(* what each repository gained (growthHistory).                            *)
THEOREM GrowthCorrect == ViewsSpec => []GrowthIsCountedOnce
<1>1. ViewsInv => GrowthIsCountedOnce
  BY GrowthAddsUp DEF ViewsInv, ListInv
<1> QED BY <1>1, ViewsBegin, ViewsInvStep, PTL DEF ViewsSpec

(* The curve of a topic follows one population from its first day to its   *)
(* last and shows no day on which one of it was not observed               *)
(* (GetTopicDetail and topicHistory).                                      *)
THEOREM CurvesCorrect == ViewsSpec => []CurvesCompareOnePopulation
<1>1. ViewsInv => CurvesCompareOnePopulation
  BY CurveIsOfOnePopulation DEF ViewsInv, ListInv
<1> QED BY <1>1, ViewsBegin, ViewsInvStep, PTL DEF ViewsSpec

(* Every part keeps its types in every behaviour of the runs. *)
THEOREM PlanningTypeCorrect == PlanningSpec => []PlanningTypeOK
<1> DEFINE Inv == DailyInv /\ SearchInv /\ CandidatesInv /\ ViewsInv
           vars == <<dailyVars, searchVars, candidateVars, viewsVars, part>>
<1>1. PlanningInit => Inv
  BY DailyInit_Inv, SearchBegins, CandidatesInit_Inv, ViewsBegin DEF PlanningInit, ProfileInit
<1>2. Inv /\ [PlanningNext]_vars => Inv'
  <2> SUFFICES ASSUME Inv, [PlanningNext]_vars PROVE Inv'
    OBVIOUS
  <2>1. /\ [DailyNext]_dailyVars /\ [SearchNext]_searchVars /\ [CandidatesNext]_candidateVars /\ [ViewsNext]_viewsVars
    BY DEF PlanningNext, DailyStep, ProfileStep, CandidatesStep, ViewsStep
  <2> QED BY <2>1, DailyNext_Inv, SearchStep, CandidatesNext_Inv, ViewsInvStep
<1>3. Inv => PlanningTypeOK
  BY ViewsTyped DEF PlanningTypeOK, DailyInv, SearchInv, CandidatesInv
<1> QED BY <1>1, <1>2, <1>3, PTL DEF PlanningSpec
=============================================================================
