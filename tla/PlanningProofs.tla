--------------------------- MODULE PlanningProofs ---------------------------
(***************************************************************************)
(* Proofs about the daily run and about the candidates on their way into   *)
(* the registry, for any number of processes, profiles, days, rows,        *)
(* repositories and names.                                                 *)
(*                                                                         *)
(* The daily run: what a process has searched and found, and the row it    *)
(* will report it in, belong to it alone until it writes the row (Apart),  *)
(* and what a row reports was searched and stored before (RowOK).          *)
(***************************************************************************)
EXTENDS DailyRun, Candidates, DataLemmas

(***************************************************************************)
(* The daily run.                                                          *)
(***************************************************************************)
Discovering == {"trending", "plan", "search", "merge", "close"}
AfterDiscovery == {"snapshot", "rest", "finish"}

(* A finding of profile f among the given ones, of the days from..to. *)
FoundIn(f, findings, from, to) == \E c \in findings : c.source = f /\ c.on \in from..to

(* A row: what it reports has been searched, and, if it reports success, stored. *)
RowOK(w, done, stored, today) ==
    /\ w.started <= today
    /\ w.finished = Never => w.profiles = {}
    /\ w.type = "run-daily" => w.board = Never /\ w.parent = 0
    /\ \A f \in w.profiles : FoundIn(f, done, w.started, w.finished)
    /\ w.status = "success" =>
          /\ \A f \in w.profiles : FoundIn(f, stored, w.started, w.finished)
          /\ w.board # Never => [source |-> Board, on |-> w.board] \in stored

ChildrenOf(i, list) == {j \in DOMAIN list : list[j].parent = i}

(* Only a daily run has children, and they start after it. *)
ParentOK(i, list) ==
    /\ list[i].parent < i
    /\ list[i].parent # 0 => list[list[i].parent].type = "run-daily"

(* A process in a discovery. *)
DiscoveryOK(x, list, done, stored, today) ==
    /\ x.row \in DOMAIN list
    /\ list[x.row].type = "discover" /\ list[x.row].status = "running"
    /\ list[x.row].parent = x.daily
    /\ x.daily # 0 => /\ list[x.daily].started <= list[x.row].started
                      /\ ChildrenOf(x.daily, list) = {x.row}
    /\ \A f \in x.profiles : FoundIn(f, done, list[x.row].started, today)
    /\ x.pc = "close" => x.error \/ x.found = {}
    /\ ~x.failed =>
          /\ \A f \in x.profiles : FoundIn(f, stored \cup x.found, list[x.row].started, today)
          /\ x.board # Never => [source |-> Board, on |-> x.board] \in stored \cup x.found

(* A process in the rest of the daily run. *)
RestOK(x, list, done, stored, today) ==
    /\ x.daily # 0
    /\ \A f \in x.profiles : FoundIn(f, done, list[x.daily].started, today)
    /\ ~x.failed => /\ \A j \in ChildrenOf(x.daily, list) : list[j].status = "success"
                    /\ \A f \in x.profiles : FoundIn(f, stored, list[x.daily].started, today)

ProcessOK(x, list, done, stored, today) ==
    /\ x.pc = "idle" => x = NoProcess
    /\ x.daily # 0 => /\ x.daily \in DOMAIN list
                      /\ list[x.daily].type = "run-daily" /\ list[x.daily].status = "running"
    /\ x.pc = "discovery" => /\ x.daily # 0 /\ ChildrenOf(x.daily, list) = {}
                             /\ x.profiles = {} /\ x.board = Never
    /\ x.pc \notin Discovering => x.row = 0
    /\ x.pc \in Discovering => DiscoveryOK(x, list, done, stored, today)
    /\ x.pc \in AfterDiscovery => RestOK(x, list, done, stored, today)

RowsOK ==
    /\ \A i \in DOMAIN rows : RowOK(rows[i], searched, registry, day) /\ ParentOK(i, rows)
    /\ \A i \in DOMAIN rows : rows[i].status = "success" =>
          \A j \in ChildrenOf(i, rows) : rows[j].status = "success"

Apart ==
    \A p, q \in Processes : p # q =>
       /\ process[p].row # 0 => process[p].row # process[q].row
       /\ process[p].daily # 0 => process[p].daily # process[q].daily

DailyInv ==
    /\ DailyTypeOK
    /\ RowsOK
    /\ \A p \in Processes : ProcessOK(process[p], rows, searched, registry, day)
    /\ Apart

LEMMA DailyConstants ==
    /\ Board \notin Profiles /\ PeriodDays \in [Profiles -> Nat]
    /\ MaxDay \in Nat /\ MaxRows \in Nat
BY DailyRunAssumption

LEMMA RowTyped ==
    ASSUME NEW list \in Seq(Row), NEW i \in DOMAIN list
    PROVE  list[i] \in Row /\ list[i].started \in Days /\ list[i].started \in Int
<1>1. list[i] \in Row
  OBVIOUS
<1>2. list[i].started \in Days
  BY <1>1 DEF Row
<1> QED BY <1>1, <1>2, DailyConstants DEF Days

LEMMA FoundInMore ==
    ASSUME NEW f, NEW S, NEW T, S \subseteq T, NEW from \in Int, NEW to \in Int, NEW upto \in Int,
           to <= upto, FoundIn(f, S, from, to)
    PROVE  FoundIn(f, T, from, upto)
<1>1. PICK c \in S : c.source = f /\ c.on \in from..to
  BY DEF FoundIn
<1>2. c.on \in from..upto
  BY <1>1
<1> QED BY <1>1, <1>2 DEF FoundIn

(* A row stays right as more is searched and stored. *)
LEMMA RowStays ==
    ASSUME NEW w \in Row, NEW done, NEW stored, NEW done2, NEW stored2,
           NEW today \in Days, NEW today2 \in Days,
           RowOK(w, done, stored, today),
           done \subseteq done2, stored \subseteq stored2, today <= today2
    PROVE  RowOK(w, done2, stored2, today2)
<1>1. /\ w.started \in Int /\ w.finished \in Int /\ today \in Int /\ today2 \in Int
  BY DailyConstants DEF Row, Days, Never
<1>2. w.started <= today2
  BY <1>1 DEF RowOK
<1>3. \A f \in w.profiles : FoundIn(f, done2, w.started, w.finished)
  BY <1>1, FoundInMore DEF RowOK
<1>4. w.status = "success" => \A f \in w.profiles : FoundIn(f, stored2, w.started, w.finished)
  BY <1>1, FoundInMore DEF RowOK
<1> QED BY <1>2, <1>3, <1>4 DEF RowOK

(* list2 has the rows of list and more; kept says which are as they were. *)
Extends(list2, list, kept) ==
    /\ DOMAIN list \subseteq DOMAIN list2
    /\ \A i \in DOMAIN list : /\ list2[i].parent = list[i].parent
                              /\ list2[i].type = list[i].type
                              /\ list2[i].started = list[i].started
                              /\ list[i].status = "success" => list2[i] = list[i]
    /\ \A i \in kept \cap DOMAIN list : list2[i] = list[i]

(* A process stays right when others write their rows. *)
LEMMA ProcessStays ==
    ASSUME NEW x \in Process, NEW list \in Seq(Row), NEW list2 \in Seq(Row),
           NEW done, NEW stored, NEW done2, NEW stored2, NEW today \in Days, NEW today2 \in Days,
           ProcessOK(x, list, done, stored, today),
           done \subseteq done2, stored \subseteq stored2, today <= today2,
           Extends(list2, list, {x.row, x.daily}),
           \A i \in DOMAIN list2 \ DOMAIN list : list2[i].parent # x.daily \/ x.daily = 0
    PROVE  ProcessOK(x, list2, done2, stored2, today2)
<1>1. today \in Int /\ today2 \in Int
  BY DailyConstants DEF Days
<1>2. x.daily # 0 => /\ x.daily \in DOMAIN list /\ list2[x.daily] = list[x.daily]
                     /\ ChildrenOf(x.daily, list2) = ChildrenOf(x.daily, list)
  BY DEF ProcessOK, Extends, ChildrenOf
<1>3. ASSUME x.pc \in Discovering PROVE DiscoveryOK(x, list2, done2, stored2, today2)
  <2>1. DiscoveryOK(x, list, done, stored, today)
    BY <1>3 DEF ProcessOK
  <2>2. x.row \in DOMAIN list /\ list2[x.row] = list[x.row] /\ x.row \in DOMAIN list2
    BY <2>1 DEF DiscoveryOK, Extends
  <2>3. list[x.row].started \in Int
    BY <2>2, RowTyped
  <2>4. \A f \in x.profiles : FoundIn(f, done2, list[x.row].started, today2)
    BY <1>1, <2>1, <2>3, FoundInMore DEF DiscoveryOK
  <2>5. ~x.failed => \A f \in x.profiles : FoundIn(f, stored2 \cup x.found, list[x.row].started, today2)
    <3>1. stored \cup x.found \subseteq stored2 \cup x.found
      OBVIOUS
    <3> QED BY <1>1, <2>1, <2>3, <3>1, FoundInMore DEF DiscoveryOK
  <2> QED BY <1>2, <2>1, <2>2, <2>4, <2>5 DEF DiscoveryOK
<1>4. ASSUME x.pc \in AfterDiscovery PROVE RestOK(x, list2, done2, stored2, today2)
  <2>1. RestOK(x, list, done, stored, today)
    BY <1>4 DEF ProcessOK
  <2>2. x.daily # 0 /\ x.daily \in DOMAIN list /\ list2[x.daily] = list[x.daily]
        /\ ChildrenOf(x.daily, list2) = ChildrenOf(x.daily, list)
    BY <1>2, <2>1 DEF RestOK
  <2>3. list[x.daily].started \in Int
    BY <2>2, RowTyped
  <2>4. \A f \in x.profiles : FoundIn(f, done2, list[x.daily].started, today2)
    BY <1>1, <2>1, <2>3, FoundInMore DEF RestOK
  <2>5. ~x.failed => \A f \in x.profiles : FoundIn(f, stored2, list[x.daily].started, today2)
    BY <1>1, <2>1, <2>3, FoundInMore DEF RestOK
  <2>6. ~x.failed => \A j \in ChildrenOf(x.daily, list) : list2[j].status = "success"
    BY <2>1 DEF RestOK, Extends, ChildrenOf
  <2> QED BY <2>1, <2>2, <2>4, <2>5, <2>6 DEF RestOK
<1> QED BY <1>2, <1>3, <1>4 DEF ProcessOK, Extends

LEMMA DailyTyped ==
    ASSUME DailyInv, NEW p \in Processes
    PROVE  /\ process[p] \in Process /\ rows \in Seq(Row) /\ day \in Days /\ day \in Int
           /\ Len(rows) \in 0..MaxRows /\ DOMAIN rows = 1..Len(rows)
           /\ ProcessOK(process[p], rows, searched, registry, day)
           /\ process[p].daily \in 0..MaxRows /\ process[p].row \in 0..MaxRows
           /\ process[p].daily # 0 => process[p].daily \in DOMAIN rows
           /\ process[p].row # 0 => process[p].row \in DOMAIN rows
           /\ registry \subseteq Finding /\ searched \subseteq Finding
<1>1. process[p] \in Process /\ rows \in Seq(Row) /\ day \in Days
      /\ ProcessOK(process[p], rows, searched, registry, day)
  BY DEF DailyInv, DailyTypeOK
<1>2. Len(rows) \in 0..MaxRows /\ DOMAIN rows = 1..Len(rows)
  BY <1>1, DailyConstants DEF DailyInv, DailyTypeOK
<1>3. day \in Int
  BY <1>1, DailyConstants DEF Days
<1>4. process[p].row # 0 => process[p].row \in DOMAIN rows
  BY <1>1 DEF ProcessOK, DiscoveryOK
<1> QED BY <1>1, <1>2, <1>3, <1>4 DEF ProcessOK, Process, DailyInv, DailyTypeOK

(* The row a process works on is not that of another one, nor a child of   *)
(* another one's daily run.                                                *)
LEMMA OwnRows ==
    ASSUME DailyInv, NEW p \in Processes, NEW q \in Processes, p # q
    PROVE  /\ process[p].row # 0 => process[p].row \notin {process[q].row, process[q].daily}
           /\ process[p].daily # 0 => process[p].daily \notin {process[q].row, process[q].daily}
<1>1. ASSUME NEW s \in Processes, process[s].row # 0 PROVE rows[process[s].row].type = "discover"
  BY <1>1, DailyTyped DEF ProcessOK, DiscoveryOK
<1>2. ASSUME NEW s \in Processes, process[s].daily # 0 PROVE rows[process[s].daily].type = "run-daily"
  BY <1>2, DailyTyped DEF ProcessOK
<1> QED BY <1>1, <1>2 DEF DailyInv, Apart

(* A step of process p that leaves it in state x, and the rows as list.    *)
LEMMA ProcessStep ==
    ASSUME DailyInv, NEW p \in Processes, NEW x \in Process,
           process' = [process EXCEPT ![p] = x], day' = day,
           NEW list \in Seq(Row), Len(list) <= MaxRows, rows' = list,
           registry \subseteq registry', registry' \subseteq Finding,
           searched \subseteq searched', searched' \subseteq Finding,
           Extends(list, rows, DOMAIN rows \ {process[p].row, process[p].daily}),
           \A i \in DOMAIN list \ DOMAIN rows : list[i].parent \in {0, process[p].daily},
           \A i \in DOMAIN list : (i \in DOMAIN rows => list[i] # rows[i]) =>
               /\ RowOK(list[i], searched', registry', day) /\ ParentOK(i, list)
               /\ list[i].status = "success" =>
                     \A j \in ChildrenOf(i, list) : list[j].status = "success",
           ProcessOK(x, list, searched', registry', day),
           x.row = 0 \/ x.row = process[p].row \/ x.row \notin DOMAIN rows,
           x.daily = 0 \/ x.daily = process[p].daily \/ x.daily \notin DOMAIN rows
    PROVE  DailyInv'
<1>1. process' \in [Processes -> Process] /\ process'[p] = x
  BY DEF DailyInv, DailyTypeOK
<1>2. DailyTypeOK'
  BY <1>1 DEF DailyInv, DailyTypeOK
<1>3. \A q \in Processes \ {p} : process'[q] = process[q]
  BY DEF DailyInv, DailyTypeOK
<1>4. ASSUME NEW q \in Processes PROVE ProcessOK(process'[q], list, searched', registry', day)
  <2>1. CASE q = p
    BY <2>1, <1>1
  <2>2. CASE q # p
    <3> DEFINE y == process[q]
    <3>1. /\ y \in Process /\ rows \in Seq(Row) /\ day \in Days /\ day <= day
          /\ ProcessOK(y, rows, searched, registry, day)
      BY DailyTyped
    <3>2. (y.row # 0 => y.row \notin {process[p].row, process[p].daily})
          /\ (y.daily # 0 => y.daily \notin {process[p].row, process[p].daily})
      BY <2>2, OwnRows
    <3>3. 0 \notin DOMAIN rows
      BY DailyTyped
    <3>4. Extends(list, rows, {y.row, y.daily})
      BY <3>2, <3>3 DEF Extends
    <3>5. \A i \in DOMAIN list \ DOMAIN rows : list[i].parent # y.daily \/ y.daily = 0
      BY <3>2
    <3> HIDE DEF y
    <3>6. ProcessOK(y, list, searched', registry', day)
      BY <3>1, <3>4, <3>5, ProcessStays
    <3> QED BY <3>6, <2>2, <1>3 DEF y
  <2> QED BY <2>1, <2>2
<1>5. ASSUME NEW i \in DOMAIN list
      PROVE  RowOK(list[i], searched', registry', day) /\ ParentOK(i, list)
  <2>1. CASE i \in DOMAIN rows /\ list[i] = rows[i]
    <3>1. rows[i] \in Row /\ day \in Days /\ day <= day
      BY <2>1, RowTyped, DailyTyped
    <3>2. RowOK(rows[i], searched, registry, day) /\ ParentOK(i, rows)
      BY <2>1 DEF DailyInv, RowsOK
    <3>3. rows[i].parent # 0 => rows[i].parent \in DOMAIN rows
      BY <3>1, <3>2, <2>1, DailyTyped, DailyConstants DEF ParentOK, Row
    <3>4. ParentOK(i, list)
      BY <3>2, <3>3, <2>1 DEF ParentOK, Extends
    <3> QED BY <3>1, <3>2, <3>4, <2>1, RowStays
  <2> QED BY <2>1
<1>6. ASSUME NEW i \in DOMAIN list, list[i].status = "success", NEW j \in ChildrenOf(i, list)
      PROVE  list[j].status = "success"
  <2>1. CASE i \in DOMAIN rows /\ list[i] = rows[i]
    <3>1. rows[i].status = "success"
      BY <1>6, <2>1
    <3>2. process[p].daily # i
      BY <3>1, <2>1, DailyTyped DEF ProcessOK
    <3>3. i # 0
      BY <2>1, DailyTyped
    <3>4. j \in DOMAIN rows
      BY <1>6, <3>2, <3>3 DEF ChildrenOf
    <3>5. j \in ChildrenOf(i, rows)
      BY <1>6, <3>4 DEF ChildrenOf, Extends
    <3>6. rows[j].status = "success"
      BY <3>1, <3>5, <2>1 DEF DailyInv, RowsOK
    <3> QED BY <3>4, <3>6 DEF Extends
  <2>2. CASE ~(i \in DOMAIN rows /\ list[i] = rows[i])
    BY <1>6, <2>2
  <2> QED BY <2>1, <2>2
<1>7. RowsOK'
  BY <1>5, <1>6 DEF RowsOK
<1>8. Apart'
  <2> SUFFICES ASSUME NEW q \in Processes, NEW r \in Processes, q # r
               PROVE  /\ process'[q].row # 0 => process'[q].row # process'[r].row
                      /\ process'[q].daily # 0 => process'[q].daily # process'[r].daily
    BY DEF Apart
  <2>1. CASE q # p /\ r # p
    BY <2>1, <1>3 DEF DailyInv, Apart
  <2>2. CASE q = p
    <3>1. process'[q] = x /\ process'[r] = process[r]
      BY <2>2, <1>1, <1>3
    <3> QED BY <3>1, <2>2, DailyTyped DEF DailyInv, Apart
  <2>3. CASE r = p
    <3>1. process'[r] = x /\ process'[q] = process[q]
      BY <2>3, <1>1, <1>3
    <3> QED BY <3>1, <2>3, DailyTyped DEF DailyInv, Apart
  <2> QED BY <2>1, <2>2, <2>3
<1> QED BY <1>2, <1>4, <1>7, <1>8 DEF DailyInv

(* The step leaves the rows alone. *)
LEMMA RowsStay ==
    ASSUME DailyInv, NEW p \in Processes, NEW x \in Process,
           process' = [process EXCEPT ![p] = x], UNCHANGED <<day, rows>>,
           registry \subseteq registry', registry' \subseteq Finding,
           searched \subseteq searched', searched' \subseteq Finding,
           ProcessOK(x, rows, searched', registry', day),
           x.row \in {0, process[p].row}, x.daily \in {0, process[p].daily}
    PROVE  DailyInv'
<1>1. rows \in Seq(Row) /\ Len(rows) <= MaxRows
  BY DailyTyped, DailyConstants
<1>2. Extends(rows, rows, DOMAIN rows \ {process[p].row, process[p].daily})
  BY DEF Extends
<1> QED BY <1>1, <1>2, ProcessStep

(***************************************************************************)
(* The steps of a discovery.                                               *)
(***************************************************************************)
LEMMA NoProcessTyped ==
    /\ NoProcess \in Process
    /\ NoProcess.pc = "idle" /\ NoProcess.row = 0 /\ NoProcess.daily = 0
    /\ NoProcess.profiles = {} /\ NoProcess.board = Never
    /\ \A list, done, stored, today : ProcessOK(NoProcess, list, done, stored, today)
<1>1. 0 \in 0..MaxRows
  BY DailyConstants
<1>2. NoProcess \in Process
  BY <1>1 DEF NoProcess, Process
<1> QED BY <1>2 DEF NoProcess, ProcessOK, Discovering, AfterDiscovery

LEMMA NewRowTyped ==
    ASSUME DailyInv, NEW type \in {"run-daily", "discover"}, NEW parent \in 0..MaxRows
    PROVE  /\ NewRow(type, parent) \in Row
           /\ NewRow(type, parent).type = type /\ NewRow(type, parent).parent = parent
           /\ NewRow(type, parent).status = "running" /\ NewRow(type, parent).started = day
           /\ NewRow(type, parent).profiles = {} /\ NewRow(type, parent).board = Never
<1>1. day \in Days
  BY DEF DailyInv, DailyTypeOK
<1> QED BY <1>1 DEF NewRow, Row

(* A row is added, and the process works on it. *)
LEMMA RowAdded ==
    ASSUME DailyInv, NEW p \in Processes, NEW x \in Process,
           NEW type \in {"run-daily", "discover"},
           Len(rows) < MaxRows, rows' = Append(rows, NewRow(type, process[p].daily)),
           type = "run-daily" => process[p].daily = 0,
           process' = [process EXCEPT ![p] = x], UNCHANGED <<day, registry, searched>>,
           ProcessOK(x, Append(rows, NewRow(type, process[p].daily)), searched, registry, day),
           x.row \in {0, Len(rows) + 1}, x.daily \in {0, process[p].daily, Len(rows) + 1}
    PROVE  DailyInv'
<1> DEFINE n == Len(rows)
           w == NewRow(type, process[p].daily)
           list == Append(rows, w)
<1>1. rows \in Seq(Row) /\ n \in 0..MaxRows /\ DOMAIN rows = 1..n /\ process[p].daily \in 0..MaxRows
      /\ (process[p].daily # 0 => process[p].daily \in 1..n) /\ day \in Int
      /\ registry \subseteq Finding /\ searched \subseteq Finding
  BY DailyTyped
<1>2. /\ w \in Row /\ w.type = type /\ w.parent = process[p].daily /\ w.status = "running"
      /\ w.started = day /\ w.profiles = {} /\ w.board = Never
  BY <1>1, NewRowTyped
<1> HIDE DEF w
<1>3. list \in Seq(Row) /\ Len(list) = n + 1 /\ DOMAIN list = 1..(n + 1)
      /\ list[n + 1] = w /\ \A i \in DOMAIN rows : list[i] = rows[i]
  BY <1>1, <1>2
<1> HIDE DEF list
<1>4. Len(list) <= MaxRows /\ DOMAIN list \ DOMAIN rows = {n + 1} /\ n + 1 \notin DOMAIN rows
  BY <1>1, <1>3, DailyConstants
<1>5. Extends(list, rows, DOMAIN rows \ {process[p].row, process[p].daily})
  BY <1>1, <1>3 DEF Extends
<1>6. RowOK(w, searched, registry, day)
  BY <1>1, <1>2 DEF RowOK
<1>7. ParentOK(n + 1, list)
  <2>1. w.parent < n + 1
    BY <1>1, <1>2
  <2>2. w.parent # 0 => list[w.parent].type = "run-daily"
    BY <1>1, <1>2, <1>3, DailyTyped DEF ProcessOK
  <2> QED BY <2>1, <2>2, <1>3 DEF ParentOK
<1>8. rows' = list /\ ProcessOK(x, list, searched', registry', day) /\ day' = day
      /\ searched' = searched /\ registry' = registry
  BY DEF w, list
<1>9. \A i \in DOMAIN list : (i \in DOMAIN rows => list[i] # rows[i]) => i = n + 1
  BY <1>3, <1>4
<1>10. x.row = 0 \/ x.row = process[p].row \/ x.row \notin DOMAIN rows
  BY <1>4
<1>11. x.daily = 0 \/ x.daily = process[p].daily \/ x.daily \notin DOMAIN rows
  BY <1>4
<1> QED BY <1>1, <1>2, <1>3, <1>4, <1>5, <1>6, <1>7, <1>8, <1>9, <1>10, <1>11, ProcessStep

LEMMA StartDailyKeeps ==
    ASSUME DailyInv, NEW p \in Processes, StartDaily(p)
    PROVE  DailyInv'
<1> DEFINE n == Len(rows)
           list == Append(rows, NewRow("run-daily", 0))
           x == [NoProcess EXCEPT !.pc = "discovery", !.daily = n + 1]
<1>1. process[p] = NoProcess /\ process[p].daily = 0
  BY DailyTyped, NoProcessTyped DEF StartDaily, ProcessOK
<1>2. /\ NewRow("run-daily", 0) \in Row /\ NewRow("run-daily", 0).type = "run-daily"
      /\ NewRow("run-daily", 0).parent = 0 /\ NewRow("run-daily", 0).status = "running"
  BY NewRowTyped, DailyConstants
<1>3. rows \in Seq(Row) /\ n \in 0..MaxRows /\ DOMAIN rows = 1..n
  BY DailyTyped
<1>4. list \in Seq(Row) /\ Len(list) = n + 1 /\ DOMAIN list = 1..(n + 1)
      /\ list[n + 1] = NewRow("run-daily", 0) /\ \A i \in DOMAIN rows : list[i] = rows[i]
  BY <1>2, <1>3
<1>5. n < MaxRows /\ rows' = list /\ UNCHANGED <<day, registry, searched>>
      /\ process' = [process EXCEPT ![p] = [NoProcess EXCEPT !.pc = "discovery", !.daily = Len(rows')]]
  BY DEF StartDaily
<1>6. process' = [process EXCEPT ![p] = x]
  BY <1>4, <1>5
<1> HIDE DEF list
<1>7. n + 1 \in 0..MaxRows
  BY <1>3, <1>5, DailyConstants
<1>8. x \in Process /\ x.pc = "discovery" /\ x.daily = n + 1 /\ x.row = 0
      /\ x.profiles = {} /\ x.board = Never
  <2> HIDE DEF n
  <2> QED BY <1>7, NoProcessTyped DEF Process
<1> HIDE DEF x
<1>9. \A i \in DOMAIN list : list[i].parent < n + 1
  <2>1. \A i \in DOMAIN rows : rows[i].parent < i
    BY DEF DailyInv, RowsOK, ParentOK
  <2>2. ASSUME NEW i \in DOMAIN rows PROVE rows[i].parent \in Int
    <3>1. rows[i] \in Row
      BY <1>3, RowTyped
    <3> QED BY <3>1, DailyConstants DEF Row
  <2> QED BY <2>1, <2>2, <1>2, <1>3, <1>4
<1>10. ChildrenOf(n + 1, list) = {}
  <2>1. n + 1 \in Int /\ ~(n + 1 < n + 1)
    BY <1>3
  <2> QED BY <2>1, <1>9 DEF ChildrenOf
<1>11. ProcessOK(x, list, searched, registry, day)
  BY <1>2, <1>3, <1>4, <1>8, <1>10 DEF ProcessOK, Discovering, AfterDiscovery
<1> QED BY <1>1, <1>5, <1>6, <1>8, <1>11, RowAdded DEF list

(* Under its daily run, or by hand. *)
LEMMA StartDiscoveryKeeps ==
    ASSUME DailyInv, NEW p \in Processes, StartDiscovery(p)
    PROVE  DailyInv'
<1> DEFINE y == process[p]
           n == Len(rows)
           w == NewRow("discover", y.daily)
           list == Append(rows, w)
           due == y.pc = "discovery"
           x == [y EXCEPT !.pc = "trending", !.row = n + 1, !.dueOnly = due]
<1>1. /\ y \in Process /\ rows \in Seq(Row) /\ n \in 0..MaxRows /\ DOMAIN rows = 1..n
      /\ ProcessOK(y, rows, searched, registry, day) /\ day \in Int
      /\ y.daily \in 0..MaxRows /\ (y.daily # 0 => y.daily \in DOMAIN rows)
  BY DailyTyped
<1>2. /\ w \in Row /\ w.type = "discover" /\ w.parent = y.daily /\ w.status = "running"
      /\ w.started = day
  BY <1>1, NewRowTyped
<1>3. /\ n < MaxRows /\ rows' = list /\ UNCHANGED <<day, registry, searched>>
      /\ y.pc \in {"idle", "discovery"}
      /\ process' = [process EXCEPT ![p] = [y EXCEPT !.pc = "trending", !.row = Len(rows'),
                                                      !.dueOnly = due]]
  BY DEF StartDiscovery
<1>4. y.profiles = {} /\ y.board = Never /\ (y.daily # 0 => ChildrenOf(y.daily, rows) = {})
  BY <1>1, <1>3, NoProcessTyped DEF ProcessOK
<1>5. /\ y.daily # 0 => /\ rows[y.daily].type = "run-daily" /\ rows[y.daily].status = "running"
                         /\ rows[y.daily].started <= day
  BY <1>1 DEF ProcessOK, DailyInv, RowsOK, RowOK
<1> HIDE DEF w
<1>6. list \in Seq(Row) /\ Len(list) = n + 1 /\ DOMAIN list = 1..(n + 1)
      /\ list[n + 1] = w /\ \A i \in DOMAIN rows : list[i] = rows[i]
  BY <1>1, <1>2
<1>7. process' = [process EXCEPT ![p] = x]
  BY <1>3, <1>6
<1> HIDE DEF list
<1>8. n + 1 \in 0..MaxRows /\ due \in BOOLEAN
  BY <1>1, <1>3, DailyConstants
<1>9. /\ x \in Process /\ x.pc = "trending" /\ x.daily = y.daily /\ x.row = n + 1
      /\ x.profiles = {} /\ x.board = Never
  <2> HIDE DEF n, due, y
  <2> QED BY <1>1, <1>4, <1>8 DEF Process
<1> HIDE DEF x
<1>10. y.daily # 0 => ChildrenOf(y.daily, list) = {n + 1}
  <2>1. DOMAIN list = DOMAIN rows \cup {n + 1}
    BY <1>1, <1>6
  <2> HIDE DEF n
  <2> QED BY <2>1, <1>2, <1>4, <1>6 DEF ChildrenOf
<1>11. DiscoveryOK(x, list, searched, registry, day)
  <2>1. n + 1 \in DOMAIN list
    BY <1>1, <1>6
  <2> HIDE DEF n
  <2> QED BY <2>1, <1>1, <1>2, <1>5, <1>6, <1>9, <1>10 DEF DiscoveryOK
<1>12. ProcessOK(x, list, searched, registry, day)
  <2>1. \A i \in DOMAIN rows : i \in DOMAIN list
    BY <1>1, <1>6
  <2> HIDE DEF n
  <2> QED BY <2>1, <1>1, <1>5, <1>6, <1>9, <1>11 DEF ProcessOK, Discovering, AfterDiscovery
<1> QED BY <1>3, <1>7, <1>9, <1>12, RowAdded DEF list, w

LEMMA DiscoveryFailsKeeps ==
    ASSUME DailyInv, NEW p \in Processes, DiscoveryFails(p)
    PROVE  DailyInv'
<1> DEFINE y == process[p]
           x == [y EXCEPT !.pc = "snapshot", !.failed = TRUE]
<1>1. /\ y \in Process /\ ProcessOK(y, rows, searched, registry, day)
      /\ searched \subseteq Finding /\ registry \subseteq Finding
  BY DailyTyped
<1>2. y.pc = "discovery" /\ UNCHANGED <<day, rows, registry, searched>>
      /\ process' = [process EXCEPT ![p] = x]
  BY DEF DiscoveryFails, DailyInv, DailyTypeOK
<1>3. x \in Process /\ x.pc = "snapshot" /\ x.failed /\ x.row = y.row /\ x.daily = y.daily
      /\ x.profiles = y.profiles
  BY <1>1 DEF Process
<1> HIDE DEF x, y
<1>4. ProcessOK(x, rows, searched, registry, day)
  BY <1>1, <1>2, <1>3 DEF ProcessOK, RestOK, Discovering, AfterDiscovery
<1> QED BY <1>1, <1>2, <1>3, <1>4, RowsStay DEF y

(* A step within the discovery, by which process p is in state x.          *)
LEMMA DiscoveryStep ==
    ASSUME DailyInv, NEW p \in Processes, NEW x \in Process,
           process[p].pc \in Discovering,
           process' = [process EXCEPT ![p] = x], UNCHANGED <<day, rows>>,
           registry \subseteq registry', registry' \subseteq Finding,
           searched \subseteq searched', searched' \subseteq Finding,
           x.pc \in Discovering, x.row = process[p].row, x.daily = process[p].daily,
           x.profiles \subseteq process[p].profiles
              \/ \E f \in Profiles : /\ x.profiles \subseteq process[p].profiles \cup {f}
                                     /\ Found(f) \in searched' /\ Found(f) \in registry' \cup x.found,
           x.pc = "close" => x.error \/ x.found = {},
           ~x.failed => /\ ~process[p].failed
                        /\ registry \cup process[p].found \subseteq registry' \cup x.found
                        /\ x.board # Never =>
                              \/ x.board = process[p].board
                              \/ [source |-> Board, on |-> x.board] \in registry' \cup x.found
    PROVE  DailyInv'
<1> DEFINE y == process[p]
           from == rows[y.row].started
<1>1. /\ y \in Process /\ ProcessOK(y, rows, searched, registry, day) /\ DiscoveryOK(y, rows, searched, registry, day)
      /\ day \in Int /\ from \in Int /\ from <= day
  <2>1. y \in Process /\ ProcessOK(y, rows, searched, registry, day) /\ day \in Int /\ rows \in Seq(Row)
    BY DailyTyped
  <2>2. DiscoveryOK(y, rows, searched, registry, day) /\ y.row \in DOMAIN rows
    BY <2>1 DEF ProcessOK, DiscoveryOK
  <2>3. from \in Int
    BY <2>1, <2>2, RowTyped
  <2>4. from <= day
    BY <2>2 DEF DailyInv, RowsOK, RowOK
  <2> QED BY <2>1, <2>2, <2>3, <2>4
<1> HIDE DEF from
<1>2. ASSUME NEW f, NEW S, Found(f) \in S PROVE FoundIn(f, S, from, day)
  BY <1>1, <1>2 DEF FoundIn, Found
<1>3. \A f \in x.profiles : FoundIn(f, searched', from, day)
  <2>1. \A f \in y.profiles : FoundIn(f, searched', from, day)
    BY <1>1, FoundInMore DEF DiscoveryOK, from
  <2> QED BY <2>1, <1>2
<1>4. ~x.failed => \A f \in x.profiles : FoundIn(f, registry' \cup x.found, from, day)
  <2>1. ~x.failed => \A f \in y.profiles : FoundIn(f, registry' \cup x.found, from, day)
    BY <1>1, FoundInMore DEF DiscoveryOK, from
  <2> QED BY <2>1, <1>2
<1>5. ~x.failed /\ x.board # Never => [source |-> Board, on |-> x.board] \in registry' \cup x.found
  BY <1>1 DEF DiscoveryOK
<1>6. DiscoveryOK(x, rows, searched', registry', day)
  BY <1>1, <1>3, <1>4, <1>5 DEF DiscoveryOK, from
<1>7. ProcessOK(x, rows, searched', registry', day)
  BY <1>1, <1>6 DEF ProcessOK, Discovering, AfterDiscovery
<1> QED BY <1>7, RowsStay

LEMMA FoundTyped ==
    ASSUME DailyInv, NEW f \in Profiles \cup {Board} PROVE Found(f) \in Finding
BY DEF Found, Finding, DailyInv, DailyTypeOK

LEMMA TrendingKeeps ==
    ASSUME DailyInv, NEW p \in Processes, Trending(p)
    PROVE  DailyInv'
<1> DEFINE y == process[p]
<1>1. /\ y \in Process /\ searched \subseteq Finding /\ registry \subseteq Finding /\ day \in Days
      /\ Found(Board) \in Finding
  BY DailyTyped, FoundTyped
<1>2. y.pc \in Discovering /\ UNCHANGED <<day, rows, registry, searched>>
  BY DEF Trending, Discovering
<1>3. CASE process' = [process EXCEPT ![p].pc = "plan"]
  <2> DEFINE x == [y EXCEPT !.pc = "plan"]
  <2>1. process' = [process EXCEPT ![p] = x]
    BY <1>3 DEF DailyInv, DailyTypeOK
  <2>2. /\ x \in Process /\ x.pc = "plan" /\ x.row = y.row /\ x.daily = y.daily
        /\ x.profiles = y.profiles /\ x.failed = y.failed /\ x.found = y.found /\ x.board = y.board
    BY <1>1 DEF Process
  <2> HIDE DEF x
  <2> QED BY <1>1, <1>2, <2>1, <2>2, DiscoveryStep DEF Discovering
<1>4. CASE process' = [process EXCEPT ![p].pc = "plan", ![p].board = day,
                                      ![p].found = @ \cup {Found(Board)}]
  <2> DEFINE x == [y EXCEPT !.pc = "plan", !.board = day, !.found = @ \cup {Found(Board)}]
  <2>1. process' = [process EXCEPT ![p] = x]
    BY <1>4 DEF DailyInv, DailyTypeOK
  <2>2. /\ x \in Process /\ x.pc = "plan" /\ x.row = y.row /\ x.daily = y.daily
        /\ x.profiles = y.profiles /\ x.failed = y.failed /\ x.found = y.found \cup {Found(Board)}
        /\ x.board = day
    BY <1>1 DEF Process
  <2> HIDE DEF x
  <2> QED BY <1>1, <1>2, <2>1, <2>2, DiscoveryStep DEF Discovering, Found
<1>5. ASSUME NEW found \in SUBSET {Found(Board)}, NEW blocked \in BOOLEAN,
             process' = [process EXCEPT ![p].pc = "plan", ![p].failed = TRUE,
                                        ![p].found = @ \cup found, ![p].blocked = blocked]
      PROVE DailyInv'
  <2> DEFINE x == [y EXCEPT !.pc = "plan", !.failed = TRUE, !.found = @ \cup found, !.blocked = blocked]
  <2>1. process' = [process EXCEPT ![p] = x]
    BY <1>5 DEF DailyInv, DailyTypeOK
  <2>2. found \subseteq Finding
    BY <1>1
  <2>3. /\ x \in Process /\ x.pc = "plan" /\ x.row = y.row /\ x.daily = y.daily
        /\ x.profiles = y.profiles /\ x.failed
    BY <1>1, <2>2 DEF Process
  <2> HIDE DEF x
  <2> QED BY <1>1, <1>2, <2>1, <2>3, DiscoveryStep DEF Discovering
<1> QED BY <1>3, <1>4, <1>5 DEF Trending

LEMMA PlanKeeps ==
    ASSUME DailyInv, NEW p \in Processes, Plan(p)
    PROVE  DailyInv'
<1> DEFINE y == process[p]
<1>1. y \in Process /\ searched \subseteq Finding /\ registry \subseteq Finding
  BY DailyTyped
<1>2. y.pc \in Discovering /\ UNCHANGED <<day, rows, registry, searched>>
  BY DEF Plan, Discovering
<1>3. CASE process' = [process EXCEPT ![p].pc = "search", ![p].todo = PlannedProfiles(p)]
  <2> DEFINE x == [y EXCEPT !.pc = "search", !.todo = PlannedProfiles(p)]
  <2>1. process' = [process EXCEPT ![p] = x]
    BY <1>3 DEF DailyInv, DailyTypeOK
  <2>2. PlannedProfiles(p) \subseteq Profiles
    BY DEF PlannedProfiles
  <2>3. /\ x \in Process /\ x.pc = "search" /\ x.row = y.row /\ x.daily = y.daily
        /\ x.profiles = y.profiles /\ x.failed = y.failed /\ x.found = y.found /\ x.board = y.board
    BY <1>1, <2>2 DEF Process
  <2> HIDE DEF x
  <2> QED BY <1>1, <1>2, <2>1, <2>3, DiscoveryStep DEF Discovering
<1>4. CASE process' = [process EXCEPT ![p].pc = "close", ![p].error = TRUE]
  <2> DEFINE x == [y EXCEPT !.pc = "close", !.error = TRUE]
  <2>1. process' = [process EXCEPT ![p] = x]
    BY <1>4 DEF DailyInv, DailyTypeOK
  <2>2. /\ x \in Process /\ x.pc = "close" /\ x.row = y.row /\ x.daily = y.daily /\ x.error
        /\ x.profiles = y.profiles /\ x.failed = y.failed /\ x.found = y.found /\ x.board = y.board
    BY <1>1 DEF Process
  <2> HIDE DEF x
  <2> QED BY <1>1, <1>2, <2>1, <2>2, DiscoveryStep DEF Discovering
<1> QED BY <1>3, <1>4 DEF Plan

LEMMA SearchKeeps ==
    ASSUME DailyInv, NEW p \in Processes, NEW f \in Profiles, Search(p, f)
    PROVE  DailyInv'
<1> DEFINE y == process[p]
           hits == y.found \cup {Found(f)}
           rest == y.todo \ {f}
<1>1. /\ y \in Process /\ searched \subseteq Finding /\ registry \subseteq Finding
      /\ Found(f) \in Finding
  BY DailyTyped, FoundTyped
<1>2. y.pc \in Discovering /\ UNCHANGED <<day, rows, registry>>
  BY DEF Search, Discovering
<1>3. hits \subseteq Finding /\ y.found \subseteq hits /\ rest \subseteq Profiles /\ Found(f) \in hits
  BY <1>1 DEF Process
<1>4. CASE /\ searched' = searched \cup {Found(f)}
           /\ process' = [process EXCEPT ![p] = [y EXCEPT !.todo = rest, !.found = hits,
                                                          !.profiles = @ \cup {f}]]
  <2> DEFINE x == [y EXCEPT !.todo = rest, !.found = hits, !.profiles = @ \cup {f}]
  <2> HIDE DEF hits, rest
  <2>1. /\ x \in Process /\ x.pc = y.pc /\ x.row = y.row /\ x.daily = y.daily /\ x.error = y.error
        /\ x.profiles = y.profiles \cup {f} /\ x.failed = y.failed /\ x.found = hits
        /\ x.board = y.board
    BY <1>1, <1>3 DEF Process
  <2>2. y.pc = "search"
    BY DEF Search
  <2>3. process' = [process EXCEPT ![p] = x]
    BY <1>4
  <2> HIDE DEF x
  <2> QED BY <2>3, <1>1, <1>2, <1>3, <1>4, <2>1, <2>2, DiscoveryStep
<1>5. ASSUME NEW found \in {hits, y.found}, UNCHANGED searched,
             process' = [process EXCEPT ![p] = [y EXCEPT !.todo = rest, !.found = found,
                                                         !.failed = TRUE]]
      PROVE  DailyInv'
  <2> DEFINE x == [y EXCEPT !.todo = rest, !.found = found, !.failed = TRUE]
  <2>1. found \subseteq Finding
    BY <1>3
  <2> HIDE DEF hits, rest
  <2>2. /\ x \in Process /\ x.pc = y.pc /\ x.row = y.row /\ x.daily = y.daily
        /\ x.profiles = y.profiles /\ x.failed
    BY <1>1, <1>3, <2>1 DEF Process
  <2>3. y.pc = "search"
    BY DEF Search
  <2>4. process' = [process EXCEPT ![p] = x]
    BY <1>5
  <2> HIDE DEF x
  <2> QED BY <2>4, <1>1, <1>2, <1>5, <2>2, <2>3, DiscoveryStep
<1>6. CASE /\ process' = [process EXCEPT ![p] = [y EXCEPT !.todo = rest, !.found = hits]]
           /\ UNCHANGED searched
  <2> DEFINE x == [y EXCEPT !.todo = rest, !.found = hits]
  <2> HIDE DEF hits, rest
  <2>1. /\ x \in Process /\ x.pc = y.pc /\ x.row = y.row /\ x.daily = y.daily
        /\ x.profiles = y.profiles /\ x.failed = y.failed /\ x.found = hits /\ x.board = y.board
    BY <1>1, <1>3 DEF Process
  <2>2. y.pc = "search"
    BY DEF Search
  <2>3. process' = [process EXCEPT ![p] = x]
    BY <1>6
  <2> HIDE DEF x
  <2> QED BY <2>3, <1>1, <1>2, <1>3, <1>6, <2>1, <2>2, DiscoveryStep
<1>7. CASE /\ process' = [process EXCEPT ![p] = [y EXCEPT !.todo = {}, !.failed = TRUE,
                                                          !.blocked = TRUE]]
           /\ UNCHANGED searched
  <2> DEFINE x == [y EXCEPT !.todo = {}, !.failed = TRUE, !.blocked = TRUE]
  <2>1. /\ x \in Process /\ x.pc = y.pc /\ x.row = y.row /\ x.daily = y.daily
        /\ x.profiles = y.profiles /\ x.failed
    BY <1>1 DEF Process
  <2>2. y.pc = "search"
    BY DEF Search
  <2>3. process' = [process EXCEPT ![p] = x]
    BY <1>7
  <2> HIDE DEF x
  <2> QED BY <2>3, <1>1, <1>2, <1>7, <2>1, <2>2, DiscoveryStep
<1> QED BY <1>4, <1>5, <1>6, <1>7 DEF Search

LEMMA SearchesDoneKeeps ==
    ASSUME DailyInv, NEW p \in Processes, SearchesDone(p)
    PROVE  DailyInv'
<1> DEFINE y == process[p]
<1>1. y \in Process /\ searched \subseteq Finding /\ registry \subseteq Finding
  BY DailyTyped
<1>2. PICK failed \in BOOLEAN :
         process' = [process EXCEPT ![p].pc = "merge", ![p].failed = @ \/ failed]
  BY DEF SearchesDone
<1> DEFINE either == y.failed \/ failed
           x == [y EXCEPT !.pc = "merge", !.failed = either]
<1>3. y.pc \in Discovering /\ UNCHANGED <<day, rows, registry, searched>>
      /\ process' = [process EXCEPT ![p] = x]
  BY <1>2 DEF SearchesDone, Discovering, DailyInv, DailyTypeOK
<1>4. either \in BOOLEAN /\ (y.failed => either)
  OBVIOUS
<1> HIDE DEF either
<1>5. /\ x \in Process /\ x.pc = "merge" /\ x.row = y.row /\ x.daily = y.daily
      /\ x.profiles = y.profiles /\ x.failed = either /\ x.found = y.found /\ x.board = y.board
  BY <1>1, <1>4 DEF Process
<1> HIDE DEF x
<1> QED BY <1>1, <1>3, <1>4, <1>5, DiscoveryStep DEF Discovering

LEMMA StoreCandidateKeeps ==
    ASSUME DailyInv, NEW p \in Processes, StoreCandidate(p)
    PROVE  DailyInv'
<1> DEFINE y == process[p]
<1>1. y \in Process /\ searched \subseteq Finding /\ registry \subseteq Finding
  BY DailyTyped
<1>2. y.pc = "merge" /\ y.pc \in Discovering /\ UNCHANGED <<day, rows, searched>>
  BY DEF StoreCandidate, Discovering
<1>3. ASSUME NEW c \in y.found, registry' = registry \cup {c},
             process' = [process EXCEPT ![p].found = @ \ {c}]
      PROVE  DailyInv'
  <2> DEFINE x == [y EXCEPT !.found = @ \ {c}]
  <2>1. process' = [process EXCEPT ![p] = x]
    BY <1>3 DEF DailyInv, DailyTypeOK
  <2>2. /\ x \in Process /\ x.pc = "merge" /\ x.row = y.row /\ x.daily = y.daily
        /\ x.profiles = y.profiles /\ x.failed = y.failed /\ x.found = y.found \ {c}
        /\ x.board = y.board /\ c \in Finding
    BY <1>1, <1>2 DEF Process
  <2> HIDE DEF x
  <2> QED BY <1>1, <1>2, <1>3, <2>1, <2>2, DiscoveryStep
<1>4. ASSUME NEW c \in y.found, UNCHANGED registry,
             process' = [process EXCEPT ![p].found = @ \ {c}, ![p].failed = TRUE]
      PROVE  DailyInv'
  <2> DEFINE x == [y EXCEPT !.found = @ \ {c}, !.failed = TRUE]
  <2>1. process' = [process EXCEPT ![p] = x]
    BY <1>4 DEF DailyInv, DailyTypeOK
  <2>2. /\ x \in Process /\ x.pc = "merge" /\ x.row = y.row /\ x.daily = y.daily
        /\ x.profiles = y.profiles /\ x.failed
    BY <1>1, <1>2 DEF Process
  <2> HIDE DEF x
  <2> QED BY <1>1, <1>2, <1>4, <2>1, <2>2, DiscoveryStep
<1> QED BY <1>3, <1>4 DEF StoreCandidate

LEMMA MergeEndsKeeps ==
    ASSUME DailyInv, NEW p \in Processes, MergeEnds(p)
    PROVE  DailyInv'
<1> DEFINE y == process[p]
           error == y.found # {}
           x == [y EXCEPT !.pc = "close", !.error = error]
<1>1. y \in Process /\ searched \subseteq Finding /\ registry \subseteq Finding
  BY DailyTyped
<1>2. y.pc \in Discovering /\ UNCHANGED <<day, rows, registry, searched>>
      /\ process' = [process EXCEPT ![p] = x]
  BY DEF MergeEnds, Discovering, DailyInv, DailyTypeOK
<1>3. error \in BOOLEAN /\ (~error => y.found = {})
  OBVIOUS
<1> HIDE DEF error
<1>4. /\ x \in Process /\ x.pc = "close" /\ x.row = y.row /\ x.daily = y.daily /\ x.error = error
      /\ x.profiles = y.profiles /\ x.failed = y.failed /\ x.found = y.found /\ x.board = y.board
  BY <1>1, <1>3 DEF Process
<1> HIDE DEF x
<1> QED BY <1>1, <1>2, <1>3, <1>4, DiscoveryStep DEF Discovering

(***************************************************************************)
(* The steps of the rest of the daily run.                                 *)
(***************************************************************************)
LEMMA RestStep ==
    ASSUME DailyInv, NEW p \in Processes, NEW x \in Process,
           process[p].pc \in AfterDiscovery, x.pc \in AfterDiscovery,
           process' = [process EXCEPT ![p] = x], UNCHANGED <<day, rows, registry, searched>>,
           x.row = process[p].row, x.daily = process[p].daily, x.profiles = process[p].profiles,
           process[p].failed => x.failed
    PROVE  DailyInv'
<1> DEFINE y == process[p]
<1>1. /\ y \in Process /\ ProcessOK(y, rows, searched, registry, day)
      /\ searched \subseteq Finding /\ registry \subseteq Finding
  BY DailyTyped
<1>2. RestOK(x, rows, searched, registry, day)
  BY <1>1 DEF ProcessOK, RestOK
<1>3. ProcessOK(x, rows, searched, registry, day)
  BY <1>1, <1>2 DEF ProcessOK, Discovering, AfterDiscovery
<1> QED BY <1>1, <1>3, RowsStay

LEMMA TakeSnapshotsKeeps ==
    ASSUME DailyInv, NEW p \in Processes, TakeSnapshots(p)
    PROVE  DailyInv'
<1> DEFINE y == process[p]
<1>1. y \in Process
  BY DailyTyped
<1>2. PICK fatal \in BOOLEAN, failed \in BOOLEAN :
         process' = [process EXCEPT ![p] = [y EXCEPT !.pc = "rest", !.fatal = fatal, !.blocked = FALSE,
                                                     !.failed = @ \/ failed \/ fatal]]
  BY DEF TakeSnapshots
<1> DEFINE any == y.failed \/ failed \/ fatal
           x == [y EXCEPT !.pc = "rest", !.fatal = fatal, !.blocked = FALSE, !.failed = any]
<1>3. y.pc \in AfterDiscovery /\ UNCHANGED <<day, rows, registry, searched>>
      /\ process' = [process EXCEPT ![p] = x]
  BY <1>2 DEF TakeSnapshots, AfterDiscovery
<1>4. any \in BOOLEAN /\ (y.failed => any)
  OBVIOUS
<1> HIDE DEF any
<1>5. /\ x \in Process /\ x.pc = "rest" /\ x.row = y.row /\ x.daily = y.daily
      /\ x.profiles = y.profiles /\ x.failed = any
  BY <1>1, <1>4 DEF Process
<1> HIDE DEF x
<1> QED BY <1>3, <1>4, <1>5, RestStep DEF AfterDiscovery

LEMMA FinishRestKeeps ==
    ASSUME DailyInv, NEW p \in Processes, FinishRest(p)
    PROVE  DailyInv'
<1> DEFINE y == process[p]
<1>1. y \in Process
  BY DailyTyped
<1>2. PICK failed \in BOOLEAN :
         process' = [process EXCEPT ![p].pc = "finish", ![p].failed = @ \/ failed]
  BY DEF FinishRest
<1> DEFINE any == y.failed \/ failed
           x == [y EXCEPT !.pc = "finish", !.failed = any]
<1>3. y.pc \in AfterDiscovery /\ UNCHANGED <<day, rows, registry, searched>>
      /\ process' = [process EXCEPT ![p] = x]
  BY <1>2 DEF FinishRest, AfterDiscovery, DailyInv, DailyTypeOK
<1>4. any \in BOOLEAN /\ (y.failed => any)
  OBVIOUS
<1> HIDE DEF any
<1>5. /\ x \in Process /\ x.pc = "finish" /\ x.row = y.row /\ x.daily = y.daily
      /\ x.profiles = y.profiles /\ x.failed = any
  BY <1>1, <1>4 DEF Process
<1> HIDE DEF x
<1> QED BY <1>3, <1>4, <1>5, RestStep DEF AfterDiscovery

LEMMA CancelRunKeeps ==
    ASSUME DailyInv, NEW p \in Processes, CancelRun(p)
    PROVE  DailyInv'
<1> DEFINE y == process[p]
           x == [y EXCEPT !.cancelled = TRUE]
<1>1. /\ y \in Process /\ ProcessOK(y, rows, searched, registry, day)
      /\ searched \subseteq Finding /\ registry \subseteq Finding
  BY DailyTyped
<1>2. y.pc # "idle" /\ UNCHANGED <<day, rows, registry, searched>>
      /\ process' = [process EXCEPT ![p] = x]
  BY DEF CancelRun, DailyInv, DailyTypeOK
<1>3. /\ x \in Process /\ x.pc = y.pc /\ x.row = y.row /\ x.daily = y.daily /\ x.board = y.board
      /\ x.profiles = y.profiles /\ x.failed = y.failed /\ x.found = y.found /\ x.error = y.error
  BY <1>1 DEF Process
<1> HIDE DEF x
<1>4. ProcessOK(x, rows, searched, registry, day)
  BY <1>1, <1>2, <1>3 DEF ProcessOK, DiscoveryOK, RestOK
<1> QED BY <1>1, <1>2, <1>3, <1>4, RowsStay

LEMMA CrashRunKeeps ==
    ASSUME DailyInv, NEW p \in Processes, CrashRun(p)
    PROVE  DailyInv'
<1>1. process' = [process EXCEPT ![p] = NoProcess] /\ UNCHANGED <<day, rows, registry, searched>>
  BY DEF CrashRun
<1>2. searched \subseteq Finding /\ registry \subseteq Finding
  BY DailyTyped
<1> HIDE DEF NoProcess
<1> QED BY <1>1, <1>2, NoProcessTyped, RowsStay

(***************************************************************************)
(* The steps that write a row to its end, and midnight.                    *)
(***************************************************************************)
LEMMA FinishedTyped ==
    ASSUME DailyInv, NEW old \in Row, NEW status \in {"success", "partial", "failed"},
           NEW done \in SUBSET Profiles, NEW seen \in Days \cup {Never}
    PROVE  /\ Finished(old, status, done, seen) \in Row
           /\ Finished(old, status, done, seen).type = old.type
           /\ Finished(old, status, done, seen).parent = old.parent
           /\ Finished(old, status, done, seen).started = old.started
           /\ Finished(old, status, done, seen).status = status
           /\ Finished(old, status, done, seen).finished = day
           /\ Finished(old, status, done, seen).profiles = done
           /\ Finished(old, status, done, seen).board = seen
<1>1. day \in Days
  BY DEF DailyInv, DailyTypeOK
<1> QED BY <1>1 DEF Finished, Row

(* Process p closes its row k as w, and is in state x.                     *)
LEMMA RowWritten ==
    ASSUME DailyInv, NEW p \in Processes, NEW x \in Process,
           NEW k \in {process[p].row, process[p].daily}, k # 0, NEW w \in Row,
           w.type = rows[k].type, w.parent = rows[k].parent, w.started = rows[k].started,
           rows[k].status = "running",
           rows' = [rows EXCEPT ![k] = w],
           process' = [process EXCEPT ![p] = x], UNCHANGED <<day, registry, searched>>,
           RowOK(w, searched, registry, day),
           w.status = "success" => \A j \in ChildrenOf(k, rows) : rows[j].status = "success",
           ProcessOK(x, [rows EXCEPT ![k] = w], searched, registry, day),
           x.row = 0, x.daily \in {0, process[p].daily}
    PROVE  DailyInv'
<1> DEFINE list == [rows EXCEPT ![k] = w]
<1>1. /\ rows \in Seq(Row) /\ DOMAIN rows = 1..Len(rows) /\ k \in DOMAIN rows
      /\ Len(rows) <= MaxRows /\ searched \subseteq Finding /\ registry \subseteq Finding
  BY DailyTyped, DailyConstants
<1>2. /\ list \in Seq(Row) /\ Len(list) = Len(rows) /\ DOMAIN list = DOMAIN rows /\ list[k] = w
      /\ \A i \in DOMAIN rows : i # k => list[i] = rows[i]
  BY <1>1
<1>3. rows' = list /\ ProcessOK(x, list, searched', registry', day)
  OBVIOUS
<1> HIDE DEF list
<1>4. Extends(list, rows, DOMAIN rows \ {process[p].row, process[p].daily})
  BY <1>2 DEF Extends
<1>5. ParentOK(k, list)
  <2>1. ParentOK(k, rows) /\ rows[k] \in Row
    BY <1>1, RowTyped DEF DailyInv, RowsOK
  <2>2. rows[k].parent # 0 => rows[k].parent \in DOMAIN rows /\ rows[k].parent # k
    BY <1>1, <2>1, DailyConstants DEF ParentOK, Row
  <2> QED BY <2>1, <2>2, <1>1, <1>2 DEF ParentOK
<1>6. ASSUME list[k].status = "success", NEW j \in ChildrenOf(k, list) PROVE list[j].status = "success"
  <2>1. j \in ChildrenOf(k, rows) /\ j \in DOMAIN rows
    BY <1>1, <1>2, <1>6 DEF ChildrenOf
  <2>2. w.status = "success"
    BY <1>2, <1>6
  <2>3. rows[j].status = "success"
    BY <2>1, <2>2
  <2> QED BY <2>1, <2>3, <1>2, <1>6
<1>7. \A i \in DOMAIN list : (i \in DOMAIN rows => list[i] # rows[i]) => i = k
  BY <1>2
<1>8. \A i \in DOMAIN list \ DOMAIN rows : list[i].parent \in {0, process[p].daily}
  BY <1>2
<1>9. RowOK(list[k], searched', registry', day)
  BY <1>2
<1>10. Len(list) <= MaxRows /\ (x.daily = 0 \/ x.daily = process[p].daily)
  BY <1>1, <1>2
<1>11. registry \subseteq registry' /\ registry' \subseteq Finding
       /\ searched \subseteq searched' /\ searched' \subseteq Finding
  BY <1>1
<1> QED BY <1>2, <1>3, <1>4, <1>5, <1>6, <1>7, <1>8, <1>9, <1>10, <1>11, <1>1, ProcessStep, ZenonT(60)

LEMMA FoundSince ==
    ASSUME NEW f, NEW S, NEW from \in Int, NEW before \in Int, NEW to \in Int, before <= from,
           FoundIn(f, S, from, to)
    PROVE  FoundIn(f, S, before, to)
<1>1. PICK c \in S : c.source = f /\ c.on \in from..to
  BY DEF FoundIn
<1>2. c.on \in before..to
  BY <1>1
<1> QED BY <1>1, <1>2 DEF FoundIn

LEMMA FinishDiscoveryKeeps ==
    ASSUME DailyInv, NEW p \in Processes, FinishDiscovery(p)
    PROVE  DailyInv'
<1> DEFINE y == process[p]
           k == y.row
           up == y.daily
           w == Finished(rows[k], DiscoveryStatus(y), y.profiles, y.board)
<1>1. /\ y \in Process /\ rows \in Seq(Row) /\ day \in Int /\ day \in Days
      /\ ProcessOK(y, rows, searched, registry, day) /\ y.pc = "close"
      /\ y.profiles \in SUBSET Profiles /\ y.board \in Days \cup {Never}
      /\ searched \subseteq Finding /\ registry \subseteq Finding /\ DOMAIN rows = 1..Len(rows)
      /\ up \in 0..MaxRows
  BY DailyTyped DEF FinishDiscovery, Process
<1>2. DiscoveryOK(y, rows, searched, registry, day)
  BY <1>1 DEF ProcessOK, Discovering
<1>3. k \in DOMAIN rows /\ k # 0 /\ rows[k] \in Row /\ rows[k].started \in Int /\ rows[k].status = "running"
      /\ rows[k].started <= day /\ rows[k].type = "discover" /\ rows[k].parent = up
  <2>1. k \in DOMAIN rows /\ rows[k].status = "running" /\ rows[k].type = "discover"
        /\ rows[k].parent = up
    BY <1>2 DEF DiscoveryOK
  <2>2. k # 0
    BY <1>1, <2>1
  <2>3. rows[k] \in Row /\ rows[k].started \in Int
    BY <1>1, <2>1, RowTyped
  <2>4. rows[k].started <= day
    BY <2>1 DEF DailyInv, RowsOK, RowOK
  <2> QED BY <2>1, <2>2, <2>3, <2>4
<1>4. DiscoveryStatus(y) \in {"success", "partial", "failed"}
      /\ (DiscoveryStatus(y) = "success" <=> ~y.error /\ ~y.failed)
  BY DEF DiscoveryStatus
<1> DEFINE status == DiscoveryStatus(y)
<1> HIDE DEF status
<1>5. /\ w \in Row /\ w.type = "discover" /\ w.parent = up /\ w.started = rows[k].started
      /\ w.status = status /\ w.finished = day /\ w.profiles = y.profiles /\ w.board = y.board
  <2>1. y.profiles \in SUBSET Profiles /\ y.board \in Days \cup {Never} /\ rows[k] \in Row
    BY <1>1, <1>3
  <2>2. w = Finished(rows[k], status, y.profiles, y.board)
    BY DEF status
  <2> HIDE DEF w, k, y
  <2> QED BY <2>1, <2>2, <1>3, <1>4, FinishedTyped DEF status
<1> HIDE DEF w
<1>6. ~y.error /\ ~y.failed => registry \cup y.found = registry
  BY <1>1, <1>2 DEF DiscoveryOK
<1>7. RowOK(w, searched, registry, day)
  <2>1. day # Never
    BY <1>1, DailyConstants DEF Days, Never
  <2>2. \A f \in w.profiles : FoundIn(f, searched, w.started, w.finished)
    BY <1>2, <1>5 DEF DiscoveryOK
  <2>3. status = "success" => \A f \in w.profiles : FoundIn(f, registry, w.started, w.finished)
    BY <1>2, <1>4, <1>5, <1>6 DEF DiscoveryOK, status
  <2>4. status = "success" /\ w.board # Never => [source |-> Board, on |-> w.board] \in registry
    BY <1>2, <1>4, <1>5, <1>6 DEF DiscoveryOK, status
  <2> QED BY <1>3, <1>5, <2>1, <2>2, <2>3, <2>4 DEF RowOK
<1>8. ChildrenOf(k, rows) = {}
  <2> SUFFICES ASSUME NEW j \in DOMAIN rows, rows[j].parent = k PROVE FALSE
    BY DEF ChildrenOf
  <2> QED BY <1>3 DEF DailyInv, RowsOK, ParentOK
<1>9. UNCHANGED <<day, registry, searched>>
  BY DEF FinishDiscovery
<1> DEFINE list == [rows EXCEPT ![k] = w]
<1>10. /\ list \in Seq(Row) /\ list[k] = w /\ DOMAIN list = DOMAIN rows
       /\ \A i \in DOMAIN rows : i # k => list[i] = rows[i]
  BY <1>1, <1>3, <1>5
<1>11. PICK written \in BOOLEAN :
          /\ rows' = IF written THEN list ELSE rows
          /\ process' = [process EXCEPT ![p] =
                IF up = 0 THEN NoProcess
                ELSE [NoProcess EXCEPT !.pc = "snapshot", !.daily = up, !.profiles = y.profiles,
                                       !.failed = y.failed \/ y.error \/ ~written,
                                       !.blocked = y.blocked, !.cancelled = y.cancelled]]
  BY <1>1, <1>3 DEF FinishDiscovery, w
<1>12. CASE up = 0
  <2>1. process' = [process EXCEPT ![p] = NoProcess]
    BY <1>11, <1>12
  <2>2. NoProcess \in Process /\ NoProcess.row = 0 /\ NoProcess.daily = 0
        /\ \A list2, done, stored, today : ProcessOK(NoProcess, list2, done, stored, today)
    BY NoProcessTyped
  <2> HIDE DEF NoProcess
  <2>5. ProcessOK(NoProcess, list, searched, registry, day)
    BY <2>2
  <2>3. CASE written
    <3>1. rows' = [rows EXCEPT ![k] = w]
      BY <2>3, <1>11
    <3>2. w.status = "success" => \A j \in ChildrenOf(k, rows) : rows[j].status = "success"
      BY <1>8
    <3>3. k \in {process[p].row, process[p].daily} /\ k # 0 /\ w \in Row /\ w.type = rows[k].type
          /\ w.parent = rows[k].parent /\ w.started = rows[k].started /\ rows[k].status = "running"
      BY <1>3, <1>5
    <3> HIDE DEF k, y
    <3> QED BY <2>5, <2>1, <2>2, <3>1, <3>2, <3>3, <1>7, <1>9, RowWritten
  <2>4. CASE ~written
    BY <2>1, <2>2, <2>4, <1>1, <1>9, <1>11, RowsStay
  <2> QED BY <2>3, <2>4
<1>13. CASE up # 0
  <2> DEFINE any == y.failed \/ y.error \/ ~written
             x == [NoProcess EXCEPT !.pc = "snapshot", !.daily = up, !.profiles = y.profiles,
                                    !.failed = any, !.blocked = y.blocked, !.cancelled = y.cancelled]
  <2>1. process' = [process EXCEPT ![p] = x]
    BY <1>11, <1>13
  <2>2. any \in BOOLEAN /\ (~any <=> ~y.failed /\ ~y.error /\ written)
    OBVIOUS
  <2> HIDE DEF any
  <2>3. /\ x \in Process /\ x.pc = "snapshot" /\ x.row = 0 /\ x.daily = up
        /\ x.profiles = y.profiles /\ x.failed = any
    BY <1>1, <2>2, NoProcessTyped, ZenonT(60) DEF Process
  <2> HIDE DEF x
  <2>4. /\ up \in DOMAIN rows /\ rows[up].type = "run-daily" /\ rows[up].status = "running"
        /\ rows[up].started <= rows[k].started /\ ChildrenOf(up, rows) = {k} /\ up # k
        /\ rows[up].started \in Int
    BY <1>1, <1>2, <1>3, <1>13, RowTyped DEF ProcessOK, DiscoveryOK
  <2>5. \A f \in x.profiles : FoundIn(f, searched, rows[up].started, day)
    BY <1>1, <1>2, <1>3, <2>3, <2>4, FoundSince DEF DiscoveryOK
  <2>6. ~x.failed => \A f \in x.profiles : FoundIn(f, registry, rows[up].started, day)
    <3>1. ~x.failed => \A f \in x.profiles : FoundIn(f, registry, rows[k].started, day)
      BY <1>2, <1>6, <2>2, <2>3 DEF DiscoveryOK
    <3> QED BY <1>1, <1>3, <2>4, <3>1, FoundSince
  <2>7. CASE written
    <3>1. list[up] = rows[up] /\ up \in DOMAIN list
      BY <1>10, <2>4
    <3>2. ChildrenOf(up, list) = {k}
      BY <1>3, <1>5, <1>10, <2>4 DEF ChildrenOf
    <3>3. ~x.failed => list[k].status = "success"
      BY <1>4, <1>5, <1>10, <2>2, <2>3 DEF status
    <3>4. ProcessOK(x, list, searched, registry, day)
      <4> HIDE DEF list
      <4>1. RestOK(x, list, searched, registry, day)
        BY <1>13, <2>3, <2>5, <2>6, <3>1, <3>2, <3>3 DEF RestOK
      <4> QED BY <4>1, <2>3, <2>4, <3>1 DEF ProcessOK, Discovering
    <3> QED BY <3>4, <2>1, <2>3, <2>7, <1>3, <1>5, <1>7, <1>8, <1>9, <1>11, RowWritten
  <2>8. CASE ~written
    <3>1. ProcessOK(x, rows, searched, registry, day)
      <4>1. RestOK(x, rows, searched, registry, day)
        BY <1>13, <2>2, <2>3, <2>5, <2>8 DEF RestOK
      <4> QED BY <4>1, <2>3, <2>4 DEF ProcessOK, Discovering
    <3> QED BY <3>1, <2>1, <2>3, <2>8, <1>1, <1>9, <1>11, RowsStay
  <2> QED BY <2>7, <2>8
<1> QED BY <1>12, <1>13

LEMMA FinishDailyKeeps ==
    ASSUME DailyInv, NEW p \in Processes, FinishDaily(p)
    PROVE  DailyInv'
<1> DEFINE y == process[p]
           k == y.daily
           status == DailyStatus(y)
           w == Finished(rows[k], status, y.profiles, Never)
<1>1. /\ y \in Process /\ rows \in Seq(Row) /\ day \in Int /\ day \in Days
      /\ ProcessOK(y, rows, searched, registry, day) /\ y.pc = "finish"
      /\ y.profiles \in SUBSET Profiles /\ DOMAIN rows = 1..Len(rows)
  BY DailyTyped DEF FinishDaily, Process
<1>2. RestOK(y, rows, searched, registry, day)
  BY <1>1 DEF ProcessOK, AfterDiscovery
<1>3. k \in DOMAIN rows /\ k # 0 /\ rows[k] \in Row /\ rows[k].status = "running"
      /\ rows[k].started <= day /\ rows[k].type = "run-daily" /\ rows[k].parent = 0
  BY <1>1, <1>2, RowTyped DEF RestOK, ProcessOK, DailyInv, RowsOK, RowOK
<1>4. status \in {"success", "partial", "failed"} /\ (status = "success" => ~y.failed)
  BY DEF DailyStatus
<1> HIDE DEF status
<1>5. /\ w \in Row /\ w.type = "run-daily" /\ w.parent = 0 /\ w.started = rows[k].started
      /\ w.status = status /\ w.finished = day /\ w.profiles = y.profiles /\ w.board = Never
  <2>1. y.profiles \in SUBSET Profiles /\ rows[k] \in Row /\ Never \in Days \cup {Never}
    BY <1>1, <1>3
  <2>2. w = Finished(rows[k], status, y.profiles, Never)
    OBVIOUS
  <2> HIDE DEF w, k, y
  <2> QED BY <2>1, <2>2, <1>3, <1>4, FinishedTyped
<1>6. /\ rows' = [rows EXCEPT ![k] = w]
      /\ process' = [process EXCEPT ![p] = NoProcess] /\ UNCHANGED <<day, registry, searched>>
  BY <1>1, <1>3 DEF FinishDaily, status
<1> HIDE DEF w
<1>7. RowOK(w, searched, registry, day)
  <2>1. day # Never
    BY <1>1, DailyConstants DEF Days, Never
  <2> QED BY <1>2, <1>3, <1>4, <1>5, <2>1 DEF RowOK, RestOK
<1>8. w.status = "success" => \A j \in ChildrenOf(k, rows) : rows[j].status = "success"
  BY <1>2, <1>4, <1>5 DEF RestOK
<1>9. NoProcess \in Process /\ NoProcess.row = 0 /\ NoProcess.daily = 0
      /\ \A list2, done, stored, today : ProcessOK(NoProcess, list2, done, stored, today)
  BY NoProcessTyped
<1> HIDE DEF NoProcess
<1>10. ProcessOK(NoProcess, [rows EXCEPT ![k] = w], searched, registry, day)
  BY <1>9
<1>11. k \in {process[p].row, process[p].daily} /\ k # 0 /\ w \in Row /\ w.type = rows[k].type
       /\ w.parent = rows[k].parent /\ w.started = rows[k].started /\ rows[k].status = "running"
  BY <1>3, <1>5
<1> HIDE DEF k, y
<1> QED BY <1>6, <1>7, <1>8, <1>9, <1>10, <1>11, RowWritten

LEMMA MidnightKeeps ==
    ASSUME DailyInv, Midnight
    PROVE  DailyInv'
<1>1. /\ day' = day + 1 /\ UNCHANGED <<rows, registry, searched, process>>
      /\ day \in Days /\ day' \in Days /\ day <= day' /\ rows \in Seq(Row)
  BY DailyConstants DEF Midnight, Days, DailyInv, DailyTypeOK
<1>2. DailyTypeOK'
  BY <1>1 DEF DailyInv, DailyTypeOK
<1>3. ASSUME NEW i \in DOMAIN rows PROVE RowOK(rows[i], searched, registry, day')
  <2>1. rows[i] \in Row /\ RowOK(rows[i], searched, registry, day)
    BY <1>1, RowTyped DEF DailyInv, RowsOK
  <2> QED BY <2>1, <1>1, RowStays
<1>4. RowsOK'
  BY <1>1, <1>3 DEF DailyInv, RowsOK
<1>5. Extends(rows, rows, DOMAIN rows) /\ \A x \in Process : Extends(rows, rows, {x.row, x.daily})
  BY DEF Extends
<1>6. ASSUME NEW p \in Processes PROVE ProcessOK(process[p], rows, searched, registry, day')
  <2>1. process[p] \in Process /\ ProcessOK(process[p], rows, searched, registry, day)
    BY DailyTyped
  <2> QED BY <2>1, <1>1, <1>5, ProcessStays
<1>7. Apart'
  BY <1>1 DEF DailyInv, Apart
<1> QED BY <1>1, <1>2, <1>4, <1>6, <1>7 DEF DailyInv

LEMMA DailyInit_Inv == DailyInit => DailyInv
<1> SUFFICES ASSUME DailyInit PROVE DailyInv
  OBVIOUS
<1>1. 0 \in Days /\ rows \in Seq(Row) /\ Len(rows) = 0 /\ DOMAIN rows = {}
  BY DailyConstants DEF Days, DailyInit
<1>2. process \in [Processes -> Process] /\ \A p \in Processes : process[p] = NoProcess
  BY NoProcessTyped DEF DailyInit
<1>3. DailyTypeOK
  BY <1>1, <1>2, DailyConstants DEF DailyTypeOK, DailyInit
<1>4. RowsOK
  BY <1>1 DEF RowsOK
<1>5. Apart
  BY <1>2, NoProcessTyped DEF Apart
<1>6. \A p \in Processes : ProcessOK(process[p], rows, searched, registry, day)
  <2> SUFFICES ASSUME NEW p \in Processes
               PROVE  ProcessOK(process[p], rows, searched, registry, day)
    OBVIOUS
  <2>1. process[p] = NoProcess
    BY <1>2
  <2>2. ProcessOK(NoProcess, rows, searched, registry, day)
    BY NoProcessTyped
  <2> QED BY <2>1, <2>2
<1> QED BY <1>3, <1>4, <1>5, <1>6 DEF DailyInv

LEMMA DailyNext_Inv == DailyInv /\ [DailyNext]_dailyVars => DailyInv'
<1> SUFFICES ASSUME DailyInv, [DailyNext]_dailyVars PROVE DailyInv'
  OBVIOUS
<1>1. ASSUME NEW p \in Processes,
             \/ StartDaily(p) \/ StartDiscovery(p) \/ DiscoveryFails(p)
             \/ Trending(p) \/ Plan(p) \/ \E f \in Profiles : Search(p, f)
             \/ SearchesDone(p) \/ StoreCandidate(p) \/ MergeEnds(p) \/ FinishDiscovery(p)
             \/ TakeSnapshots(p) \/ FinishRest(p) \/ FinishDaily(p)
             \/ CancelRun(p) \/ CrashRun(p)
      PROVE  DailyInv'
  BY <1>1, StartDailyKeeps, StartDiscoveryKeeps, DiscoveryFailsKeeps, TrendingKeeps, PlanKeeps,
     SearchKeeps, SearchesDoneKeeps, StoreCandidateKeeps, MergeEndsKeeps, FinishDiscoveryKeeps,
     TakeSnapshotsKeeps, FinishRestKeeps, FinishDailyKeeps, CancelRunKeeps, CrashRunKeeps
<1>2. CASE UNCHANGED dailyVars
  BY <1>2 DEF dailyVars, DailyInv, DailyTypeOK, RowsOK, Apart, ParentOK
<1> QED BY <1>1, <1>2, MidnightKeeps DEF DailyNext

(***************************************************************************)
(* What holds of the daily run.                                            *)
(***************************************************************************)
(* The rows, the registry and the processes stay within their types.       *)
THEOREM DailyTypeCorrect == DailySpec => []DailyTypeOK
<1>1. DailyInv => DailyTypeOK
  BY DEF DailyInv
<1> QED BY <1>1, DailyInit_Inv, DailyNext_Inv, PTL DEF DailySpec

(* A run-daily row is reported as a success only if its discovery was one, *)
(* and a success of either kind has stored what its profiles found         *)
(* (DailyReport.Partial, Discover).                                        *)
THEOREM SuccessCorrect == DailySpec => []SuccessIsWhole
<1>1. ASSUME DailyInv PROVE SuccessIsWhole
  <2> SUFFICES ASSUME NEW i \in DOMAIN rows, rows[i].status = "success"
               PROVE  /\ \A j \in DOMAIN rows : rows[j].parent = i => rows[j].status = "success"
                      /\ \A f \in rows[i].profiles : FoundIn(f, registry, rows[i].started, rows[i].finished)
    BY DEF SuccessIsWhole, FoundIn
  <2> QED BY <1>1 DEF DailyInv, RowsOK, RowOK, ChildrenOf
<1> QED BY <1>1, DailyInit_Inv, DailyNext_Inv, PTL DEF DailySpec

(* The board is left alone only on a day on which its candidates have been *)
(* stored (trendingCompletedToday).                                        *)
THEOREM SkippedBoardCorrect == DailySpec => SkippedBoardIsStored
<1>1. ASSUME DailyInv, NEW p \in Processes, BoardSkipped(p) PROVE Found(Board) \in registry
  <2>1. PICK i \in DOMAIN rows : rows[i].status = "success" /\ rows[i].board = day
    BY <1>1 DEF BoardSkipped, BoardCompletedToday, ListJobRuns
  <2>2. day # Never
    BY <1>1, DailyTyped, DailyConstants DEF Days, Never
  <2> QED BY <1>1, <2>1, <2>2 DEF DailyInv, RowsOK, RowOK, Found
<1>2. DailyInv => \A p \in Processes : Trending(p) /\ BoardSkipped(p) => Found(Board) \in registry
  BY <1>1
<1> QED BY <1>2, DailyInit_Inv, DailyNext_Inv, PTL DEF DailySpec, SkippedBoardIsStored

LEMMA LastSuccessIsLatest ==
    ASSUME DailyInv, NEW f \in Profiles, SuccessDays(f) # {}
    PROVE  /\ SuccessDays(f) \subseteq Days
           /\ LastSuccess(f) \in SuccessDays(f)
<1>1. ASSUME NEW i \in DOMAIN rows, f \in rows[i].profiles PROVE rows[i].finished \in Days
  <2>1. rows[i] \in Row /\ RowOK(rows[i], searched, registry, day)
    BY RowTyped DEF DailyInv, DailyTypeOK, RowsOK
  <2> QED BY <1>1, <2>1 DEF RowOK, Row
<1>2. SuccessDays(f) \in SUBSET (0..MaxDay)
  BY <1>1 DEF SuccessDays, ListJobRuns, Days
<1>3. \E d \in SuccessDays(f) : \A e \in SuccessDays(f) : d >= e
  BY <1>2, DailyConstants, GreatestElement
<1> QED BY <1>2, <1>3 DEF LastSuccess, Days

(* What a process leaves out it plans in that step. *)
LEMMA SkipsWhenPlanning ==
    ASSUME DailyInv, [DailyNext]_dailyVars, NEW p \in Processes, NEW f, Skips(p, f)
    PROVE  Plan(p) /\ process'[p].todo = PlannedProfiles(p)
<1>1. process[p].pc = "plan" /\ process'[p].pc = "search" /\ process \in [Processes -> Process]
  BY DEF Skips, DailyInv, DailyTypeOK
<1>3. ASSUME NEW q \in Processes, q # p,
             \/ StartDaily(q) \/ StartDiscovery(q) \/ DiscoveryFails(q)
             \/ Trending(q) \/ Plan(q) \/ \E g \in Profiles : Search(q, g)
             \/ SearchesDone(q) \/ StoreCandidate(q) \/ MergeEnds(q) \/ FinishDiscovery(q)
             \/ TakeSnapshots(q) \/ FinishRest(q) \/ FinishDaily(q)
             \/ CancelRun(q) \/ CrashRun(q)
      PROVE  process'[p] = process[p]
  <2>1. CASE StartDaily(q) \/ StartDiscovery(q) \/ DiscoveryFails(q)
    BY <1>1, <1>3, <2>1 DEF StartDaily, StartDiscovery, DiscoveryFails
  <2>2. CASE Trending(q) \/ Plan(q)
    BY <1>1, <1>3, <2>2 DEF Trending, Plan
  <2>3. ASSUME NEW g \in Profiles, Search(q, g) PROVE process'[p] = process[p]
    BY <1>1, <1>3, <2>3 DEF Search
  <2>4. CASE SearchesDone(q) \/ StoreCandidate(q) \/ MergeEnds(q)
    BY <1>1, <1>3, <2>4 DEF SearchesDone, StoreCandidate, MergeEnds
  <2>5. CASE FinishDiscovery(q) \/ TakeSnapshots(q) \/ FinishRest(q)
    BY <1>1, <1>3, <2>5 DEF FinishDiscovery, TakeSnapshots, FinishRest
  <2>6. CASE FinishDaily(q) \/ CancelRun(q) \/ CrashRun(q)
    BY <1>1, <1>3, <2>6 DEF FinishDaily, CancelRun, CrashRun
  <2> QED BY <1>3, <2>1, <2>2, <2>3, <2>4, <2>5, <2>6
<1>4. CancelRun(p) => process'[p].pc = "plan"
  BY <1>1 DEF CancelRun, Process
<1>5. CrashRun(p) => process'[p].pc = "idle"
  BY <1>1 DEF CrashRun, NoProcess
<1>6. Plan(p)
  <2>1. ~StartDaily(p) /\ ~StartDiscovery(p) /\ ~DiscoveryFails(p)
    BY <1>1 DEF StartDaily, StartDiscovery, DiscoveryFails
  <2>2. ~Trending(p) /\ \A g \in Profiles : ~Search(p, g)
    BY <1>1 DEF Trending, Search
  <2>3. ~SearchesDone(p) /\ ~StoreCandidate(p) /\ ~MergeEnds(p) /\ ~FinishDiscovery(p)
    BY <1>1 DEF SearchesDone, StoreCandidate, MergeEnds, FinishDiscovery
  <2>4. ~TakeSnapshots(p) /\ ~FinishRest(p) /\ ~FinishDaily(p)
    BY <1>1 DEF TakeSnapshots, FinishRest, FinishDaily
  <2>5. ~CancelRun(p) /\ ~CrashRun(p)
    BY <1>1, <1>4, <1>5
  <2>6. ~Midnight /\ ~(UNCHANGED dailyVars)
    BY <1>1 DEF Midnight, dailyVars
  <2>7. PICK q \in Processes :
             \/ StartDaily(q) \/ StartDiscovery(q) \/ DiscoveryFails(q)
             \/ Trending(q) \/ Plan(q) \/ \E g \in Profiles : Search(q, g)
             \/ SearchesDone(q) \/ StoreCandidate(q) \/ MergeEnds(q) \/ FinishDiscovery(q)
             \/ TakeSnapshots(q) \/ FinishRest(q) \/ FinishDaily(q)
             \/ CancelRun(q) \/ CrashRun(q)
    BY <2>6 DEF DailyNext
  <2>8. q = p
    BY <1>1, <1>3, <2>7
  <2> QED BY <2>1, <2>2, <2>3, <2>4, <2>5, <2>7, <2>8
<1>7. process'[p].todo = PlannedProfiles(p)
  BY <1>1, <1>6 DEF Plan, Process
<1> QED BY <1>6, <1>7

(* A profile is left out only if a run that ended in the current period    *)
(* searched it to the end (Due, lastProfileSuccess).                       *)
THEOREM ProfilesComeRoundCorrect == DailySpec => ProfilesComeRound
<1>1. ASSUME DailyInv, [DailyNext]_dailyVars, NEW p \in Processes, NEW f \in Profiles, Skips(p, f)
      PROVE  \E i \in DOMAIN rows, c \in searched :
                /\ c.source = f /\ c.on \in rows[i].started..rows[i].finished
                /\ rows[i].finished \div PeriodDays[f] >= PlannedOn(p) \div PeriodDays[f]
  <2> DEFINE planned == PlannedOn(p)
             P == PeriodDays[f]
             last == LastSuccess(f)
  <2>1. Plan(p) /\ f \notin PlannedProfiles(p) /\ ~process[p].blocked
    BY <1>1, SkipsWhenPlanning DEF Skips
  <2>2. ~Due(f, planned)
    BY <2>1 DEF PlannedProfiles
  <2>3. SuccessDays(f) # {} /\ P # 0 /\ (last <= planned => planned \div P = last \div P)
    BY <2>2 DEF Due
  <2>4. P \in Nat \ {0} /\ last \in Nat /\ last \in SuccessDays(f)
    BY <1>1, <2>3, LastSuccessIsLatest, DailyConstants DEF Days
  <2>5. planned \in Nat
    <3>1. DiscoveryOK(process[p], rows, searched, registry, day) /\ rows \in Seq(Row)
      BY <1>1, <2>1, DailyTyped DEF Plan, ProcessOK, Discovering
    <3>2. rows[process[p].row].started \in Days
      BY <3>1, RowTyped DEF DiscoveryOK
    <3> QED BY <3>2, DailyConstants DEF PlannedOn, Days
  <2>6. PICK i \in DOMAIN rows : f \in rows[i].profiles /\ rows[i].finished = last
    BY <2>4 DEF SuccessDays, ListJobRuns
  <2>7. FoundIn(f, searched, rows[i].started, rows[i].finished)
    BY <1>1, <2>6 DEF DailyInv, RowsOK, RowOK
  <2>8. last \div P >= planned \div P
    <3> HIDE DEF last, planned, P
    <3>1. CASE last <= planned
      BY <2>3, <2>4, <2>5, <3>1
    <3>2. CASE planned <= last
      <4>1. planned \div P <= last \div P
        BY <2>4, <2>5, <3>2, DivMonotone
      <4>2. planned \div P \in Int /\ last \div P \in Int
        BY <2>4, <2>5
      <4> QED BY <4>1, <4>2
    <3> QED BY <2>4, <2>5, <3>1, <3>2
  <2> QED BY <2>6, <2>7, <2>8 DEF FoundIn
<1>2. DailyInv /\ [DailyNext]_dailyVars =>
         \A p \in Processes, f \in Profiles :
            Skips(p, f) =>
               \E i \in DOMAIN rows, c \in searched :
                  /\ c.source = f /\ c.on \in rows[i].started..rows[i].finished
                  /\ rows[i].finished \div PeriodDays[f] >= PlannedOn(p) \div PeriodDays[f]
  BY <1>1
<1> QED BY <1>2, DailyInit_Inv, DailyNext_Inv, PTL DEF DailySpec, ProfilesComeRound

(***************************************************************************)
(* Candidates on their way into the registry.                              *)
(*                                                                         *)
(* A row never forgets: the names and sources it has shown remain          *)
(* (UpsertKeeps).  A discovery that stores a candidate has stored the      *)
(* names and sources that it no longer lists as waiting (BatchOK).         *)
(***************************************************************************)
Known(old, name) == old # Absent /\ name \in {old.name} \cup old.previous

NamesApart == \A r, s \in Repos : r # s /\ row[r] # Absent /\ row[s] # Absent => row[r].name # row[s].name

BatchOK ==
    /\ batch.pc # "idle" => batch.repo \in Repos
    /\ batch.pc \in {"store", "rest"} => batch.found \in Candidate
    /\ batch.pc = "rest" =>
          /\ row[batch.repo] # Absent
          /\ ~batch.failed =>
                /\ batch.found.sources \subseteq row[batch.repo].sources \cup batch.more
                /\ \A n \in ({batch.found.name} \cup batch.found.previous) \ batch.names :
                      Known(row[batch.repo], n)

CandidatesInv ==
    /\ CandidatesTypeOK
    /\ NamesApart
    /\ BatchOK
    /\ met # Absent => Known(row[met.repo], met.name)

LEMMA AbsentIsNoRow == Absent \notin RegistryRow /\ Absent \notin Candidate
<1>1. DOMAIN Absent = {"repo"}
  BY DEF Absent
<1>2. \A x \in RegistryRow : "name" \in DOMAIN x
  BY DEF RegistryRow
<1>3. \A x \in Candidate : "name" \in DOMAIN x
  BY DEF Candidate
<1> QED BY <1>1, <1>2, <1>3

LEMMA SourceTyped ==
    ASSUME NEW c \in Channels
    PROVE  SourcePriority(c) \in 0..3
BY CandidatesAssumption DEF SourcePriority

LEMMA MergeTyped ==
    ASSUME NEW old \in Candidate \cup {Absent}, NEW c \in Candidate
    PROVE  MergeCandidate(old, c) \in Candidate
<1> DEFINE wins == c.name # old.name /\ c.priority >= old.priority
           lost == IF c.name = old.name THEN {} ELSE IF wins THEN {old.name} ELSE {c.name}
           name == IF wins THEN c.name ELSE old.name
           priority == IF wins THEN c.priority ELSE old.priority
<1>1. CASE old = Absent
  BY <1>1 DEF MergeCandidate
<1>2. CASE old # Absent
  <2>1. old \in Candidate
    BY <1>2
  <2>2. name \in Names /\ priority \in 0..3 /\ lost \subseteq Names
    BY <2>1 DEF Candidate
  <2>3. MergeCandidate(old, c) = [old EXCEPT !.name = name, !.priority = priority,
                                             !.previous = @ \cup lost \cup c.previous,
                                             !.sources = @ \cup c.sources]
    BY <1>2 DEF MergeCandidate
  <2> HIDE DEF name, priority, lost
  <2> QED BY <2>1, <2>2, <2>3 DEF Candidate
<1> QED BY <1>1, <1>2

LEMMA RemergedTyped ==
    ASSUME NEW c \in Candidate
    PROVE  Remerged(c) \in Candidate
<1>1. SourcePriority(c.source) \in 0..3
  BY SourceTyped DEF Candidate
<1>2. [c EXCEPT !.priority = SourcePriority(c.source)] \in Candidate
  BY <1>1 DEF Candidate
<1> QED BY <1>2, MergeTyped DEF Remerged

(* A row that is stored shows the name and the source given, and whatever  *)
(* it showed before.                                                       *)
LEMMA UpsertedKeeps ==
    ASSUME CandidatesInv, NEW r \in Repos, NEW name \in Names, NEW source \in Channels,
           NEW at \in Int, at \in Instants \/ (row[r] # Absent /\ at < row[r].last)
    PROVE  /\ Upserted(r, name, source, at) \in RegistryRow
           /\ Known(Upserted(r, name, source, at), name)
           /\ \A n : Known(row[r], n) => Known(Upserted(r, name, source, at), n)
           /\ source \in Upserted(r, name, source, at).sources
           /\ row[r] # Absent => row[r].sources \subseteq Upserted(r, name, source, at).sources
           /\ \/ Upserted(r, name, source, at).name = name /\ (row[r] = Absent \/ Adopts(row[r], name, at))
              \/ row[r] # Absent /\ Upserted(r, name, source, at).name = row[r].name
<1> DEFINE old == row[r]
           new == Upserted(r, name, source, at)
<1>1. old \in RegistryRow \cup {Absent}
  BY DEF CandidatesInv, CandidatesTypeOK
<1>2. CASE old = Absent
  <2>1. new = [name |-> name, previous |-> {}, sources |-> {source}, last |-> at]
    BY <1>2 DEF Upserted
  <2>2. at \in Instants
    BY <1>2
  <2>3. new \in RegistryRow /\ new.name = name /\ source \in new.sources
    BY <2>1, <2>2 DEF RegistryRow
  <2> HIDE DEF new
  <2> QED BY <2>3, <1>2, AbsentIsNoRow DEF Known, new
<1>3. CASE old # Absent
  <2>1. old \in RegistryRow /\ old.last \in Instants /\ old.last \in Int /\ old.name \in Names
        /\ old.previous \subseteq Names /\ old.sources \subseteq Channels
        /\ old.name \notin old.previous
    <3>1. old \in RegistryRow
      BY <1>1, <1>3
    <3>2. \A i \in Instants : i \in Int
      BY CandidatesAssumption DEF Instants
    <3> QED BY <3>1, <3>2 DEF RegistryRow
  <2> DEFINE named == Named(old, name, at)
             last == Max({old.last, at})
             sources == old.sources \cup {source}
  <2>2. /\ named \in RegistryRow /\ named.sources = old.sources /\ named.last = old.last
        /\ name \in {named.name} \cup named.previous
        /\ {old.name} \cup old.previous \subseteq {named.name} \cup named.previous
        /\ named.name = old.name \/ (named.name = name /\ Adopts(old, name, at))
    <3>1. CASE name = old.name
      BY <2>1, <3>1 DEF Named
    <3>2. CASE name # old.name /\ Adopts(old, name, at)
      <4>1. named = [old EXCEPT !.name = name, !.previous = (@ \ {name}) \cup {old.name}]
        BY <3>2 DEF Named
      <4> HIDE DEF named, old
      <4>2. named \in RegistryRow /\ named.sources = old.sources /\ named.last = old.last
            /\ named.name = name /\ named.previous = (old.previous \ {name}) \cup {old.name}
        BY <4>1, <2>1, <3>2 DEF RegistryRow
      <4> QED BY <4>2, <3>2
    <3>3. CASE name # old.name /\ ~Adopts(old, name, at)
      <4>1. named = [old EXCEPT !.previous = @ \cup {name}]
        BY <3>3 DEF Named
      <4> HIDE DEF named, old
      <4>2. named \in RegistryRow /\ named.sources = old.sources /\ named.last = old.last
            /\ named.name = old.name /\ named.previous = old.previous \cup {name}
        BY <4>1, <2>1, <3>3 DEF RegistryRow
      <4> QED BY <4>2, <3>3
    <3> QED BY <3>1, <3>2, <3>3
  <2>3. last \in Instants
    BY <2>1, <1>3, MaxOfTwo
  <2>4. new = [named EXCEPT !.sources = sources, !.last = last]
    BY <1>3, <2>2 DEF Upserted
  <2>5. sources \subseteq Channels /\ source \in sources /\ old.sources \subseteq sources
    BY <2>1
  <2> HIDE DEF named, last, sources, new, old
  <2>6. /\ new \in RegistryRow /\ new.name = named.name /\ new.previous = named.previous
        /\ new.sources = sources
    BY <2>2, <2>3, <2>4, <2>5 DEF RegistryRow
  <2> QED BY <1>3, <2>2, <2>5, <2>6, AbsentIsNoRow DEF Known, old, new
<1> QED BY <1>2, <1>3

LEMMA UpsertKeeps ==
    ASSUME CandidatesInv, NEW r \in Repos, NEW name \in Names, NEW source \in Channels,
           NEW at \in Int, at \in Instants \/ (row[r] # Absent /\ at < row[r].last),
           Upsert(r, name, source, at)
    PROVE  /\ row' \in [Repos -> RegistryRow \cup {Absent}]
           /\ NamesApart'
           /\ row'[r] \in RegistryRow /\ Known(row'[r], name) /\ source \in row'[r].sources
           /\ \A s \in Repos : /\ row[s] # Absent => /\ row'[s] # Absent
                                                    /\ row[s].sources \subseteq row'[s].sources
                               /\ \A n : Known(row[s], n) => Known(row'[s], n)
<1> DEFINE new == Upserted(r, name, source, at)
<1>1. /\ new \in RegistryRow /\ Known(new, name)
      /\ \A n : Known(row[r], n) => Known(new, n)
      /\ source \in new.sources
      /\ row[r] # Absent => row[r].sources \subseteq new.sources
      /\ \/ new.name = name /\ (row[r] = Absent \/ Adopts(row[r], name, at))
         \/ row[r] # Absent /\ new.name = row[r].name
  BY UpsertedKeeps
<1>2. row' = [row EXCEPT ![r] = new] /\ row \in [Repos -> RegistryRow \cup {Absent}]
  BY DEF Upsert, CandidatesInv, CandidatesTypeOK
<1> HIDE DEF new
<1>3. row' \in [Repos -> RegistryRow \cup {Absent}] /\ row'[r] = new
      /\ \A s \in Repos \ {r} : row'[s] = row[s]
  BY <1>1, <1>2
<1>4. \A s \in Repos \ {r} : row[s] # Absent => row[s].name # new.name
  <2>1. CASE new.name = name /\ (row[r] = Absent \/ Adopts(row[r], name, at))
    BY <2>1 DEF Upsert, MayStore, NameIsFree
  <2>2. CASE row[r] # Absent /\ new.name = row[r].name
    BY <2>2 DEF CandidatesInv, NamesApart
  <2> QED BY <1>1, <2>1, <2>2
<1>5. NamesApart'
  BY <1>3, <1>4 DEF CandidatesInv, NamesApart
<1> QED BY <1>1, <1>3, <1>5, AbsentIsNoRow

LEMMA CandidatesTyped ==
    ASSUME CandidatesInv
    PROVE  /\ title \in [Repos -> Names] /\ past \in [Repos -> SUBSET Names]
           /\ now \in Instants /\ row \in [Repos -> RegistryRow \cup {Absent}]
           /\ batch \in Batch /\ met \in [repo : Repos, name : Names] \cup {Absent}
           /\ \A i \in Instants : i \in Int
           /\ batch.pc # "idle" => batch.repo \in Repos
           /\ batch.pc \in {"store", "rest"} => batch.found \in Candidate
<1>1. \A i \in Instants : i \in Int
  BY CandidatesAssumption DEF Instants
<1> QED BY <1>1 DEF CandidatesInv, CandidatesTypeOK, BatchOK

LEMMA NoBatchTyped ==
    NoBatch \in Batch /\ NoBatch.pc = "idle"
BY CandidatesAssumption DEF NoBatch, Batch

(* A step of the discovery that may store its repository: what was known   *)
(* remains known.                                                          *)
LEMMA BatchStep ==
    ASSUME CandidatesInv, UNCHANGED <<title, past, now>>, batch' \in Batch,
           batch'.pc # "idle" => batch'.repo \in Repos,
           batch'.pc \in {"store", "rest"} => batch'.found \in Candidate,
           \/ UNCHANGED row
           \/ /\ row' \in [Repos -> RegistryRow \cup {Absent}] /\ NamesApart'
              /\ \A s \in Repos : \A n : Known(row[s], n) => Known(row'[s], n),
           met' = met \/ (/\ met' \in [repo : Repos, name : Names]
                          /\ Known(row'[met'.repo], met'.name)),
           batch'.pc = "rest" =>
              /\ row'[batch'.repo] # Absent
              /\ ~batch'.failed =>
                    /\ batch'.found.sources \subseteq row'[batch'.repo].sources \cup batch'.more
                    /\ \A n \in ({batch'.found.name} \cup batch'.found.previous) \ batch'.names :
                          Known(row'[batch'.repo], n)
    PROVE  CandidatesInv'
<1>1. CandidatesTypeOK'
  BY DEF CandidatesInv, CandidatesTypeOK
<1>2. NamesApart'
  BY DEF CandidatesInv, NamesApart
<1>3. BatchOK'
  BY DEF BatchOK
<1>4. met' # Absent => Known(row'[met'.repo], met'.name)
  <2>1. CASE met' = met
    <3>1. met # Absent => met.repo \in Repos
      BY DEF CandidatesInv, CandidatesTypeOK
    <3> QED BY <2>1, <3>1 DEF CandidatesInv
  <2>2. CASE met' # met
    BY <2>2
  <2> QED BY <2>1, <2>2
<1> QED BY <1>1, <1>2, <1>3, <1>4 DEF CandidatesInv

LEMMA RenameKeeps ==
    ASSUME CandidatesInv, NEW r \in Repos, NEW name \in Names, Rename(r, name)
    PROVE  CandidatesInv'
<1>1. UNCHANGED <<row, batch, met>> /\ now' \in Instants
      /\ title' \in [Repos -> Names] /\ past' \in [Repos -> SUBSET Names]
  BY CandidatesTyped DEF Rename
<1> QED BY <1>1 DEF CandidatesInv, CandidatesTypeOK, NamesApart, BatchOK

LEMMA StartBatchKeeps ==
    ASSUME CandidatesInv, NEW r \in Repos, StartBatch(r)
    PROVE  CandidatesInv'
<1>1. batch' = [NoBatch EXCEPT !.pc = "collect", !.repo = r] /\ UNCHANGED <<title, past, now, row, met>>
  BY DEF StartBatch
<1>2. batch' \in Batch /\ batch'.pc = "collect" /\ batch'.repo = r
  <2> HIDE DEF NoBatch
  <2> QED BY <1>1, NoBatchTyped DEF Batch
<1> QED BY <1>1, <1>2, BatchStep

LEMMA CollectKeeps ==
    ASSUME CandidatesInv, NEW source \in Channels, Collect(source)
    PROVE  CandidatesInv'
<1> DEFINE r == batch.repo
           priority == SourcePriority(source)
<1>1. batch \in Batch /\ batch.pc = "collect" /\ r \in Repos /\ batch.size < MaxFound
      /\ UNCHANGED <<title, past, now, row, met>> /\ priority \in 0..3
      /\ title[r] \in Names /\ past[r] \subseteq Names /\ now \in Instants
  BY CandidatesTyped, SourceTyped DEF Collect
<1>2. PICK name \in IF priority = 3 THEN {title[r]} ELSE past[r],
           at \in IF source = "legacy" THEN {i \in Instants : i <= now} ELSE {now},
           former \in IF source = "manual" THEN {{n} : n \in past[r] \ {title[r]}} \cup {{}} ELSE {{}} :
              batch' = [batch EXCEPT !.size = @ + 1,
                           !.found = MergeCandidate(@, [source |-> source, name |-> name,
                                                        priority |-> priority,
                                                        previous |-> former, sources |-> {source},
                                                        at |-> at])]
  BY DEF Collect
<1>3. name \in Names /\ at \in Instants /\ former \subseteq Names
  BY <1>1
<1> DEFINE c == [source |-> source, name |-> name, priority |-> priority,
                 previous |-> former, sources |-> {source}, at |-> at]
           merged == MergeCandidate(batch.found, c)
           size == batch.size + 1
<1>4. c \in Candidate
  <2> HIDE DEF priority
  <2> QED BY <1>1, <1>3 DEF Candidate
<1> HIDE DEF c
<1>5. merged \in Candidate
  BY <1>1, <1>4, MergeTyped DEF Batch
<1>6. size \in 0..MaxFound
  BY <1>1, CandidatesAssumption DEF Batch
<1>7. batch' = [batch EXCEPT !.size = size, !.found = merged]
  BY <1>2 DEF c
<1> HIDE DEF merged, size
<1>8. batch' \in Batch /\ batch'.pc = "collect" /\ batch'.repo = r
  BY <1>1, <1>5, <1>6, <1>7 DEF Batch
<1> QED BY <1>1, <1>8, BatchStep

LEMMA MergeKeeps ==
    ASSUME CandidatesInv, Merge
    PROVE  CandidatesInv'
<1> DEFINE c == Remerged(batch.found)
<1>1. /\ batch \in Batch /\ batch.pc = "collect" /\ batch.repo \in Repos
      /\ batch.found \in Candidate /\ UNCHANGED <<title, past, now, row, met>>
      /\ batch' = [batch EXCEPT !.pc = "store", !.size = 0, !.found = c]
  BY CandidatesTyped DEF Merge, Batch
<1>2. c \in Candidate /\ 0 \in 0..MaxFound
  BY <1>1, RemergedTyped, CandidatesAssumption
<1> HIDE DEF c
<1>3. batch' \in Batch /\ batch'.pc = "store" /\ batch'.repo = batch.repo /\ batch'.found = c
  BY <1>1, <1>2 DEF Batch
<1> QED BY <1>1, <1>2, <1>3, BatchStep

LEMMA StoreFirstKeeps ==
    ASSUME CandidatesInv, StoreFirst
    PROVE  CandidatesInv'
<1> DEFINE c == batch.found
           r == batch.repo
<1>1. /\ batch \in Batch /\ batch.pc = "store" /\ r \in Repos /\ c \in Candidate
      /\ UNCHANGED <<title, past, now, met>>
      /\ c.name \in Names /\ c.source \in Channels /\ c.at \in Instants /\ c.at \in Int
      /\ c.sources \subseteq Channels /\ c.previous \subseteq Names
  <2>1. /\ batch \in Batch /\ batch.pc = "store" /\ r \in Repos /\ c \in Candidate
        /\ UNCHANGED <<title, past, now, met>>
    BY CandidatesTyped DEF StoreFirst
  <2> QED BY <2>1, CandidatesTyped DEF Candidate
<1>2. ASSUME Upsert(r, c.name, c.source, c.at),
             batch' = [batch EXCEPT !.pc = "rest", !.more = c.sources \ {c.source},
                                    !.names = c.previous \ {row'[r].name}]
      PROVE  CandidatesInv'
  <2> DEFINE more == c.sources \ {c.source}
             names == c.previous \ {row'[r].name}
  <2>1. /\ row' \in [Repos -> RegistryRow \cup {Absent}] /\ NamesApart'
        /\ row'[r] \in RegistryRow /\ Known(row'[r], c.name) /\ c.source \in row'[r].sources
        /\ \A s \in Repos : \A n : Known(row[s], n) => Known(row'[s], n)
    <3> HIDE DEF c, r
    <3> QED BY <1>1, <1>2, UpsertKeeps
  <2>2. more \subseteq Channels /\ names \subseteq Names
    BY <1>1
  <2>3. batch' = [batch EXCEPT !.pc = "rest", !.more = more, !.names = names]
    BY <1>2
  <2>4. c.sources \subseteq row'[r].sources \cup more
    BY <2>1
  <2>5. row'[r] # Absent /\ \A n \in ({c.name} \cup c.previous) \ names : Known(row'[r], n)
    BY <2>1, AbsentIsNoRow DEF Known
  <2> HIDE DEF more, names
  <2>6. /\ batch' \in Batch /\ batch'.pc = "rest" /\ batch'.repo = r /\ batch'.found = c
        /\ batch'.more = more /\ batch'.names = names
    BY <1>1, <2>2, <2>3 DEF Batch
  <2> QED BY <1>1, <2>1, <2>4, <2>5, <2>6, BatchStep
<1>3. CASE batch' = NoBatch /\ UNCHANGED row
  BY <1>1, <1>3, NoBatchTyped, BatchStep
<1> QED BY <1>2, <1>3 DEF StoreFirst

LEMMA StoreSourceKeeps ==
    ASSUME CandidatesInv, NEW source \in Channels, StoreSource(source)
    PROVE  CandidatesInv'
<1> DEFINE c == batch.found
           r == batch.repo
<1>1. /\ batch \in Batch /\ batch.pc = "rest" /\ r \in Repos /\ c \in Candidate
      /\ UNCHANGED <<title, past, now, met>>
      /\ c.name \in Names /\ c.at \in Instants /\ c.at \in Int
      /\ row[r] # Absent
      /\ ~batch.failed => /\ c.sources \subseteq row[r].sources \cup batch.more
                          /\ \A n \in ({c.name} \cup c.previous) \ batch.names : Known(row[r], n)
  <2>1. /\ batch \in Batch /\ batch.pc = "rest" /\ r \in Repos /\ c \in Candidate
        /\ UNCHANGED <<title, past, now, met>>
    BY CandidatesTyped DEF StoreSource
  <2> QED BY <2>1, CandidatesTyped DEF Candidate, CandidatesInv, BatchOK
<1>2. ASSUME Upsert(r, c.name, source, c.at), batch' = [batch EXCEPT !.more = @ \ {source}]
      PROVE  CandidatesInv'
  <2> DEFINE more == batch.more \ {source}
  <2>1. /\ row' \in [Repos -> RegistryRow \cup {Absent}] /\ NamesApart'
        /\ source \in row'[r].sources
        /\ row'[r] # Absent /\ row[r].sources \subseteq row'[r].sources
        /\ \A s \in Repos : \A n : Known(row[s], n) => Known(row'[s], n)
    <3> HIDE DEF c, r
    <3> QED BY <1>1, <1>2, UpsertKeeps
  <2>2. /\ batch' \in Batch /\ batch'.pc = "rest" /\ batch'.repo = r /\ batch'.found = c
        /\ batch'.more = more /\ batch'.names = batch.names /\ batch'.failed = batch.failed
    BY <1>1, <1>2 DEF Batch
  <2>3. ~batch.failed => c.sources \subseteq row'[r].sources \cup more
    BY <1>1, <2>1
  <2>4. ~batch.failed => \A n \in ({c.name} \cup c.previous) \ batch.names : Known(row'[r], n)
    BY <1>1, <2>1
  <2> HIDE DEF c, r, more
  <2> QED BY <1>1, <2>1, <2>2, <2>3, <2>4, BatchStep
<1>3. CASE batch' = [batch EXCEPT !.more = {}, !.failed = TRUE] /\ UNCHANGED row
  <2>1. /\ batch' \in Batch /\ batch'.pc = "rest" /\ batch'.repo = r /\ batch'.found = c
        /\ batch'.failed
    BY <1>1, <1>3 DEF Batch
  <2> HIDE DEF c, r
  <2> QED BY <1>1, <1>3, <2>1, BatchStep
<1> QED BY <1>2, <1>3 DEF StoreSource

LEMMA PreserveNameKeeps ==
    ASSUME CandidatesInv, NEW name \in Names, PreserveName(name)
    PROVE  CandidatesInv'
<1> DEFINE c == batch.found
           r == batch.repo
           at == JustBefore(c, r)
<1>1. /\ batch \in Batch /\ batch.pc = "rest" /\ r \in Repos /\ c \in Candidate
      /\ UNCHANGED <<title, past, now, met>>
      /\ c.source \in Channels /\ c.at \in Int
      /\ row[r] # Absent /\ row[r] \in RegistryRow /\ row[r].last \in Int
      /\ ~batch.failed => /\ c.sources \subseteq row[r].sources \cup batch.more
                          /\ \A n \in ({c.name} \cup c.previous) \ batch.names : Known(row[r], n)
  <2>1. /\ batch \in Batch /\ batch.pc = "rest" /\ r \in Repos /\ c \in Candidate
        /\ UNCHANGED <<title, past, now, met>>
    BY CandidatesTyped DEF PreserveName
  <2>2. row[r] # Absent /\ row[r] \in RegistryRow
    BY <2>1, CandidatesTyped DEF CandidatesInv, BatchOK
  <2>3. row[r].last \in Int
    BY <2>2, CandidatesTyped DEF RegistryRow
  <2>4. c.source \in Channels /\ c.at \in Int
    BY <2>1, CandidatesTyped DEF Candidate
  <2> QED BY <2>1, <2>2, <2>3, <2>4 DEF CandidatesInv, BatchOK
<1>2. ASSUME Upsert(r, name, c.source, at), batch' = [batch EXCEPT !.names = @ \ {name}]
      PROVE  CandidatesInv'
  <2> DEFINE names == batch.names \ {name}
  <2>1. at \in Int /\ at < row[r].last
    BY <1>1 DEF JustBefore
  <2>2. /\ row' \in [Repos -> RegistryRow \cup {Absent}] /\ NamesApart'
        /\ Known(row'[r], name)
        /\ row'[r] # Absent /\ row[r].sources \subseteq row'[r].sources
        /\ \A s \in Repos : \A n : Known(row[s], n) => Known(row'[s], n)
    <3> HIDE DEF c, r, at
    <3> QED BY <1>1, <1>2, <2>1, UpsertKeeps
  <2>3. /\ batch' \in Batch /\ batch'.pc = "rest" /\ batch'.repo = r /\ batch'.found = c
        /\ batch'.more = batch.more /\ batch'.names = names /\ batch'.failed = batch.failed
    BY <1>1, <1>2 DEF Batch
  <2>4. ~batch.failed => c.sources \subseteq row'[r].sources \cup batch.more
    BY <1>1, <2>2
  <2>5. ~batch.failed => \A n \in ({c.name} \cup c.previous) \ names : Known(row'[r], n)
    BY <1>1, <2>2
  <2> HIDE DEF c, r, names
  <2> QED BY <1>1, <2>2, <2>3, <2>4, <2>5, BatchStep
<1>3. CASE batch' = [batch EXCEPT !.names = @ \ {name}, !.failed = TRUE] /\ UNCHANGED row
  <2>1. /\ batch' \in Batch /\ batch'.pc = "rest" /\ batch'.repo = r /\ batch'.found = c
        /\ batch'.failed
    BY <1>1, <1>3 DEF Batch
  <2> HIDE DEF c, r
  <2> QED BY <1>1, <1>3, <2>1, BatchStep
<1> QED BY <1>2, <1>3 DEF PreserveName

LEMMA BatchDoneKeeps ==
    ASSUME CandidatesInv, BatchDone
    PROVE  CandidatesInv'
<1> DEFINE c == batch.found
           r == batch.repo
<1>1. /\ batch \in Batch /\ batch.pc = "rest" /\ r \in Repos /\ c \in Candidate
      /\ UNCHANGED <<title, past, now, row>> /\ batch' = NoBatch /\ batch.names = {}
      /\ ~batch.failed => \A n \in {c.name} \cup c.previous : Known(row[r], n)
  <2>1. /\ batch \in Batch /\ batch.pc = "rest" /\ r \in Repos /\ c \in Candidate
        /\ UNCHANGED <<title, past, now, row>> /\ batch' = NoBatch /\ batch.names = {}
    BY CandidatesTyped DEF BatchDone
  <2> QED BY <2>1 DEF CandidatesInv, BatchOK
<1>2. met' \in {met} \cup {[repo |-> r, name |-> n] :
                          n \in IF batch.failed THEN {} ELSE c.previous \cup {c.name}}
  BY DEF BatchDone
<1>3. met' = met \/ (met' \in [repo : Repos, name : Names] /\ Known(row[met'.repo], met'.name))
  <2> SUFFICES ASSUME ~batch.failed, NEW n \in c.previous \cup {c.name},
                      met' = [repo |-> r, name |-> n]
               PROVE  met' \in [repo : Repos, name : Names] /\ Known(row[met'.repo], met'.name)
    BY <1>2
  <2>1. n \in Names
    BY <1>1 DEF Candidate
  <2>2. met'.repo = r /\ met'.name = n
    OBVIOUS
  <2> QED BY <1>1, <2>1, <2>2
<1> QED BY <1>1, <1>3, NoBatchTyped, BatchStep

LEMMA RefreshKeeps ==
    ASSUME CandidatesInv, NEW r \in Repos, Refresh(r)
    PROVE  CandidatesInv'
<1>1. PICK source \in row[r].sources : Upsert(r, title[r], source, now)
  BY DEF Refresh
<1>2. UNCHANGED <<title, past, now, batch, met>> /\ row[r] # Absent
  BY DEF Refresh
<1>3. source \in Channels /\ title[r] \in Names /\ now \in Instants /\ now \in Int
  BY <1>1, <1>2, CandidatesTyped DEF RegistryRow
<1>4. /\ row' \in [Repos -> RegistryRow \cup {Absent}] /\ NamesApart'
      /\ \A s \in Repos : /\ row[s] # Absent => /\ row'[s] # Absent
                                               /\ row[s].sources \subseteq row'[s].sources
                          /\ \A n : Known(row[s], n) => Known(row'[s], n)
  BY <1>1, <1>3, UpsertKeeps
<1>5. batch' \in Batch /\ (batch.pc # "idle" => batch.repo \in Repos)
      /\ (batch.pc \in {"store", "rest"} => batch.found \in Candidate)
  BY <1>2, CandidatesTyped
<1>6. batch.pc = "rest" =>
         /\ row'[batch.repo] # Absent
         /\ ~batch.failed =>
               /\ batch.found.sources \subseteq row'[batch.repo].sources \cup batch.more
               /\ \A n \in ({batch.found.name} \cup batch.found.previous) \ batch.names :
                     Known(row'[batch.repo], n)
  BY <1>4, <1>5 DEF CandidatesInv, BatchOK
<1> QED BY <1>2, <1>4, <1>5, <1>6, BatchStep

LEMMA CandidatesNext_Inv == CandidatesInv /\ [CandidatesNext]_candidateVars => CandidatesInv'
<1> SUFFICES ASSUME CandidatesInv, [CandidatesNext]_candidateVars PROVE CandidatesInv'
  OBVIOUS
<1>1. CASE AbortBatch
  <2>1. batch' = NoBatch /\ UNCHANGED <<title, past, now, row, met>>
    BY <1>1 DEF AbortBatch
  <2> QED BY <2>1, NoBatchTyped, BatchStep
<1>2. CASE UNCHANGED candidateVars
  BY <1>2 DEF candidateVars, CandidatesInv, CandidatesTypeOK, NamesApart, BatchOK
<1> QED BY <1>1, <1>2, RenameKeeps, StartBatchKeeps, RefreshKeeps, CollectKeeps, StoreSourceKeeps,
           MergeKeeps, StoreFirstKeeps, PreserveNameKeeps, BatchDoneKeeps
        DEF CandidatesNext

LEMMA CandidatesInit_Inv == CandidatesInit => CandidatesInv
<1> SUFFICES ASSUME CandidatesInit PROVE CandidatesInv
  OBVIOUS
<1>1. 0 \in Instants
  <2>1. 0 \in 0..MaxInstant /\ 2 * 0 = 0
    BY CandidatesAssumption
  <2> QED BY <2>1 DEF Instants
<1>2. past \in [Repos -> SUBSET Names] /\ row \in [Repos -> RegistryRow \cup {Absent}]
  BY DEF CandidatesInit
<1>3. batch \in Batch /\ batch.pc = "idle" /\ met = Absent
  BY NoBatchTyped DEF CandidatesInit
<1>4. CandidatesTypeOK
  BY <1>1, <1>2, <1>3 DEF CandidatesTypeOK, CandidatesInit
<1>5. NamesApart
  BY DEF NamesApart, CandidatesInit
<1> QED BY <1>3, <1>4, <1>5 DEF CandidatesInv, BatchOK

(* GitHub, the registry and the discovery stay within their types.         *)
THEOREM CandidatesTypeCorrect == CandidatesSpec => []CandidatesTypeOK
<1>1. CandidatesInv => CandidatesTypeOK
  BY DEF CandidatesInv
<1> QED BY <1>1, CandidatesInit_Inv, CandidatesNext_Inv, PTL DEF CandidatesSpec

(* No two repositories of the registry bear one name, and every name and   *)
(* source under which a candidate was stored without a reported failure    *)
(* can still be found at its repository (MergeCandidates,                  *)
(* UpsertRepository, preservePreviousNames).                               *)
THEOREM IdentityCorrect == CandidatesSpec => []IdentityOutlivesNames
<1>1. ASSUME CandidatesInv PROVE IdentityOutlivesNames
  <2>1. met # Absent => met.name \in {row[met.repo].name} \cup row[met.repo].previous
    BY <1>1 DEF CandidatesInv, Known
  <2>2. \A r \in Repos : row[r] # Absent => NameIsFree(r, row[r].name)
    BY <1>1 DEF CandidatesInv, NamesApart, NameIsFree
  <2>3. batch.pc = "rest" /\ batch.more = {} /\ ~batch.failed
          => batch.found.sources \subseteq row[batch.repo].sources
    BY <1>1 DEF CandidatesInv, BatchOK
  <2> QED BY <2>1, <2>2, <2>3 DEF IdentityOutlivesNames
<1> QED BY <1>1, CandidatesInit_Inv, CandidatesNext_Inv, PTL DEF CandidatesSpec
=============================================================================
