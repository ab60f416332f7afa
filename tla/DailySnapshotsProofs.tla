------------------------ MODULE DailySnapshotsProofs ------------------------
(***************************************************************************)
(* Proofs about DailySnapshots: what holds of the two tables for every     *)
(* number of processes, repositories, days and contents, and what the 304s *)
(* need besides.                                                           *)
(***************************************************************************)
EXTENDS DailySnapshots, DataLemmas

(***************************************************************************)
(* Types.                                                                  *)
(***************************************************************************)
Observation == [at : Instants, source : Sources, etag : Versions, topics : BOOLEAN,
                monitor : Statuses]

(* TypeOK leaves open what holds of the parts of a run or an add that is   *)
(* under way, and of the days that have begun.                             *)
TypeInv ==
    /\ TypeOK
    /\ \A d \in 1..day : opening[d] \in [Repos -> Versions \ {0}]
    /\ \A p \in Runners : ~At(p, "idle") => run[p].left # {} /\ run[p].date \in 1..day
    /\ \A p \in Runners : At(p, "put") => run[p].stars # 0
    /\ \A a \in Adders : add[a] # NoAdd =>
          add[a].repo \in Repos /\ add[a].date \in 1..day /\ add[a].stars # 0

LEMMA Constants ==
    /\ 0 \in Versions /\ 1 \in Versions \ {0}
    /\ 0 \in Instants
    /\ 1 \in Days
    /\ Days \subseteq Nat /\ Versions \subseteq Nat /\ Instants \subseteq Nat
  BY DailySnapshotsAssumption DEF Versions, Instants, Days

LEMMA Nulls ==
    /\ NoRow \in Row
    /\ NoRun \in Run
    /\ NoAdd \in Add
    /\ Missing \in Snapshot /\ Failed \in Snapshot
    /\ \A n \in Versions \ {0} : Success(n) \in Snapshot
<1>1. NoRow \in Row
  BY Constants DEF NoRow, Row, Sources, Statuses
<1>2. NoRun \in Run
  BY <1>1, Constants DEF NoRun, Run
<1>3. NoAdd \in Add
  BY Constants DEF NoAdd, Add
<1>4. \A n \in Versions \ {0} : n \in 1..MaxVersion
  BY DailySnapshotsAssumption DEF Versions
<1> QED BY <1>1, <1>2, <1>3, <1>4 DEF Snapshot

(* An upsert leaves a row. *)
LEMMA UpsertedType ==
    ASSUME NEW row \in Row, NEW o \in Observation
    PROVE  Upserted(row, o) \in Row
<1>1. Created(o) \in Row
  BY DEF Created, Row, Observation
<1>2. MergedETag(row, o) \in Versions
  BY Constants DEF MergedETag, Row, Observation
<1>3. MergedMonitor(row, o) \in Statuses
  BY DEF MergedMonitor, Row, Observation
<1>4. Merged(row, o) \in Row
  BY <1>2, <1>3 DEF Merged, Row, Observation
<1> QED BY <1>1, <1>4 DEF Upserted

LEMMA StoredType ==
    ASSUME NEW old \in Snapshot, NEW new \in Snapshot
    PROVE  Stored(old, new) \in Snapshot
  BY DEF Stored

(* What the actions are made of. *)
LEMMA UpsertType ==
    ASSUME TypeOK, NEW r, NEW o \in Observation, Upsert(r, o)
    PROVE  reg' \in [Repos -> Row]
<1>1. reg' = [reg EXCEPT ![r] = Upserted(reg[r], o)]
  BY DEF Upsert
<1> QED BY <1>1, UpsertedType DEF TypeOK

LEMMA PutType ==
    ASSUME TypeOK, NEW r \in Repos, NEW d \in Days, NEW s \in Snapshot, PutSnapshot(r, d, s)
    PROVE  snap' \in [Repos -> [Days -> Snapshot]]
<1>1. snap' = [snap EXCEPT ![r] = [snap[r] EXCEPT ![d] = Stored(snap[r][d], s)]]
  BY DEF PutSnapshot
<1>2. Stored(snap[r][d], s) \in Snapshot
  BY StoredType DEF TypeOK
<1>3. [snap[r] EXCEPT ![d] = Stored(snap[r][d], s)] \in [Days -> Snapshot]
  BY <1>2 DEF TypeOK
<1> QED BY <1>1, <1>3 DEF TypeOK

(* A run works at a repository of its list. *)
LEMMA CurrentIsLeft ==
    ASSUME TypeInv, NEW p \in Runners, ~At(p, "idle")
    PROVE  /\ Current(p) \in run[p].left
           /\ Current(p) \in Repos
           /\ run[p].date \in Days
           /\ run[p].copy[Current(p)] \in Row
<1>1. run[p] \in Run /\ run[p].left # {} /\ run[p].date \in 1..day
  BY DEF TypeInv, TypeOK
<1>2. run[p].left \in SUBSET Repos /\ run[p].copy \in [Repos -> Row]
  BY <1>1 DEF Run
<1>3. run[p].left \in SUBSET Nat
  BY <1>2, DailySnapshotsAssumption
<1>4. Current(p) \in run[p].left
  BY <1>1, <1>3, MinIsLeast DEF Current
<1>5. run[p].date \in Days
  BY <1>1, DailySnapshotsAssumption DEF TypeInv, TypeOK, Days
<1> QED BY <1>2, <1>4, <1>5

(* A step that changes the run of p, a table or both. *)
LEMMA RunUpdateType ==
    ASSUME TypeInv, NEW p \in Runners, NEW x \in Run,
           run' = [run EXCEPT ![p] = x],
           x.pc # "idle" => x.left # {} /\ x.date \in 1..day,
           x.pc = "put" => x.stars # 0,
           reg' \in [Repos -> Row], snap' \in [Repos -> [Days -> Snapshot]],
           UNCHANGED <<world, now, add, imported>>
    PROVE  TypeInv'
<1>1. run' \in [Runners -> Run]
  BY DEF TypeInv, TypeOK
<1>2. TypeOK'
  BY <1>1 DEF TypeInv, TypeOK, world
<1>3. \A q \in Runners : ~At(q, "idle")' => run'[q].left # {} /\ run'[q].date \in 1..day'
  BY DEF TypeInv, TypeOK, At, world
<1>4. \A q \in Runners : At(q, "put")' => run'[q].stars # 0
  BY DEF TypeInv, TypeOK, At
<1> QED BY <1>2, <1>3, <1>4 DEF TypeInv, world

LEMMA NextRepositoryType ==
    ASSUME TypeInv, NEW p \in Runners, ~At(p, "idle"), NextRepository(p),
           reg' \in [Repos -> Row], snap' \in [Repos -> [Days -> Snapshot]],
           UNCHANGED <<world, now, add, imported>>
    PROVE  TypeInv'
<1> DEFINE rest == run[p].left \ {Current(p)}
           x == IF rest = {} THEN NoRun
                ELSE [NoRun EXCEPT !.pc = "lookup", !.date = run[p].date,
                                   !.left = rest, !.copy = run[p].copy]
<1>1. run' = [run EXCEPT ![p] = x]
  BY DEF NextRepository
<1>2. run[p] \in Run /\ run[p].date \in 1..day
  BY DEF TypeInv, TypeOK
<1>3. x \in Run
  <2>1. run[p].date \in Days \cup {0} /\ rest \subseteq Repos /\ run[p].copy \in [Repos -> Row]
    BY <1>2 DEF Run
  <2>2. [NoRun EXCEPT !.pc = "lookup", !.date = run[p].date, !.left = rest, !.copy = run[p].copy] \in Run
    BY <2>1, Nulls DEF Run
  <2> QED BY <2>2, Nulls
<1>4. x.pc # "idle" => x.left # {} /\ x.date \in 1..day
  BY <1>2 DEF NoRun
<1>5. x.pc # "put"
  BY DEF NoRun
<1> QED BY ONLY <1>1, <1>3, <1>4, <1>5, RunUpdateType, TypeInv, p \in Runners,
        reg' \in [Repos -> Row], snap' \in [Repos -> [Days -> Snapshot]],
        UNCHANGED <<world, now, add, imported>>

(* A run that goes on with the same repository. *)
LEMMA StepType ==
    ASSUME TypeInv, NEW p \in Runners, ~At(p, "idle"), NEW x \in Run,
           run' = [run EXCEPT ![p] = x],
           x.left = run[p].left, x.date = run[p].date,
           x.pc = "put" => x.stars # 0,
           reg' \in [Repos -> Row], snap' \in [Repos -> [Days -> Snapshot]],
           UNCHANGED <<world, now, add, imported>>
    PROVE  TypeInv'
<1>1. x.left # {} /\ x.date \in 1..day
  BY DEF TypeInv
<1> QED BY <1>1, RunUpdateType

LEMMA RunStepType ==
    ASSUME TypeInv, NEW p \in Runners, RunStep(p)
    PROVE  TypeInv'
<1>1. run[p] \in Run
  BY DEF TypeInv, TypeOK
<1>2. reg \in [Repos -> Row] /\ snap \in [Repos -> [Days -> Snapshot]]
  BY DEF TypeInv, TypeOK
<1>3. CASE Begin(p)
  <2> DEFINE active == {r \in Repos : Known(r) /\ reg[r].monitor = "active"}
             x == [NoRun EXCEPT !.pc = "lookup", !.date = day, !.left = active, !.copy = reg]
  <2>1. active # {} /\ run' = [run EXCEPT ![p] = x]
    BY <1>3 DEF Begin
  <2>2. day \in Days \cup {0} /\ day \in 1..day
    BY DEF TypeInv, TypeOK, Days
  <2>3. x \in Run
    BY <1>2, <2>2, Nulls DEF Run
  <2>4. x.pc = "lookup" /\ x.left = active /\ x.date = day
    BY DEF NoRun
  <2>5. reg' = reg /\ snap' = snap /\ UNCHANGED <<world, now, add, imported>>
    BY <1>3 DEF Begin
  <2> HIDE DEF x
  <2> QED BY <1>2, <2>1, <2>2, <2>3, <2>4, <2>5, RunUpdateType
<1>4. CASE Lookup(p)
  <2> DEFINE x == [run[p] EXCEPT !.pc = "condition"]
  <2>1. x \in Run /\ run' = [run EXCEPT ![p] = x] /\ x.pc = "condition"
        /\ x.left = run[p].left /\ x.date = run[p].date
    BY <1>1, <1>4 DEF Lookup, Goto, Run
  <2>2. ~At(p, "idle") /\ reg' = reg /\ snap' = snap /\ UNCHANGED <<world, now, add, imported>>
    BY <1>4 DEF Lookup, At
  <2> HIDE DEF x
  <2> QED BY <1>2, <2>1, <2>2, StepType
<1>5. CASE Condition(p)
  <2> DEFINE x == [run[p] EXCEPT !.pc = "fetch", !.sent = SafeETag(p)]
  <2>1. ~At(p, "idle") /\ reg' = reg /\ snap' = snap /\ UNCHANGED <<world, now, add, imported>>
    BY <1>5 DEF Condition, At
  <2>2. SafeETag(p) \in Versions
    BY <2>1, CurrentIsLeft, Constants DEF SafeETag, Row
  <2>3. x \in Run /\ run' = [run EXCEPT ![p] = x] /\ x.pc = "fetch"
        /\ x.left = run[p].left /\ x.date = run[p].date
    BY <1>1, <1>5, <2>2 DEF Condition, Run
  <2> HIDE DEF x
  <2> QED BY <1>2, <2>1, <2>3, StepType
<1>6. CASE Fetch(p)
  <2> DEFINE v == version[Current(p)]
  <2>1. ~At(p, "idle") /\ reg' = reg /\ snap' = snap /\ UNCHANGED <<world, now, add, imported>>
    BY <1>6 DEF Fetch, At
  <2>2. v \in Versions \ {0}
    BY <2>1, CurrentIsLeft DEF TypeInv, TypeOK
  <2>3. PICK x \in Run : /\ run' = [run EXCEPT ![p] = x]
                         /\ x.left = run[p].left /\ x.date = run[p].date
                         /\ x.pc = "put" => x.stars # 0
    <3>1. CASE run' = [run EXCEPT ![p].pc = "baseline", ![p].etag = v]
      <4> DEFINE x == [run[p] EXCEPT !.pc = "baseline", !.etag = v]
      <4>1. /\ x \in Run /\ run' = [run EXCEPT ![p] = x]
            /\ x.left = run[p].left /\ x.date = run[p].date
            /\ x.pc = "put" => x.stars # 0
        BY <1>1, <2>2, <3>1 DEF Run
      <4> HIDE DEF x
      <4> QED BY <4>1
    <3>2. ASSUME NEW topics \in TopicsSent,
                 run' = [run EXCEPT ![p].pc = "put", ![p].etag = v, ![p].stars = v, ![p].topics = topics]
          PROVE  \E x \in Run : /\ run' = [run EXCEPT ![p] = x]
                                /\ x.left = run[p].left /\ x.date = run[p].date
                                /\ x.pc = "put" => x.stars # 0
      <4>1. topics \in BOOLEAN
        BY DailySnapshotsAssumption
      <4> DEFINE x == [run[p] EXCEPT !.pc = "put", !.etag = v, !.stars = v, !.topics = topics]
      <4>2. /\ x \in Run /\ run' = [run EXCEPT ![p] = x]
            /\ x.left = run[p].left /\ x.date = run[p].date
            /\ x.pc = "put" => x.stars # 0
        BY <1>1, <2>2, <4>1, <3>2 DEF Run
      <4> HIDE DEF x
      <4> QED BY <4>2
    <3>3. ASSUME NEW error \in {"blocked", "mismatch", "other"},
                 run' = [run EXCEPT ![p].pc = "failure", ![p].error = error]
          PROVE  \E x \in Run : /\ run' = [run EXCEPT ![p] = x]
                                /\ x.left = run[p].left /\ x.date = run[p].date
                                /\ x.pc = "put" => x.stars # 0
      <4> DEFINE x == [run[p] EXCEPT !.pc = "failure", !.error = error]
      <4>1. /\ x \in Run /\ run' = [run EXCEPT ![p] = x]
            /\ x.left = run[p].left /\ x.date = run[p].date
            /\ x.pc = "put" => x.stars # 0
        BY <1>1, <3>3 DEF Run
      <4> HIDE DEF x
      <4> QED BY <4>1
    <3> QED BY <1>6, <3>1, <3>2, <3>3 DEF Fetch
  <2> QED BY <1>2, <2>1, <2>3, StepType
<1>7. CASE Baseline(p)
  <2>1. ~At(p, "idle") /\ reg' = reg /\ snap' = snap /\ UNCHANGED <<world, now, add, imported>>
    BY <1>7 DEF Baseline, At
  <2>2. PICK x \in Run : /\ run' = [run EXCEPT ![p] = x]
                         /\ x.left = run[p].left /\ x.date = run[p].date
                         /\ x.pc = "put" => x.stars # 0
    <3>1. ASSUME NEW d \in LatestSuccess(Current(p), run[p].date - 1),
                 run' = [run EXCEPT ![p].pc = "put", ![p].stars = snap[Current(p)][d].stars]
          PROVE  \E x \in Run : /\ run' = [run EXCEPT ![p] = x]
                                /\ x.left = run[p].left /\ x.date = run[p].date
                                /\ x.pc = "put" => x.stars # 0
      <4> DEFINE n == snap[Current(p)][d].stars
      <4>1. snap[Current(p)][d] \in Snapshot /\ snap[Current(p)][d].status = "success"
        BY <1>2, <2>1, CurrentIsLeft DEF LatestSuccess
      <4>2. n \in Versions /\ n # 0
        BY <4>1, DailySnapshotsAssumption DEF Snapshot, Missing, Failed, Success, Versions
      <4> HIDE DEF n
      <4> DEFINE x == [run[p] EXCEPT !.pc = "put", !.stars = n]
      <4>3. /\ x \in Run /\ run' = [run EXCEPT ![p] = x]
            /\ x.left = run[p].left /\ x.date = run[p].date
            /\ x.pc = "put" => x.stars # 0
        BY <1>1, <4>2, <3>1 DEF Run, n
      <4> HIDE DEF x
      <4> QED BY <4>3
    <3>2. CASE run' = [run EXCEPT ![p].pc = "failure", ![p].error = "other"]
      <4> DEFINE x == [run[p] EXCEPT !.pc = "failure", !.error = "other"]
      <4>1. /\ x \in Run /\ run' = [run EXCEPT ![p] = x]
            /\ x.left = run[p].left /\ x.date = run[p].date
            /\ x.pc = "put" => x.stars # 0
        BY <1>1, <3>2 DEF Run
      <4> HIDE DEF x
      <4> QED BY <4>1
    <3> QED BY <1>7, <3>1, <3>2 DEF Baseline
  <2> QED BY <1>2, <2>1, <2>2, StepType
<1>8. CASE Put(p)
  <2> DEFINE x == [run[p] EXCEPT !.pc = "register"]
  <2>1. x \in Run /\ run' = [run EXCEPT ![p] = x] /\ x.pc = "register"
        /\ x.left = run[p].left /\ x.date = run[p].date
    BY <1>1, <1>8 DEF Put, Goto, Run
  <2>2. ~At(p, "idle") /\ At(p, "put") /\ reg' = reg /\ UNCHANGED <<world, now, add, imported>>
    BY <1>8 DEF Put, At
  <2>3. Success(run[p].stars) \in Snapshot
    BY <1>1, <2>2, Nulls DEF TypeInv, Run
  <2>4. snap' \in [Repos -> [Days -> Snapshot]]
    BY <1>8, <2>2, <2>3, CurrentIsLeft, PutType DEF Put, TypeInv
  <2> HIDE DEF x
  <2> QED BY <1>2, <2>1, <2>2, <2>4, StepType
<1>9. CASE Register(p)
  <2> DEFINE old == run[p].copy[Current(p)]
             o == [at |-> old.seen, source |-> old.source, etag |-> run[p].etag,
                   topics |-> run[p].topics, monitor |-> old.monitor]
  <2>1. ~At(p, "idle") /\ snap' = snap /\ UNCHANGED <<world, now, add, imported>>
    BY <1>9 DEF Register, At
  <2>2. o \in Observation
    BY <1>1, <2>1, CurrentIsLeft DEF Observation, Run, Row
  <2>3. reg' \in [Repos -> Row]
    <3>1. Upsert(Current(p), o)
      BY <1>9 DEF Register
    <3> HIDE DEF o
    <3> QED BY <2>2, <3>1, UpsertType DEF TypeInv
  <2> QED BY <1>2, <1>9, <2>1, <2>3, NextRepositoryType DEF Register
<1>10. CASE Skip(p)
  <2>1. ~At(p, "idle") /\ reg' = reg /\ snap' = snap /\ UNCHANGED <<world, now, add, imported>>
    BY <1>10 DEF Skip, At
  <2> QED BY <1>2, <1>10, <2>1, NextRepositoryType DEF Skip
<1>11. CASE RecordFailure(p)
  <2>1. ~At(p, "idle") /\ reg' = reg /\ UNCHANGED <<world, now, add, imported>>
    BY <1>11 DEF RecordFailure, At
  <2>2. snap' \in [Repos -> [Days -> Snapshot]]
    <3>1. \A r \in Repos : [snap[r] EXCEPT ![run[p].date] = Stored(@, Failed)] \in [Days -> Snapshot]
      BY <1>2, <2>1, CurrentIsLeft, StoredType, Nulls
    <3> QED BY <1>2, <1>11, <3>1 DEF RecordFailure
  <2>3. CASE Goto(p, "stop")
    <3> DEFINE x == [run[p] EXCEPT !.pc = "stop"]
    <3>1. x \in Run /\ run' = [run EXCEPT ![p] = x] /\ x.pc = "stop"
          /\ x.left = run[p].left /\ x.date = run[p].date
      BY <1>1, <2>3 DEF Goto, Run
    <3> HIDE DEF x
    <3> QED BY <1>2, <2>1, <2>2, <3>1, StepType
  <2>4. CASE run' = [run EXCEPT ![p] = NoRun]
    <3>1. NoRun.pc = "idle"
      BY DEF NoRun
    <3> QED BY <1>2, <2>1, <2>2, <2>4, <3>1, Nulls, RunUpdateType
  <2>5. CASE NextRepository(p)
    BY <1>2, <2>1, <2>2, <2>5, NextRepositoryType
  <2> QED BY <1>11, <2>3, <2>4, <2>5 DEF RecordFailure
<1>12. CASE StopMonitoring(p)
  <2>1. ~At(p, "idle") /\ snap' = snap /\ UNCHANGED <<world, now, add, imported>>
    BY <1>12 DEF StopMonitoring, At
  <2>2. reg' \in [Repos -> Row]
    BY <1>2, <1>12 DEF StopMonitoring, Row, Statuses
  <2> QED BY <1>2, <1>12, <2>1, <2>2, NextRepositoryType DEF StopMonitoring
<1>13. CASE Abort(p)
  <2>1. run' = [run EXCEPT ![p] = NoRun] /\ reg' = reg /\ snap' = snap
        /\ UNCHANGED <<world, now, add, imported>>
    BY <1>13 DEF Abort
  <2>2. NoRun.pc = "idle"
    BY DEF NoRun
  <2> QED BY <1>2, <2>1, <2>2, Nulls, RunUpdateType
<1> QED BY <1>3, <1>4, <1>5, <1>6, <1>7, <1>8, <1>9, <1>10, <1>11, <1>12, <1>13 DEF RunStep

(* The other writers. *)
LEMMA ImportObservationType ==
    ASSUME TypeInv, NEW r \in Repos, ImportObservation(r)
    PROVE  TypeInv'
<1>0. PICK d \in 1..day : \E stars \in ContentsOf(r, d) : PutSnapshot(r, d, Success(stars))
  BY DEF ImportObservation
<1>1. PICK stars \in ContentsOf(r, d) : PutSnapshot(r, d, Success(stars))
  BY <1>0
<1>2. opening[d][r] \in Versions \ {0} /\ version[r] \in Versions
  BY DEF TypeInv, TypeOK
<1>3. d < day => opening[d + 1][r] \in Versions
  BY DEF TypeInv, TypeOK, Days
<1>4. stars \in Versions \ {0}
  BY <1>2, <1>3, DailySnapshotsAssumption DEF ContentsOf, Versions
<1>5. d \in Days
  BY DailySnapshotsAssumption DEF TypeInv, TypeOK, Days
<1>6. snap' \in [Repos -> [Days -> Snapshot]]
  BY <1>1, <1>4, <1>5, Nulls, PutType DEF TypeInv
<1> QED BY <1>6 DEF ImportObservation, TypeInv, TypeOK, world, At

LEMMA RepositoryStepType ==
    ASSUME TypeInv, NEW r \in Repos,
           \/ Change(r) \/ Discover(r) \/ WatchAdd(r) \/ Pause(r) \/ Resume(r)
           \/ FillTopics(r) \/ ImportLegacy(r) \/ ImportObservation(r)
           \/ \E a \in Adders : Resolve(a, r)
    PROVE  TypeInv'
<1>0. TypeOK /\ reg \in [Repos -> Row] /\ now \in Instants /\ 0 \in Versions
  BY Constants DEF TypeInv, TypeOK
<1>1. CASE Change(r)
  <2>1. version[r] + 1 \in Versions \ {0}
    BY <1>1, DailySnapshotsAssumption DEF Change, TypeInv, TypeOK, Versions
  <2> QED BY <1>1, <2>1 DEF Change, TypeInv, TypeOK, At
<1>2. CASE Discover(r)
  <2>1. PICK at \in 1..(now + 1), source \in {"found", "watchlist"}, topics \in TopicsSent,
             monitor \in Statuses :
             LET o == [at |-> at, source |-> source, etag |-> 0, topics |-> topics,
                       monitor |-> monitor]
             IN  /\ at <= MaxInstant
                 /\ now' = IF at > now THEN at ELSE now
                 /\ \/ Upsert(r, o)
                    \/ /\ source = "found"
                       /\ reg' = [reg EXCEPT ![r] =
                                     Upserted(Upserted(@, o), [o EXCEPT !.source = "manual"])]
    BY <1>2 DEF Discover
  <2> DEFINE o == [at |-> at, source |-> source, etag |-> 0, topics |-> topics,
                   monitor |-> monitor]
             m == [o EXCEPT !.source = "manual"]
  <2>2. at \in Instants /\ now' \in Instants
    BY <1>0, <2>1 DEF Instants
  <2>3. topics \in BOOLEAN
    BY DailySnapshotsAssumption
  <2>4. o \in Observation /\ m \in Observation
    BY <1>0, <2>2, <2>3 DEF Observation, Sources
  <2>5. Upsert(r, o) \/ reg' = [reg EXCEPT ![r] = Upserted(Upserted(reg[r], o), m)]
    BY <2>1
  <2> HIDE DEF o, m
  <2>6. Upserted(Upserted(reg[r], o), m) \in Row
    BY <1>0, <2>4, UpsertedType
  <2>7. reg' \in [Repos -> Row]
    BY <1>0, <2>4, <2>5, <2>6, UpsertType
  <2> QED BY <1>2, <2>2, <2>7 DEF Discover, TypeInv, TypeOK, world, At
<1>3. CASE WatchAdd(r)
  <2>1. PICK topics \in TopicsSent :
             Upsert(r, [at |-> now + 1, source |-> "manual", etag |-> 0, topics |-> topics,
                        monitor |-> "active"])
    BY <1>3 DEF WatchAdd
  <2>2. now + 1 \in Instants
    BY <1>0, <1>3, DailySnapshotsAssumption DEF WatchAdd, Draw, Instants
  <2>3. [at |-> now + 1, source |-> "manual", etag |-> 0, topics |-> topics,
         monitor |-> "active"] \in Observation
    BY <1>0, <2>2, DailySnapshotsAssumption DEF Observation, Sources, Statuses
  <2>4. reg' \in [Repos -> Row]
    BY <1>0, <2>1, <2>3, UpsertType
  <2> QED BY <1>3, <2>2, <2>4 DEF WatchAdd, Draw, TypeInv, TypeOK, world, At
<1>4. ASSUME NEW status \in Statuses, SetMonitoring(r, status) PROVE TypeInv'
  <2>1. reg' \in [Repos -> Row]
    BY <1>0, <1>4 DEF SetMonitoring, Row
  <2> QED BY <1>4, <2>1 DEF SetMonitoring, TypeInv, TypeOK, world, At
<1>5. CASE Pause(r) \/ Resume(r)
  BY <1>4, <1>5 DEF Pause, Resume, Statuses
<1>6. CASE FillTopics(r)
  <2>1. reg' \in [Repos -> Row]
    BY <1>0, <1>6 DEF FillTopics, Row
  <2> QED BY <1>6, <2>1 DEF FillTopics, TypeInv, TypeOK, world, At
<1>7. CASE ImportLegacy(r)
  <2>1. PICK at \in 1..(now + 1), etag \in 0..version[r], topics \in BOOLEAN,
             monitor \in Statuses :
             /\ at <= MaxInstant
             /\ now' = IF at > now THEN at ELSE now
             /\ Upsert(r, [at |-> at, source |-> "found", etag |-> etag, topics |-> topics,
                           monitor |-> monitor])
    BY <1>7 DEF ImportLegacy
  <2>2. at \in Instants /\ now' \in Instants
    BY <1>0, <2>1 DEF Instants
  <2>3. etag \in Versions
    BY DailySnapshotsAssumption DEF TypeInv, TypeOK, Versions
  <2>4. [at |-> at, source |-> "found", etag |-> etag, topics |-> topics,
         monitor |-> monitor] \in Observation
    BY <2>2, <2>3 DEF Observation, Sources
  <2>5. reg' \in [Repos -> Row]
    BY <1>0, <2>1, <2>4, UpsertType
  <2>6. imported' \subseteq Repos
    BY <1>7 DEF ImportLegacy, TypeInv, TypeOK
  <2> QED BY <1>7, <2>2, <2>5, <2>6 DEF ImportLegacy, TypeInv, TypeOK, world, At
<1>8. CASE ImportObservation(r)
  BY <1>8, ImportObservationType
<1>9. ASSUME NEW a \in Adders, Resolve(a, r) PROVE TypeInv'
  <2>1. PICK topics \in TopicsSent :
             add' = [add EXCEPT ![a] = [repo |-> r, at |-> now + 1, date |-> day,
                                        stars |-> version[r], topics |-> topics]]
    BY <1>9 DEF Resolve
  <2> DEFINE x == [repo |-> r, at |-> now + 1, date |-> day, stars |-> version[r],
                   topics |-> topics]
  <2>2. now + 1 \in Instants
    BY <1>0, <1>9, DailySnapshotsAssumption DEF Resolve, Draw, Instants
  <2>3. version[r] \in Versions \ {0} /\ day \in Days /\ day \in 1..day
    BY DEF TypeInv, TypeOK, Days
  <2>4. x \in Add /\ x.repo \in Repos /\ x.date \in 1..day /\ x.stars # 0
    BY <2>2, <2>3, DailySnapshotsAssumption DEF Add
  <2>5. add' = [add EXCEPT ![a] = x]
    BY <2>1
  <2> HIDE DEF x
  <2>6. add' \in [Adders -> Add]
    BY <2>4, <2>5 DEF TypeInv, TypeOK
  <2>7. \A b \in Adders : add'[b] # NoAdd =>
           add'[b].repo \in Repos /\ add'[b].date \in 1..day /\ add'[b].stars # 0
    BY <2>4, <2>5 DEF TypeInv, TypeOK
  <2>8. now' \in Instants /\ UNCHANGED <<world, reg, snap, run, imported>>
    BY <1>9, <2>2 DEF Resolve, Draw
  <2> QED BY <2>6, <2>7, <2>8 DEF TypeInv, TypeOK, world, At
<1> QED BY <1>1, <1>2, <1>3, <1>5, <1>6, <1>7, <1>8, <1>9

LEMMA StoreAddType ==
    ASSUME TypeInv, NEW a \in Adders, StoreAdd(a)
    PROVE  TypeInv'
<1>1. /\ add[a] \in Add /\ add[a].repo \in Repos /\ add[a].date \in 1..day /\ add[a].stars # 0
      /\ add[a].date \in Days
  BY DailySnapshotsAssumption DEF StoreAdd, TypeInv, TypeOK, Days
<1>2. reg' \in [Repos -> Row] /\ snap' \in [Repos -> [Days -> Snapshot]]
  <2> DEFINE o == [at |-> add[a].at, source |-> "manual", etag |-> 0, topics |-> add[a].topics,
                   monitor |-> "active"]
  <2>1. CASE Upsert(add[a].repo, o) /\ PutSnapshot(add[a].repo, add[a].date, Success(add[a].stars))
    <3>1. o \in Observation
      BY <1>1, Constants DEF Add, Observation, Sources, Statuses
    <3>2. Success(add[a].stars) \in Snapshot
      BY <1>1, Nulls DEF Add
    <3> HIDE DEF o
    <3> QED BY <1>1, <2>1, <3>1, <3>2, UpsertType, PutType DEF TypeInv
  <2>2. CASE UNCHANGED <<reg, snap>>
    BY <2>2 DEF TypeInv, TypeOK
  <2> QED BY <2>1, <2>2 DEF StoreAdd
<1>3. add' = [add EXCEPT ![a] = NoAdd] /\ UNCHANGED <<world, now, run, imported>>
  BY DEF StoreAdd
<1>4. add' \in [Adders -> Add]
  BY <1>3, Nulls DEF TypeInv, TypeOK
<1>5. \A b \in Adders : add'[b] # NoAdd =>
         add'[b].repo \in Repos /\ add'[b].date \in 1..day /\ add'[b].stars # 0
  BY <1>3 DEF TypeInv, TypeOK
<1> QED BY <1>2, <1>3, <1>4, <1>5 DEF TypeInv, TypeOK, world, At

LEMMA MidnightType ==
    ASSUME TypeInv, Midnight
    PROVE  TypeInv'
<1>1. day + 1 \in Days /\ day \in Nat
  BY DailySnapshotsAssumption DEF Midnight, TypeInv, TypeOK, Days
<1>2. opening' = [opening EXCEPT ![day + 1] = version] /\ day' = day + 1
      /\ UNCHANGED <<version, now, reg, snap, run, add, imported>>
  BY DEF Midnight
<1>3. opening' \in [Days -> [Repos -> Versions]]
  BY <1>2 DEF TypeInv, TypeOK
<1>4. \A d \in 1..day' : opening'[d] \in [Repos -> Versions \ {0}]
  <2> TAKE d \in 1..day'
  <2>1. d = day + 1 \/ d \in 1..day
    BY <1>1, <1>2
  <2>2. d \in Days
    BY <1>1, <1>2, DailySnapshotsAssumption DEF Days
  <2> QED BY <1>1, <1>2, <2>1, <2>2 DEF TypeInv, TypeOK
<1>5. \A d \in 1..day : d \in 1..day'
  BY <1>1, <1>2
<1> QED BY <1>1, <1>2, <1>3, <1>4, <1>5 DEF TypeInv, TypeOK, At

LEMMA TypeInvHolds == Spec => []TypeInv
<1>1. Init => TypeInv
  <2> SUFFICES ASSUME Init PROVE TypeInv
    OBVIOUS
  <2>1. TypeOK
    <3>1. version \in [Repos -> Versions \ {0}] /\ day \in Days /\ now \in Instants
      BY Constants DEF Init
    <3>2. opening \in [Days -> [Repos -> Versions]]
      BY Constants DEF Init
    <3>3. reg \in [Repos -> Row] /\ snap \in [Repos -> [Days -> Snapshot]]
          /\ run \in [Runners -> Run] /\ add \in [Adders -> Add] /\ imported \subseteq Repos
      BY Nulls DEF Init
    <3> QED BY <3>1, <3>2, <3>3 DEF TypeOK
  <2>2. \A d \in 1..day : opening[d] \in [Repos -> Versions \ {0}]
    BY Constants DEF Init
  <2>3. \A p \in Runners : At(p, "idle")
    BY DEF Init, At, NoRun
  <2>4. \A a \in Adders : add[a] = NoAdd
    BY DEF Init
  <2> QED BY <2>1, <2>2, <2>3, <2>4 DEF TypeInv, At
<1>2. TypeInv /\ [Next]_vars => TypeInv'
  <2> SUFFICES ASSUME TypeInv, [Next]_vars PROVE TypeInv'
    OBVIOUS
  <2>1. CASE UNCHANGED vars
    BY <2>1 DEF TypeInv, TypeOK, vars, At
  <2> QED BY <2>1, MidnightType, RepositoryStepType, StoreAddType, RunStepType DEF Next
<1> QED BY <1>1, <1>2, PTL DEF Spec

(* The tables, the runs and the adds in flight keep their types. *)
THEOREM TypeCorrect == Spec => []TypeOK
  BY TypeInvHolds, PTL DEF TypeInv

(***************************************************************************)
(* The snapshot table: what one step does to the row of a day.             *)
(***************************************************************************)

(* PutDailySnapshot changes one row, and only one that is no success. *)
LEMMA PutChanges ==
    ASSUME TypeOK, NEW r \in Repos, NEW d \in Days, NEW n, PutSnapshot(r, d, Success(n)),
           NEW q \in Repos, NEW e \in Days, snap'[q][e] # snap[q][e]
    PROVE  q = r /\ e = d /\ snap[q][e].status # "success" /\ snap'[q][e] = Success(n)
<1>1. snap' = [snap EXCEPT ![r] = [snap[r] EXCEPT ![d] = Stored(snap[r][d], Success(n))]]
  BY DEF PutSnapshot
<1>2. q = r /\ e = d
  BY <1>1 DEF TypeOK
<1>3. snap'[q][e] = Stored(snap[q][e], Success(n))
  BY <1>1, <1>2 DEF TypeOK
<1> QED BY <1>2, <1>3 DEF Stored, Success

(* Every writer inserts a row, repairs a failure or records one for the    *)
(* repository a run is at.                                                 *)
LEMMA SnapshotStep ==
    ASSUME TypeInv, [Next]_vars, NEW r \in Repos, NEW d \in Days, snap'[r][d] # snap[r][d]
    PROVE  /\ snap[r][d].status # "success"
           /\ \/ \E n \in Versions : snap'[r][d] = Success(n)
              \/ /\ snap'[r][d] = Failed
                 /\ \E p \in Runners : At(p, "failure") /\ run[p].date = d /\ Current(p) = r
<1>0. TypeOK /\ snap' # snap
  BY DEF TypeInv
<1>1. CASE \E a \in Adders : StoreAdd(a)
  <2>1. PICK a \in Adders : StoreAdd(a)
    BY <1>1
  <2>2. add[a].repo \in Repos /\ add[a].date \in Days /\ add[a].stars \in Versions
    BY <2>1, DailySnapshotsAssumption DEF StoreAdd, TypeInv, TypeOK, Days, Add
  <2>3. PutSnapshot(add[a].repo, add[a].date, Success(add[a].stars))
    BY <1>0, <2>1 DEF StoreAdd
  <2> QED BY <1>0, <2>2, <2>3, PutChanges
<1>2. CASE \E q \in Repos : ImportObservation(q)
  <2>1. PICK q \in Repos, e \in 1..day : \E stars \in ContentsOf(q, e) :
                PutSnapshot(q, e, Success(stars))
    BY <1>2 DEF ImportObservation
  <2>2. PICK stars \in ContentsOf(q, e) : PutSnapshot(q, e, Success(stars))
    BY <2>1
  <2>3. opening[e][q] \in Versions \ {0} /\ version[q] \in Versions
    BY DEF TypeInv, TypeOK
  <2>4. e < day => opening[e + 1][q] \in Versions
    BY DEF TypeInv, TypeOK, Days
  <2>5. stars \in Versions
    BY <2>3, <2>4, DailySnapshotsAssumption DEF ContentsOf, Versions
  <2>6. e \in Days
    BY DailySnapshotsAssumption DEF TypeInv, TypeOK, Days
  <2> QED BY <1>0, <2>2, <2>5, <2>6, PutChanges
<1>3. CASE \E p \in Runners : Put(p)
  <2>1. PICK p \in Runners : Put(p)
    BY <1>3
  <2>2. Current(p) \in Repos /\ run[p].date \in Days /\ run[p].stars \in Versions
    BY <2>1, CurrentIsLeft DEF Put, At, TypeInv, TypeOK, Run
  <2> QED BY <1>0, <2>1, <2>2, PutChanges DEF Put
<1>4. CASE \E p \in Runners : RecordFailure(p)
  <2>1. PICK p \in Runners : RecordFailure(p)
    BY <1>4
  <2>2. Current(p) \in Repos /\ run[p].date \in Days /\ At(p, "failure")
    BY <2>1, CurrentIsLeft DEF RecordFailure, At
  <2>3. snap' = [q \in Repos |-> IF q = Current(p)
                                 THEN [snap[q] EXCEPT ![run[p].date] = Stored(snap[q][run[p].date], Failed)]
                                 ELSE snap[q]]
    BY <1>0, <2>1 DEF RecordFailure, FailedRows
  <2>4. r = Current(p) /\ d = run[p].date
    BY <2>3 DEF TypeInv, TypeOK
  <2>5. snap'[r][d] = Stored(snap[r][d], Failed)
    BY <2>3, <2>4 DEF TypeInv, TypeOK
  <2> QED BY <2>2, <2>4, <2>5 DEF Stored, Failed
<1>5. CASE /\ ~ \E a \in Adders : StoreAdd(a)
           /\ ~ \E q \in Repos : ImportObservation(q)
           /\ ~ \E p \in Runners : Put(p) \/ RecordFailure(p)
  <2>1. UNCHANGED snap
    BY <1>5 DEF Next, vars, Midnight, Change, Discover, WatchAdd, Pause, Resume, SetMonitoring,
       FillTopics, ImportLegacy, Resolve, RunStep, Begin, Lookup, Condition, Fetch, Baseline,
       Register, Skip, StopMonitoring, Abort
  <2> QED BY <1>0, <2>1
<1> QED BY <1>1, <1>2, <1>3, <1>4, <1>5

(* PutDailySnapshot protects a success from every writer, whatever order   *)
(* reruns, overlapping runs, adds and imports come in.                     *)
THEOREM SuccessesAreFinal == Spec => SuccessIsFinal
<1>1. TypeInv /\ [Next]_vars =>
        [\A r \in Repos, d \in Days :
            snap[r][d].status = "success" => snap'[r][d] = snap[r][d]]_vars
  BY SnapshotStep
<1> QED BY <1>1, TypeInvHolds, PTL DEF Spec, SuccessIsFinal

(* A row turns from missing to failed only for the repository whose        *)
(* request has just failed: a blocked run leaves the others missing.       *)
THEOREM OnlyRequestedFail == Spec => UnrequestedStayMissing
<1>1. \A n : Success(n) # Failed
  BY DEF Success, Failed
<1>2. Missing # Failed
  BY DEF Missing, Failed
<1>3. TypeInv /\ [Next]_vars =>
        [\A r \in Repos, d \in Days :
            snap[r][d] = Missing /\ snap'[r][d] = Failed =>
                \E p \in Runners : At(p, "failure") /\ run[p].date = d /\ Current(p) = r]_vars
  <2> SUFFICES ASSUME TypeInv, [Next]_vars, NEW r \in Repos, NEW d \in Days,
                      snap[r][d] = Missing, snap'[r][d] = Failed
               PROVE  \E p \in Runners : At(p, "failure") /\ run[p].date = d /\ Current(p) = r
    OBVIOUS
  <2> QED BY <1>1, <1>2, SnapshotStep
<1> QED BY <1>3, TypeInvHolds, PTL DEF Spec, UnrequestedStayMissing

(***************************************************************************)
(* The 304s.                                                               *)
(*                                                                         *)
(* What they need besides: one run at a time, full answers that carry the  *)
(* topics, adds that nothing overtakes and no legacy import.               *)
(***************************************************************************)
Scheduled ==
    /\ \A p, q \in Runners : p = q
    /\ TopicsSent = {TRUE}
    /\ PromptAdds
    /\ "legacy" \notin Commands

Successful(r, d) == snap[r][d].status = "success"

(* A success is one of a day that has begun and lies within its bounds. *)
CountsWithin(r) ==
    /\ \A d \in 1..day : opening[d][r] <= version[r]
    /\ \A d \in Days : Successful(r, d) =>
          /\ d <= day
          /\ opening[d][r] <= snap[r][d].stars
          /\ snap[r][d].stars <= version[r]

(* e is the count of the success of day d, and no later one up to day l is *)
(* below it.                                                               *)
Backs(r, e, d, l) ==
    /\ snap[r][d] = Success(e)
    /\ \A f \in d..l : Successful(r, f) => snap[r][f].stars >= e

(* The ETag of a row belongs to a stored count. *)
ETagBacked(r) == reg[r].etag # 0 => \E d \in 1..day : Backs(r, reg[r].etag, d, day)

(* An add in flight is of today, and what it observed is news unless today *)
(* has its success already.                                                *)
AddCurrent(x) ==
    /\ x.date = day
    /\ x.at <= now
    /\ x.topics
    /\ opening[day][x.repo] <= x.stars
    /\ x.stars <= version[x.repo]
    /\ reg[x.repo].seen < x.at \/ Successful(x.repo, day)

(* The listed rows exist and have only moved on since. *)
RowsListed(x) ==
    \A r \in x.left : 0 < x.copy[r].seen /\ x.copy[r].seen <= reg[r].seen

(* The ETag of a listed row belongs to a stored count, of a day before the *)
(* run's once Lookup has found none on that day.                           *)
CopiesBacked(x) ==
    \A r \in x.left : x.copy[r].etag # 0 =>
       \E d \in 1..x.date :
          /\ Backs(r, x.copy[r].etag, d, x.date - 1)
          /\ r = Min(x.left) /\ x.pc = "condition" => d # x.date

(* So does the ETag that was sent. *)
SentBacked(x) ==
    x.pc \in {"fetch", "baseline"} /\ x.sent # 0 =>
       \E d \in 1..(x.date - 1) : Backs(Min(x.left), x.sent, d, x.date - 1)

(* What GitHub answered is a content the repository had since the run's    *)
(* day began, and the registry does not know a later one.                  *)
AnswerCurrent(x) ==
    x.pc \in {"baseline", "put", "register"} =>
       LET r == Min(x.left) IN
       /\ opening[x.date][r] <= x.etag
       /\ x.etag <= version[r]
       /\ x.etag # 0
       /\ reg[r].etag <= x.etag
       /\ x.pc = "baseline" =>
             /\ x.sent = x.etag
             /\ \A f \in 1..(x.date - 1) : Successful(r, f) => snap[r][f].stars <= x.etag
       /\ x.pc # "baseline" => x.stars = x.etag

(* While a listed row is not observed again, the run is the only one that  *)
(* stores counts of its day or later ones.                                 *)
RunQuiet(x) ==
    \A r \in x.left : reg[r].seen = x.copy[r].seen =>
       /\ \A f \in Days : f > x.date => ~Successful(r, f)
       /\ r = Min(x.left) /\ x.pc \in {"condition", "fetch", "baseline", "put"} =>
             ~Successful(r, x.date)
       /\ r = Min(x.left) /\ x.pc = "register" => snap[r][x.date] = Success(x.stars)

RunInv(x) ==
    /\ x.pc = "idle" => x.left = {}
    /\ RowsListed(x)
    /\ CopiesBacked(x)
    /\ SentBacked(x)
    /\ AnswerCurrent(x)
    /\ RunQuiet(x)

ETagInv ==
    /\ imported = {}
    /\ \A r \in Repos : reg[r].seen <= now
    /\ \A r \in Repos : CountsWithin(r)
    /\ \A r \in Repos : ETagBacked(r)
    /\ \A a \in Adders : add[a] # NoAdd => AddCurrent(add[a])
    /\ \A p \in Runners : RunInv(run[p])

LEMMA SuccessType ==
    ASSUME TypeOK, NEW r \in Repos, NEW d \in Days, Successful(r, d)
    PROVE  snap[r][d].stars \in Nat /\ snap[r][d] = Success(snap[r][d].stars)
<1>1. snap[r][d] \in Snapshot
  BY DEF TypeOK
<1> QED BY <1>1, DailySnapshotsAssumption DEF Successful, Snapshot, Missing, Failed, Success

(* A success is changed by no step. *)
LEMMA SuccessStays ==
    ASSUME TypeInv, [Next]_vars
    PROVE  \A r \in Repos, d \in Days :
              Successful(r, d) => snap'[r][d] = snap[r][d] /\ Successful(r, d)'
  BY SnapshotStep DEF Successful

(***************************************************************************)
(* Every step moves the world, the rows and the successes forward.         *)
(***************************************************************************)
Forward ==
    /\ day' >= day /\ day' \in Days
    /\ \A r \in Repos : version[r] <= version'[r]
    /\ \A d \in 1..day : opening'[d] = opening[d]
    /\ \A r \in Repos : reg[r].seen <= reg'[r].seen
    /\ \A r \in Repos, d \in Days : Successful(r, d) => snap'[r][d] = snap[r][d]

NewSuccess(r, d) == Successful(r, d)' /\ ~Successful(r, d)

LEMMA UpsertedSeen ==
    ASSUME NEW row \in Row, NEW o \in Observation
    PROVE  /\ row.seen <= Upserted(row, o).seen
           /\ o.at <= Upserted(row, o).seen
           /\ Upserted(row, o).seen \in {row.seen, o.at}
<1>1. row.seen \in Nat /\ o.at \in Nat
  BY Constants DEF Row, Observation
<1>2. Created(o).seen = o.at /\ Merged(row, o).seen = IF o.at > row.seen THEN o.at ELSE row.seen
  BY DEF Created, Merged
<1> QED BY <1>1, <1>2 DEF Upserted

LEMMA UpsertSeen ==
    ASSUME TypeOK, NEW r, NEW o \in Observation, Upsert(r, o)
    PROVE  \A q \in Repos : reg[q].seen <= reg'[q].seen
<1>1. reg' = [reg EXCEPT ![r] = Upserted(reg[r], o)]
  BY DEF Upsert
<1>2. \A q \in Repos : reg[q] \in Row /\ reg[q].seen \in Nat
  BY Constants DEF TypeOK, Row
<1> TAKE q \in Repos
<1>3. CASE q = r
  BY <1>1, <1>2, <1>3, UpsertedSeen DEF TypeOK
<1>4. CASE q # r
  BY <1>1, <1>2, <1>4 DEF TypeOK
<1> QED BY <1>3, <1>4

(* As a run under way sees the steps of the others: where a success is     *)
(* added, today's, the row has been observed again.                        *)
Elsewhere ==
    /\ Forward
    /\ \A r \in Repos, d \in Days : NewSuccess(r, d) => d >= day /\ reg[r].seen < reg'[r].seen

ETagsDropped == \A r \in Repos : reg'[r].etag \in {0, reg[r].etag}

LEMMA BacksStay ==
    ASSUME TypeInv, TypeOK', Elsewhere, NEW r \in Repos, NEW e, NEW d \in 1..day,
           NEW l \in Int, l < day, Backs(r, e, d, l)
    PROVE  Backs(r, e, d, l)'
<1>1. d \in Days /\ \A f \in d..l : f \in Days /\ f < day
  BY DailySnapshotsAssumption DEF TypeInv, TypeOK, Days
<1>2. snap[r][d] = Success(e) /\ snap'[r][d] = Success(e)
  BY <1>1 DEF Backs, Elsewhere, Forward, Successful, Success
<1>3. \A f \in d..l : Successful(r, f)' => Successful(r, f) /\ snap'[r][f] = snap[r][f]
  BY <1>1 DEF Elsewhere, Forward, NewSuccess, TypeInv, TypeOK, Days
<1> QED BY <1>2, <1>3 DEF Backs

LEMMA RunKept ==
    ASSUME TypeInv, TypeOK', Elsewhere, NEW x \in Run, RunInv(x),
           x.pc # "idle" => x.left # {} /\ x.date \in 1..day,
           x.pc \in {"baseline", "put", "register"} => ETagsDropped
    PROVE  RunInv(x)'
<1>1. /\ x.left \subseteq Repos /\ x.copy \in [Repos -> Row] /\ x.date \in Nat
      /\ x.etag \in Nat /\ x.sent \in Nat /\ x.stars \in Nat
  BY Constants DEF Run
<1>2. day \in Nat /\ day \in Days /\ day' \in Nat
  BY DailySnapshotsAssumption DEF TypeInv, TypeOK, Elsewhere, Forward, NewSuccess, Days
<1>3. /\ \A r \in Repos : version[r] \in Nat /\ version'[r] \in Nat
      /\ \A r \in Repos : reg[r].seen \in Nat /\ reg'[r].seen \in Nat
      /\ \A r \in Repos : reg[r].etag \in Nat /\ reg'[r].etag \in Nat
      /\ \A r \in Repos : x.copy[r].seen \in Nat
  BY <1>1, Constants DEF TypeInv, TypeOK, Row
<1>4. RowsListed(x)'
  BY <1>1, <1>3 DEF RunInv, RowsListed, Elsewhere, Forward
<1>5. CopiesBacked(x)'
  <2> SUFFICES ASSUME NEW r \in x.left, x.copy[r].etag # 0
               PROVE  \E d \in 1..x.date :
                         /\ Backs(r, x.copy[r].etag, d, x.date - 1)'
                         /\ r = Min(x.left) /\ x.pc = "condition" => d # x.date
    BY DEF CopiesBacked
  <2>1. PICK d \in 1..x.date :
                /\ Backs(r, x.copy[r].etag, d, x.date - 1)
                /\ r = Min(x.left) /\ x.pc = "condition" => d # x.date
    BY DEF RunInv, CopiesBacked
  <2>2. d \in 1..day /\ x.date - 1 \in Int /\ x.date - 1 < day /\ r \in Repos
    BY <1>1, <1>2, <2>1 DEF RunInv
  <2> QED BY <2>1, <2>2, BacksStay
<1>6. SentBacked(x)'
  <2> SUFFICES ASSUME x.pc \in {"fetch", "baseline"}, x.sent # 0
               PROVE  \E d \in 1..(x.date - 1) : Backs(Min(x.left), x.sent, d, x.date - 1)'
    BY DEF SentBacked
  <2>1. PICK d \in 1..(x.date - 1) : Backs(Min(x.left), x.sent, d, x.date - 1)
    BY DEF RunInv, SentBacked
  <2>2. d \in 1..day /\ x.date - 1 \in Int /\ x.date - 1 < day
    BY <1>1, <1>2
  <2>3. Min(x.left) \in Repos
    BY <1>1, MinIsLeast, DailySnapshotsAssumption
  <2> QED BY <2>1, <2>2, <2>3, BacksStay
<1>7. AnswerCurrent(x)'
  <2> SUFFICES ASSUME x.pc \in {"baseline", "put", "register"} PROVE AnswerCurrent(x)'
    BY DEF AnswerCurrent
  <2> DEFINE r == Min(x.left)
  <2>1. r \in Repos
    BY <1>1, MinIsLeast, DailySnapshotsAssumption
  <2>2. x.date \in 1..day /\ opening'[x.date] = opening[x.date]
    BY DEF Elsewhere, Forward
  <2>3. opening'[x.date][r] <= x.etag /\ x.etag # 0
    BY <2>2 DEF RunInv, AnswerCurrent
  <2>4. x.etag <= version'[r]
    BY <1>1, <1>3, <2>1 DEF RunInv, AnswerCurrent, Elsewhere, Forward
  <2>5. reg'[r].etag <= x.etag
    BY <1>1, <1>3, <2>1 DEF RunInv, AnswerCurrent, ETagsDropped
  <2>6. ASSUME x.pc = "baseline", NEW f \in 1..(x.date - 1), Successful(r, f)'
        PROVE  snap'[r][f].stars <= x.etag
    <3>1. f \in Days /\ f < day
      BY <1>2, <2>2, DailySnapshotsAssumption DEF Days
    <3>2. Successful(r, f) /\ snap'[r][f] = snap[r][f]
      BY <1>2, <2>1, <2>6, <3>1 DEF Elsewhere, Forward, NewSuccess, Days
    <3> QED BY <2>6, <3>2 DEF RunInv, AnswerCurrent
  <2> HIDE DEF r
  <2>7. x.pc = "baseline" => x.sent = x.etag
    BY DEF RunInv, AnswerCurrent
  <2>8. x.pc # "baseline" => x.stars = x.etag
    BY DEF RunInv, AnswerCurrent
  <2> QED BY <2>3, <2>4, <2>5, <2>6, <2>7, <2>8 DEF AnswerCurrent, r
<1>8. RunQuiet(x)'
  <2> SUFFICES ASSUME NEW r \in x.left, reg'[r].seen = x.copy[r].seen
               PROVE  /\ \A f \in Days : f > x.date => ~Successful(r, f)'
                      /\ r = Min(x.left) /\ x.pc \in {"condition", "fetch", "baseline", "put"} =>
                            ~Successful(r, x.date)'
                      /\ r = Min(x.left) /\ x.pc = "register" =>
                            snap'[r][x.date] = Success(x.stars)
    BY DEF RunQuiet
  <2>1. r \in Repos /\ reg[r].seen = x.copy[r].seen /\ reg'[r].seen = reg[r].seen
    BY <1>1, <1>3 DEF RunInv, RowsListed, Elsewhere, Forward
  <2>2. \A f \in Days : Successful(r, f)' => Successful(r, f)
    BY <1>3, <2>1 DEF Elsewhere, NewSuccess
  <2>3. x.date \in Days
    BY <1>2, DailySnapshotsAssumption DEF Days, RunInv
  <2>4. x.pc = "register" /\ r = Min(x.left) => snap'[r][x.date] = Success(x.stars)
    BY <2>1, <2>3 DEF RunInv, RunQuiet, Elsewhere, Forward, Successful, Success
  <2>5. \A f \in Days : f > x.date => ~Successful(r, f)
    BY <2>1 DEF RunInv, RunQuiet
  <2>6. r = Min(x.left) /\ x.pc \in {"condition", "fetch", "baseline", "put"} => ~Successful(r, x.date)
    BY <2>1 DEF RunInv, RunQuiet
  <2> QED BY <2>2, <2>3, <2>4, <2>5, <2>6
<1> QED BY <1>4, <1>5, <1>6, <1>7, <1>8 DEF RunInv

(***************************************************************************)
(* What a step has to show of the two tables.                              *)
(***************************************************************************)
LEMMA CountsKept ==
    ASSUME TypeInv, TypeInv', Forward, NEW r \in Repos, CountsWithin(r),
           \A d \in 1..day' : opening'[d][r] <= version'[r],
           \A d \in Days : NewSuccess(r, d) =>
              d <= day' /\ opening'[d][r] <= snap'[r][d].stars /\ snap'[r][d].stars <= version'[r]
    PROVE  CountsWithin(r)'
<1>1. /\ day \in Nat /\ day' \in Nat /\ day >= 1
      /\ version[r] \in Nat /\ version'[r] \in Nat
  <2>1. day \in Days /\ version \in [Repos -> Versions \ {0}]
    BY DEF TypeInv, TypeOK
  <2>2. day' \in Days /\ version' \in [Repos -> Versions \ {0}]
    BY DEF TypeInv, TypeOK
  <2>3. day \in Nat /\ day' \in Nat /\ day >= 1
    BY <2>1, <2>2, DailySnapshotsAssumption DEF Days
  <2> QED BY <2>1, <2>2, <2>3, Constants
<1>2. ASSUME NEW d \in Days, Successful(r, d)
      PROVE  d <= day' /\ opening'[d][r] <= snap'[r][d].stars /\ snap'[r][d].stars <= version'[r]
  <2>1. d \in 1..day /\ d \in Nat /\ snap'[r][d] = snap[r][d]
    BY <1>1, <1>2, Constants DEF CountsWithin, Forward, Days
  <2>2. opening'[d] = opening[d] /\ snap[r][d].stars \in Nat
    BY <1>2, <2>1, SuccessType DEF Forward, TypeInv
  <2> QED BY <1>1, <1>2, <2>1, <2>2 DEF CountsWithin, Forward
<1> QED BY <1>2 DEF CountsWithin, NewSuccess

LEMMA ETagKept ==
    ASSUME TypeInv, TypeInv', Forward, NEW r \in Repos, CountsWithin(r), ETagBacked(r),
           \/ reg'[r].etag = 0
           \/ /\ reg'[r].etag = reg[r].etag
              /\ \A d \in Days : NewSuccess(r, d) => snap'[r][d].stars >= reg[r].etag
    PROVE  ETagBacked(r)'
<1> SUFFICES ASSUME reg'[r].etag # 0 PROVE ETagBacked(r)'
  BY DEF ETagBacked
<1> DEFINE e == reg[r].etag
<1>1. reg'[r].etag = e /\ e # 0 /\ \A d \in Days : NewSuccess(r, d) => snap'[r][d].stars >= e
  OBVIOUS
<1>2. PICK d \in 1..day : Backs(r, e, d, day)
  BY <1>1 DEF ETagBacked
<1>3. day \in Nat /\ day' \in Nat /\ d \in 1..day' /\ d \in Days
  BY DailySnapshotsAssumption DEF TypeInv, TypeOK, Days, Forward
<1>4. snap'[r][d] = Success(e)
  BY <1>2, <1>3 DEF Backs, Forward, Successful, Success
<1>5. ASSUME NEW f \in d..day', Successful(r, f)' PROVE snap'[r][f].stars >= e
  <2>1. f \in Days
    BY <1>3, DailySnapshotsAssumption DEF TypeInv, TypeOK, Days
  <2>2. CASE Successful(r, f)
    <3>1. f \in d..day /\ snap'[r][f] = snap[r][f]
      BY <1>3, <2>1, <2>2 DEF CountsWithin, Forward
    <3> QED BY <1>2, <2>2, <3>1 DEF Backs
  <2>3. CASE ~Successful(r, f)
    BY <1>1, <1>5, <2>1, <2>3 DEF NewSuccess
  <2> QED BY <2>2, <2>3
<1>6. Backs(r, e, d, day)'
  BY <1>1, <1>4, <1>5 DEF Backs
<1> QED BY <1>1, <1>3, <1>6 DEF ETagBacked

LEMMA AddKept ==
    ASSUME TypeInv, TypeInv', Forward, NEW x \in Add, x.repo \in Repos, AddCurrent(x),
           day' = day, now' >= now,
           \/ reg'[x.repo].seen = reg[x.repo].seen
           \/ Successful(x.repo, day)'
    PROVE  AddCurrent(x)'
<1>1. /\ day \in Days /\ day \in 1..day /\ x.at \in Nat /\ x.stars \in Nat
      /\ now \in Nat /\ now' \in Nat /\ version[x.repo] \in Nat /\ version'[x.repo] \in Nat
  <2>1. day \in Days /\ now \in Instants /\ version \in [Repos -> Versions \ {0}]
    BY DEF TypeInv, TypeOK
  <2>2. now' \in Instants /\ version' \in [Repos -> Versions \ {0}]
    BY DEF TypeInv, TypeOK
  <2>3. x.at \in Nat /\ x.stars \in Nat
    BY Constants DEF Add
  <2>4. day \in 1..day
    BY <2>1, DailySnapshotsAssumption DEF Days
  <2> QED BY <2>1, <2>2, <2>3, <2>4, Constants
<1>2. opening'[day] = opening[day] /\ (Successful(x.repo, day) => Successful(x.repo, day)')
  BY <1>1 DEF Forward, Successful
<1> QED BY <1>1, <1>2 DEF AddCurrent, Forward

(***************************************************************************)
(* A step that is no run's.                                                *)
(***************************************************************************)
LEMMA RunsKept ==
    ASSUME TypeInv, TypeInv', Elsewhere, ETagsDropped, run' = run, NEW p \in Runners, RunInv(run[p])
    PROVE  RunInv(run[p])'
<1>1. run[p] \in Run
  BY DEF TypeInv, TypeOK
<1> QED BY <1>1, RunKept DEF TypeInv, At

(* No success is added and no ETag is adopted. *)
LEMMA TablesKept ==
    ASSUME TypeInv, TypeInv', ETagInv, Forward, ETagsDropped,
           \A r \in Repos, d \in Days : ~NewSuccess(r, d),
           \A r \in Repos : \A d \in 1..day' : opening'[d][r] <= version'[r]
    PROVE  \A r \in Repos : CountsWithin(r)' /\ ETagBacked(r)'
<1> TAKE r \in Repos
<1>1. CountsWithin(r)'
  BY CountsKept DEF ETagInv
<1>2. ETagBacked(r)'
  BY ETagKept DEF ETagInv, ETagsDropped
<1> QED BY <1>1, <1>2

LEMMA OpeningsKept ==
    ASSUME ETagInv, UNCHANGED world
    PROVE  \A r \in Repos : \A d \in 1..day' : opening'[d][r] <= version'[r]
  BY DEF ETagInv, CountsWithin, world

LEMMA NoNewSuccess ==
    ASSUME snap' = snap
    PROVE  /\ \A r \in Repos, d \in Days : ~NewSuccess(r, d)
           /\ \A r \in Repos, d \in Days : Successful(r, d) => snap'[r][d] = snap[r][d]
  BY DEF NewSuccess, Successful

LEMMA SeenIsNat ==
    ASSUME TypeInv
    PROVE  /\ \A r \in Repos : reg[r].seen \in Nat /\ version[r] \in Nat
           /\ now \in Nat /\ day \in Nat
<1>1. \A r \in Repos : reg[r] \in Row /\ version[r] \in Versions \ {0}
  BY DEF TypeInv, TypeOK
<1>2. now \in Instants /\ day \in Days
  BY DEF TypeInv, TypeOK
<1> QED BY <1>1, <1>2, Constants DEF Row

LEMMA ChangeKeeps ==
    ASSUME TypeInv, TypeInv', ETagInv, NEW r \in Repos, Change(r)
    PROVE  ETagInv'
<1>1. version' = [version EXCEPT ![r] = version[r] + 1]
      /\ UNCHANGED <<day, opening, now, reg, snap, run, add, imported>>
  BY DEF Change
<1>2. \A q \in Repos : version[q] <= version'[q]
  BY <1>1, SeenIsNat DEF TypeInv, TypeOK
<1>3. Forward
  BY <1>1, <1>2, SeenIsNat, NoNewSuccess, SMTT(30) DEF Forward, TypeInv, TypeOK
<1>4. Elsewhere /\ ETagsDropped
  BY <1>1, <1>3, NoNewSuccess DEF Elsewhere, ETagsDropped
<1>5. \A q \in Repos : \A d \in 1..day' : opening'[d][q] <= version'[q]
  <2> TAKE q \in Repos
  <2> TAKE d \in 1..day'
  <2>1. opening'[d][q] = opening[d][q] /\ opening[d][q] <= version[q]
    BY <1>1 DEF ETagInv, CountsWithin
  <2>2. opening[d][q] \in Nat
    <3>1. d \in 1..day
      BY <1>1
    <3>2. opening[d] \in [Repos -> Versions \ {0}]
      BY <3>1 DEF TypeInv
    <3> QED BY <3>2, Constants
  <2>3. version[q] \in Nat /\ version'[q] \in Nat /\ version[q] <= version'[q]
    <3>1. version'[q] \in Versions \ {0}
      BY DEF TypeInv, TypeOK
    <3> QED BY <1>2, <3>1, SeenIsNat, Constants
  <2> QED BY <2>1, <2>2, <2>3
<1>6. \A q \in Repos : CountsWithin(q)' /\ ETagBacked(q)'
  BY <1>1, <1>3, <1>4, <1>5, NoNewSuccess, TablesKept
<1>7. \A a \in Adders : add'[a] # NoAdd => AddCurrent(add[a])'
  <2> TAKE a \in Adders
  <2> HAVE add'[a] # NoAdd
  <2>1. add[a] \in Add /\ add[a].repo \in Repos /\ AddCurrent(add[a])
    BY <1>1 DEF TypeInv, TypeOK, ETagInv
  <2> QED BY <1>1, <1>3, <2>1, AddKept, SeenIsNat
<1>8. \A p \in Runners : RunInv(run[p])'
  BY <1>1, <1>4, RunsKept DEF ETagInv
<1> QED BY <1>1, <1>6, <1>7, <1>8 DEF ETagInv

LEMMA MidnightKeeps ==
    ASSUME TypeInv, TypeInv', Scheduled, ETagInv, Midnight
    PROVE  ETagInv'
<1>1. day' = day + 1 /\ opening' = [opening EXCEPT ![day + 1] = version]
      /\ UNCHANGED <<version, now, reg, snap, run, add, imported>>
  BY DEF Midnight
<1>2. \A d \in 1..day : opening'[d] = opening[d]
  BY <1>1, SeenIsNat, DailySnapshotsAssumption DEF TypeInv, TypeOK, Days
<1>3. Forward
  <2>1. day' >= day
    BY <1>1, SeenIsNat
  <2>2. day' \in Days
    BY DEF TypeInv, TypeOK
  <2> QED BY <1>1, <1>2, <2>1, <2>2, SeenIsNat, NoNewSuccess DEF Forward
<1>4. Elsewhere /\ ETagsDropped
  BY <1>1, <1>3, NoNewSuccess DEF Elsewhere, ETagsDropped
<1>5. \A q \in Repos : \A d \in 1..day' : opening'[d][q] <= version'[q]
  <2> TAKE q \in Repos
  <2> TAKE d \in 1..day'
  <2>1. CASE d \in 1..day
    BY <1>1, <1>2, <2>1 DEF ETagInv, CountsWithin
  <2>2. CASE d = day + 1
    <3>1. day + 1 \in Days
      BY <1>1 DEF TypeInv, TypeOK
    <3>2. opening'[d][q] = version[q]
      BY <1>1, <2>2, <3>1 DEF TypeInv, TypeOK
    <3> QED BY <1>1, <3>2, SeenIsNat
  <2> QED BY <1>1, <2>1, <2>2, SeenIsNat
<1>6. \A q \in Repos : CountsWithin(q)' /\ ETagBacked(q)'
  BY <1>1, <1>3, <1>4, <1>5, NoNewSuccess, TablesKept
<1>7. \A a \in Adders : add'[a] = NoAdd
  BY <1>1 DEF Midnight, Undisturbed, Scheduled
<1>8. \A p \in Runners : RunInv(run[p])'
  BY <1>1, <1>4, RunsKept DEF ETagInv
<1> QED BY <1>1, <1>6, <1>7, <1>8 DEF ETagInv

(* The writers of the registry alone. *)
LEMMA RegistryKeeps ==
    ASSUME TypeInv, TypeInv', ETagInv, NEW r \in Repos, NEW y \in Row,
           reg' = [reg EXCEPT ![r] = y],
           reg[r].seen <= y.seen, y.seen <= now', now <= now', y.etag \in {0, reg[r].etag},
           (\A a \in Adders : add[a] = NoAdd) \/ y.seen = reg[r].seen,
           UNCHANGED <<world, snap, run, add, imported>>
    PROVE  ETagInv'
<1>0. reg \in [Repos -> Row]
  BY DEF TypeInv, TypeOK
<1>1. \A q \in Repos : reg[q].seen <= reg'[q].seen /\ reg'[q].seen <= now'
  <2> TAKE q \in Repos
  <2>1. CASE q = r
    BY <1>0, <2>1
  <2>2. CASE q # r
    <3>1. reg'[q] = reg[q] /\ reg[q].seen <= now /\ now' \in Nat
      BY <1>0, <2>2, Constants DEF ETagInv, TypeInv, TypeOK
    <3> QED BY <3>1, SeenIsNat
  <2> QED BY <2>1, <2>2
<1>2. UNCHANGED <<version, day, opening>>
  BY DEF world
<1>3. Forward
  BY <1>1, <1>2, SeenIsNat, NoNewSuccess, SMTT(30) DEF Forward, TypeInv, TypeOK
<1>4. Elsewhere /\ ETagsDropped
  BY <1>0, <1>3, NoNewSuccess DEF Elsewhere, ETagsDropped
<1>5. \A q \in Repos : CountsWithin(q)' /\ ETagBacked(q)'
  BY <1>3, <1>4, OpeningsKept, NoNewSuccess, TablesKept
<1>6. \A a \in Adders : add'[a] # NoAdd => AddCurrent(add[a])'
  <2> TAKE a \in Adders
  <2> HAVE add'[a] # NoAdd
  <2>1. add'[a] = add[a] /\ add[a] \in Add /\ add[a].repo \in Repos /\ AddCurrent(add[a])
    BY DEF TypeInv, TypeOK, ETagInv
  <2>2. \A q \in Repos : reg'[q].seen = reg[q].seen
    BY <1>0, <2>1
  <2> QED BY <1>2, <1>3, <2>1, <2>2, AddKept
<1>7. \A p \in Runners : RunInv(run[p])'
  BY <1>4, RunsKept DEF ETagInv
<1> QED BY <1>1, <1>5, <1>6, <1>7 DEF ETagInv

LEMMA UpsertedETag ==
    ASSUME NEW row \in Row, NEW o \in Observation, o.etag = 0
    PROVE  /\ Upserted(row, o).etag \in {0, row.etag}
           /\ o.topics /\ Latest(row, o) => Upserted(row, o).etag = 0
<1>1. Created(o).etag = 0 /\ Merged(row, o).etag = MergedETag(row, o)
  BY DEF Created, Merged
<1>2. MergedETag(row, o) \in {0, row.etag}
      /\ (o.topics /\ Latest(row, o) => MergedETag(row, o) = 0)
  BY DEF MergedETag
<1> QED BY <1>1, <1>2 DEF Upserted

LEMMA RegistryStepKeeps ==
    ASSUME TypeInv, TypeInv', Scheduled, ETagInv, NEW r \in Repos,
           Discover(r) \/ WatchAdd(r) \/ Pause(r) \/ Resume(r) \/ FillTopics(r)
    PROVE  ETagInv'
<1>0. /\ reg \in [Repos -> Row] /\ reg[r] \in Row /\ now \in Nat
      /\ reg[r].seen \in Nat /\ reg[r].seen <= now /\ 0 \in Versions
  BY Constants, SeenIsNat DEF TypeInv, TypeOK, ETagInv
<1>1. ASSUME NEW at \in Nat, now' = (IF at > now THEN at ELSE now), NEW y \in Row,
             reg' = [reg EXCEPT ![r] = y], reg[r].seen <= y.seen, y.seen \in {reg[r].seen, at},
             y.etag \in {0, reg[r].etag}, \A a \in Adders : add[a] = NoAdd,
             UNCHANGED <<world, snap, run, add, imported>>
      PROVE  ETagInv'
  <2>1. y.seen <= now' /\ now <= now'
    BY <1>0, <1>1
  <2> QED BY <1>1, <2>1, RegistryKeeps
<1>2. CASE Discover(r)
  <2>1. PICK at \in 1..(now + 1), source \in {"found", "watchlist"}, topics \in TopicsSent,
             monitor \in Statuses :
             LET o == [at |-> at, source |-> source, etag |-> 0, topics |-> topics,
                       monitor |-> monitor]
             IN  /\ at <= MaxInstant
                 /\ now' = IF at > now THEN at ELSE now
                 /\ \/ Upsert(r, o)
                    \/ /\ source = "found"
                       /\ reg' = [reg EXCEPT ![r] =
                                     Upserted(Upserted(@, o), [o EXCEPT !.source = "manual"])]
    BY <1>2 DEF Discover
  <2> DEFINE o == [at |-> at, source |-> source, etag |-> 0, topics |-> topics,
                   monitor |-> monitor]
             m == [o EXCEPT !.source = "manual"]
  <2>2. at \in Nat /\ at \in Instants /\ topics \in BOOLEAN
    BY <1>0, <2>1, DailySnapshotsAssumption DEF Instants
  <2>3. o \in Observation /\ m \in Observation /\ o.etag = 0 /\ m.etag = 0 /\ o.at = at /\ m.at = at
    BY <1>0, <2>2 DEF Observation, Sources
  <2>4. Upsert(r, o) \/ reg' = [reg EXCEPT ![r] = Upserted(Upserted(reg[r], o), m)]
    BY <2>1
  <2>5. \A a \in Adders : add[a] = NoAdd
    BY <1>2 DEF Discover, Undisturbed, Scheduled
  <2>6. UNCHANGED <<world, snap, run, add, imported>>
    BY <1>2 DEF Discover
  <2> HIDE DEF o, m
  <2> DEFINE y == Upserted(reg[r], o)
             z == Upserted(y, m)
  <2>7. /\ y \in Row /\ reg[r].seen <= y.seen /\ y.seen \in {reg[r].seen, at}
        /\ y.etag \in {0, reg[r].etag}
    BY <1>0, <2>3, UpsertedType, UpsertedSeen, UpsertedETag
  <2>8. CASE Upsert(r, o)
    <3>1. reg' = [reg EXCEPT ![r] = y]
      BY <2>8 DEF Upsert
    <3> HIDE DEF y
    <3> QED BY <1>1, <2>1, <2>2, <2>5, <2>6, <2>7, <3>1
  <2>9. CASE reg' = [reg EXCEPT ![r] = z]
    <3> HIDE DEF y
    <3>1. /\ z \in Row /\ y.seen <= z.seen /\ z.seen \in {y.seen, at} /\ z.etag \in {0, y.etag}
      BY <2>3, <2>7, UpsertedType, UpsertedSeen, UpsertedETag
    <3>2. reg[r].seen <= z.seen /\ z.seen \in {reg[r].seen, at} /\ z.etag \in {0, reg[r].etag}
      BY <1>0, <2>2, <2>7, <3>1
    <3> HIDE DEF z
    <3> QED BY <1>1, <2>1, <2>2, <2>5, <2>6, <2>9, <3>1, <3>2
  <2> QED BY <2>4, <2>8, <2>9
<1>3. CASE WatchAdd(r)
  <2>1. PICK topics \in TopicsSent :
             Upsert(r, [at |-> now + 1, source |-> "manual", etag |-> 0, topics |-> topics,
                        monitor |-> "active"])
    BY <1>3 DEF WatchAdd
  <2> DEFINE o == [at |-> now + 1, source |-> "manual", etag |-> 0, topics |-> topics,
                   monitor |-> "active"]
             y == Upserted(reg[r], o)
  <2>2. now' = now + 1 /\ now + 1 \in Instants
    BY <1>0, <1>3, DailySnapshotsAssumption DEF WatchAdd, Draw, Instants
  <2>3. o \in Observation /\ o.etag = 0 /\ o.at = now + 1
    BY <1>0, <2>2, DailySnapshotsAssumption DEF Observation, Sources, Statuses
  <2>4. reg' = [reg EXCEPT ![r] = y]
    BY <2>1 DEF Upsert
  <2> HIDE DEF o
  <2>5. /\ y \in Row /\ reg[r].seen <= y.seen /\ y.seen \in {reg[r].seen, now + 1}
        /\ y.etag \in {0, reg[r].etag}
    BY <1>0, <2>3, UpsertedType, UpsertedSeen, UpsertedETag
  <2>6. /\ \A a \in Adders : add[a] = NoAdd
        /\ UNCHANGED <<world, snap, run, add, imported>>
    BY <1>3 DEF WatchAdd, Undisturbed, Scheduled
  <2>7. now + 1 \in Nat /\ now' = IF now + 1 > now THEN now + 1 ELSE now
    BY <1>0, <2>2
  <2> HIDE DEF y
  <2> QED BY <1>1, <2>4, <2>5, <2>6, <2>7
<1>4. CASE Pause(r) \/ Resume(r)
  <2>1. PICK status \in Statuses : SetMonitoring(r, status)
    BY <1>4 DEF Pause, Resume, Statuses
  <2> DEFINE y == [reg[r] EXCEPT !.monitor = status]
  <2>2. reg' = [reg EXCEPT ![r] = y] /\ UNCHANGED <<world, now, snap, run, add, imported>>
    BY <2>1 DEF SetMonitoring
  <2>3. y \in Row /\ y.seen = reg[r].seen /\ y.etag = reg[r].etag
    BY <1>0 DEF Row
  <2> HIDE DEF y
  <2>4. reg[r].seen <= y.seen /\ y.seen <= now' /\ now <= now'
    BY <1>0, <2>2, <2>3
  <2> QED BY <2>2, <2>3, <2>4, RegistryKeeps
<1>5. CASE FillTopics(r)
  <2> DEFINE y == [reg[r] EXCEPT !.topics = TRUE, !.etag = 0]
  <2>1. reg' = [reg EXCEPT ![r] = y] /\ UNCHANGED <<world, now, snap, run, add, imported>>
    BY <1>0, <1>5 DEF FillTopics
  <2>2. y \in Row /\ y.seen = reg[r].seen /\ y.etag = 0
    BY <1>0 DEF Row
  <2> HIDE DEF y
  <2>3. reg[r].seen <= y.seen /\ y.seen <= now' /\ now <= now'
    BY <1>0, <2>1, <2>2
  <2> QED BY <2>1, <2>2, <2>3, RegistryKeeps
<1> QED BY <1>2, <1>3, <1>4, <1>5

LEMMA ResolveKeeps ==
    ASSUME TypeInv, TypeInv', Scheduled, ETagInv, NEW r \in Repos, NEW a \in Adders, Resolve(a, r)
    PROVE  ETagInv'
<1>1. PICK topics \in TopicsSent :
           add' = [add EXCEPT ![a] = [repo |-> r, at |-> now + 1, date |-> day,
                                      stars |-> version[r], topics |-> topics]]
  BY DEF Resolve
<1> DEFINE x == [repo |-> r, at |-> now + 1, date |-> day, stars |-> version[r], topics |-> topics]
<1>2. now' = now + 1 /\ UNCHANGED <<world, reg, snap, run, imported>>
      /\ UNCHANGED <<version, day, opening>>
  BY DEF Resolve, Draw, world
<1>3. Forward
  BY <1>2, SeenIsNat, NoNewSuccess DEF Forward, TypeInv, TypeOK
<1>4. Elsewhere /\ ETagsDropped
  BY <1>2, <1>3, NoNewSuccess DEF Elsewhere, ETagsDropped
<1>5. \A q \in Repos : CountsWithin(q)' /\ ETagBacked(q)'
  BY <1>2, <1>3, <1>4, OpeningsKept, NoNewSuccess, TablesKept
<1>6. \A q \in Repos : reg'[q].seen <= now'
  BY <1>2, SeenIsNat DEF ETagInv
<1>7. \A b \in Adders : add'[b] # NoAdd => AddCurrent(add[b])'
  <2> TAKE b \in Adders
  <2> HAVE add'[b] # NoAdd
  <2>1. CASE b = a
    <3>1. add'[b] = x
      BY <1>1, <2>1 DEF TypeInv, TypeOK
    <3>2. /\ x.date = day' /\ x.at = now' /\ x.topics /\ x.repo = r /\ x.stars = version'[r]
      BY <1>2, DailySnapshotsAssumption DEF Scheduled
    <3>3. opening'[day'][r] <= version'[r]
      <4>1. day \in 1..day
        BY DailySnapshotsAssumption DEF TypeInv, TypeOK, Days
      <4> QED BY <1>2, <4>1 DEF ETagInv, CountsWithin
    <3>4. reg'[r].seen < now' /\ now' \in Nat /\ version'[r] \in Nat
      BY <1>2, SeenIsNat DEF ETagInv
    <3> HIDE DEF x
    <3> QED BY <3>1, <3>2, <3>3, <3>4 DEF AddCurrent
  <2>2. CASE b # a
    <3>1. add'[b] = add[b] /\ add[b] \in Add /\ add[b].repo \in Repos /\ AddCurrent(add[b])
      BY <1>1, <2>2 DEF TypeInv, TypeOK, ETagInv
    <3> QED BY <1>2, <1>3, <3>1, AddKept, SeenIsNat
  <2> QED BY <2>1, <2>2
<1>8. \A p \in Runners : RunInv(run[p])'
  BY <1>2, <1>4, RunsKept DEF ETagInv
<1> QED BY <1>2, <1>5, <1>6, <1>7, <1>8 DEF ETagInv

LEMMA StoreAddKeeps ==
    ASSUME TypeInv, TypeInv', Scheduled, ETagInv, NEW a \in Adders, StoreAdd(a)
    PROVE  ETagInv'
<1>1. /\ add[a] # NoAdd /\ add' = [add EXCEPT ![a] = NoAdd]
      /\ UNCHANGED <<world, now, run, imported>> /\ UNCHANGED <<version, day, opening>>
  BY DEF StoreAdd, world
<1>2. /\ add[a] \in Add /\ add[a].repo \in Repos /\ add[a].date = day /\ day \in Days
      /\ AddCurrent(add[a]) /\ add[a].at \in Nat
  BY <1>1, Constants DEF TypeInv, TypeOK, ETagInv, AddCurrent, Add
<1> DEFINE r == add[a].repo
           o == [at |-> add[a].at, source |-> "manual", etag |-> 0, topics |-> add[a].topics,
                 monitor |-> "active"]
           y == Upserted(reg[r], o)
<1>3. reg \in [Repos -> Row] /\ reg[r] \in Row
  BY <1>2 DEF TypeInv, TypeOK
<1>4. /\ o \in Observation /\ o.etag = 0 /\ o.at = add[a].at /\ o.topics
  BY <1>2, Constants DEF Add, Observation, Sources, Statuses, AddCurrent
<1>5. CASE UNCHANGED <<reg, snap>>
  <2>1. Forward
    BY <1>1, <1>5, SeenIsNat, NoNewSuccess DEF Forward, TypeInv, TypeOK
  <2>2. Elsewhere /\ ETagsDropped
    BY <1>5, <2>1, NoNewSuccess DEF Elsewhere, ETagsDropped
  <2>3. \A q \in Repos : CountsWithin(q)' /\ ETagBacked(q)'
    BY <1>1, <1>5, <2>1, <2>2, OpeningsKept, NoNewSuccess, TablesKept
  <2>4. \A b \in Adders : add'[b] # NoAdd => AddCurrent(add[b])'
    <3> TAKE b \in Adders
    <3> HAVE add'[b] # NoAdd
    <3>1. add'[b] = add[b] /\ add[b] \in Add /\ add[b].repo \in Repos /\ AddCurrent(add[b])
      BY <1>1 DEF TypeInv, TypeOK, ETagInv
    <3> QED BY <1>1, <1>5, <2>1, <3>1, AddKept, SeenIsNat
  <2>5. \A p \in Runners : RunInv(run[p])'
    BY <1>1, <2>2, RunsKept DEF ETagInv
  <2> QED BY <1>1, <1>5, <2>3, <2>4, <2>5 DEF ETagInv
<1>6. CASE Upsert(r, o) /\ PutSnapshot(r, day, Success(add[a].stars))
  <2> HIDE DEF o
  <2>1. reg' = [reg EXCEPT ![r] = y]
    BY <1>6 DEF Upsert
  <2>2. /\ y \in Row /\ reg[r].seen <= y.seen /\ add[a].at <= y.seen
        /\ y.seen \in {reg[r].seen, add[a].at} /\ y.etag \in {0, reg[r].etag}
        /\ Latest(reg[r], o) => y.etag = 0
    BY <1>3, <1>4, UpsertedType, UpsertedSeen, UpsertedETag
  <2> HIDE DEF y
  <2>3. \A q \in Repos : reg[q].seen <= reg'[q].seen /\ reg'[q].seen <= now'
    <3> TAKE q \in Repos
    <3>1. CASE q = r
      BY <1>1, <1>2, <1>3, <2>1, <2>2, <3>1 DEF ETagInv, AddCurrent
    <3>2. CASE q # r
      BY <1>1, <1>3, <2>1, <3>2, SeenIsNat DEF ETagInv
    <3> QED BY <3>1, <3>2
  <2>4. ETagsDropped
    BY <1>3, <2>1, <2>2 DEF ETagsDropped
  <2>5. \A q \in Repos, e \in Days : snap'[q][e] # snap[q][e] =>
           q = r /\ e = day /\ ~Successful(q, e) /\ snap'[q][e] = Success(add[a].stars)
    BY <1>2, <1>6, PutChanges DEF TypeInv, Successful
  <2>6. Forward
    <3>1. \A q \in Repos, e \in Days : Successful(q, e) => snap'[q][e] = snap[q][e]
      BY <2>5
    <3>2. \A q \in Repos : reg[q].seen <= reg'[q].seen
      BY <2>3
    <3> QED BY <1>1, <1>2, <3>1, <3>2, SeenIsNat DEF Forward
  <2>7. \A q \in Repos, e \in Days : NewSuccess(q, e) =>
           /\ q = r /\ e = day /\ snap'[q][e].stars = add[a].stars
           /\ reg[q].seen < add[a].at /\ reg'[q].etag = 0 /\ reg[q].seen < reg'[q].seen
    <3> SUFFICES ASSUME NEW q \in Repos, NEW e \in Days, NewSuccess(q, e)
                 PROVE  /\ q = r /\ e = day /\ snap'[q][e].stars = add[a].stars
                        /\ reg[q].seen < add[a].at /\ reg'[q].etag = 0 /\ reg[q].seen < reg'[q].seen
      OBVIOUS
    <3>1. q = r /\ e = day /\ ~Successful(q, e) /\ snap'[q][e] = Success(add[a].stars)
      BY <2>5 DEF NewSuccess, Successful
    <3>2. reg[r].seen < add[a].at
      BY <1>2, <3>1 DEF AddCurrent
    <3>3. Latest(reg[r], o)
      BY <1>2, <1>4, <3>2, SeenIsNat DEF Latest
    <3>4. reg'[r] = y /\ reg[r].seen \in Nat /\ y.seen \in Nat
      BY <1>2, <1>3, <2>1, <2>2, SeenIsNat
    <3> QED BY <1>2, <2>2, <3>1, <3>2, <3>3, <3>4 DEF Success
  <2>8. Elsewhere
    BY <2>6, <2>7, SeenIsNat DEF Elsewhere
  <2>9. \A q \in Repos : CountsWithin(q)' /\ ETagBacked(q)'
    <3> TAKE q \in Repos
    <3>1. \A d \in Days : NewSuccess(q, d) =>
             d <= day' /\ opening'[d][q] <= snap'[q][d].stars /\ snap'[q][d].stars <= version'[q]
      BY <1>1, <1>2, <2>7, SeenIsNat DEF AddCurrent
    <3>2. CountsWithin(q)'
      BY <1>1, <2>6, <3>1, OpeningsKept, CountsKept DEF ETagInv
    <3>3. reg'[q].etag = 0 \/ (reg'[q].etag = reg[q].etag /\ \A d \in Days : ~NewSuccess(q, d))
      BY <2>4, <2>7 DEF ETagsDropped
    <3>4. ETagBacked(q)'
      BY <2>6, <3>3, ETagKept DEF ETagInv
    <3> QED BY <3>2, <3>4
  <2>10. \A b \in Adders : add'[b] # NoAdd => AddCurrent(add[b])'
    <3> TAKE b \in Adders
    <3> HAVE add'[b] # NoAdd
    <3>1. add'[b] = add[b] /\ add[b] \in Add /\ add[b].repo \in Repos /\ AddCurrent(add[b])
      BY <1>1 DEF TypeInv, TypeOK, ETagInv
    <3>2. reg'[add[b].repo].seen = reg[add[b].repo].seen \/ Successful(add[b].repo, day)'
      <4>1. CASE add[b].repo # r
        BY <1>3, <2>1, <3>1, <4>1
      <4>2. CASE add[b].repo = r
        <5>1. snap' = [snap EXCEPT ![r] = [snap[r] EXCEPT ![day] = Stored(snap[r][day], Success(add[a].stars))]]
          BY <1>6 DEF PutSnapshot
        <5>2. snap'[r][day] = Stored(snap[r][day], Success(add[a].stars))
          BY <1>2, <5>1 DEF TypeInv, TypeOK
        <5>3. snap'[r][day].status = "success"
          BY <5>2 DEF Stored, Success
        <5> QED BY <1>1, <4>2, <5>3 DEF Successful
      <4> QED BY <4>1, <4>2
    <3> QED BY <1>1, <2>6, <3>1, <3>2, AddKept, SeenIsNat
  <2>11. \A p \in Runners : RunInv(run[p])'
    BY <1>1, <2>4, <2>8, RunsKept DEF ETagInv
  <2> QED BY <1>1, <2>3, <2>9, <2>10, <2>11 DEF ETagInv
<1> QED BY <1>2, <1>5, <1>6 DEF StoreAdd

(***************************************************************************)
(* The steps of the run.                                                   *)
(***************************************************************************)
LEMMA OwnStepKeeps ==
    ASSUME TypeInv, TypeInv', Scheduled, ETagInv, Forward, NEW p \in Runners, NEW x \in Run,
           run' = [run EXCEPT ![p] = x], RunInv(x)',
           \A r \in Repos : reg'[r].seen = reg[r].seen,
           \A r \in Repos : CountsWithin(r)' /\ ETagBacked(r)',
           UNCHANGED <<world, now, add, imported>>
    PROVE  ETagInv'
<1>1. \A q \in Runners : RunInv(run[q])'
  <2> TAKE q \in Runners
  <2>1. q = p
    BY DEF Scheduled
  <2>2. run'[q] = x
    BY <2>1 DEF TypeInv, TypeOK
  <2> QED BY <2>2
<1>2. \A a \in Adders : add'[a] # NoAdd => AddCurrent(add[a])'
  <2> TAKE a \in Adders
  <2> HAVE add'[a] # NoAdd
  <2>1. add'[a] = add[a] /\ add[a] \in Add /\ add[a].repo \in Repos /\ AddCurrent(add[a])
    BY DEF TypeInv, TypeOK, ETagInv
  <2>2. day' = day /\ now' >= now
    BY SeenIsNat DEF world
  <2> QED BY <2>1, <2>2, AddKept
<1>3. \A r \in Repos : reg'[r].seen <= now'
  BY DEF ETagInv
<1> QED BY <1>1, <1>2, <1>3 DEF ETagInv

(* A step of the run that stores no count and no ETag. *)
LEMMA QuietStepKeeps ==
    ASSUME TypeInv, TypeInv', Scheduled, ETagInv, NEW p \in Runners, NEW x \in Run,
           run' = [run EXCEPT ![p] = x], RunInv(x),
           \A r \in Repos : reg'[r].seen = reg[r].seen /\ reg'[r].etag = reg[r].etag,
           \A r \in Repos, d \in Days : Successful(r, d) => snap'[r][d] = snap[r][d],
           \A r \in Repos, d \in Days : ~NewSuccess(r, d),
           UNCHANGED <<world, now, add, imported>>
    PROVE  ETagInv'
<1>1. UNCHANGED <<version, day, opening>>
  BY DEF world
<1>2. Forward
  <2>1. \A r \in Repos : reg[r].seen <= reg'[r].seen /\ version[r] <= version'[r]
    BY <1>1, SeenIsNat
  <2>2. day' >= day /\ day' \in Days
    <3>1. day \in Days
      BY DEF TypeInv, TypeOK
    <3> QED BY <1>1, <3>1, SeenIsNat
  <2> QED BY <1>1, <2>1, <2>2 DEF Forward
<1>3. Elsewhere /\ ETagsDropped
  BY <1>2 DEF Elsewhere, ETagsDropped
<1>4. x.pc # "idle" => x.left # {} /\ x.date \in 1..day
  <2>1. run'[p] = x
    BY DEF TypeInv, TypeOK
  <2>2. ~At(p, "idle")' => run'[p].left # {} /\ run'[p].date \in 1..day'
    BY DEF TypeInv
  <2> QED BY <1>1, <2>1, <2>2 DEF At
<1>5. RunInv(x)'
  BY <1>3, <1>4, RunKept DEF TypeInv
<1>6. \A r \in Repos : CountsWithin(r)' /\ ETagBacked(r)'
  BY <1>2, <1>3, OpeningsKept, TablesKept
<1> QED BY <1>2, <1>5, <1>6, OwnStepKeeps

(* The next run record is as good as the last one. *)
LEMMA NextRunInv ==
    ASSUME TypeInv, ETagInv, NEW p \in Runners, ~At(p, "idle"), NextRepository(p)
    PROVE  \E x : run' = [run EXCEPT ![p] = x] /\ RunInv(x)
                  /\ x.left \subseteq run[p].left \ {Current(p)}
                  /\ (x.pc # "idle" => x.date = run[p].date /\ x.copy = run[p].copy)
                  /\ x.pc \in {"idle", "lookup"}
<1> DEFINE rest == run[p].left \ {Current(p)}
           y == [NoRun EXCEPT !.pc = "lookup", !.date = run[p].date,
                              !.left = rest, !.copy = run[p].copy]
           x == IF rest = {} THEN NoRun ELSE y
<1>1. run' = [run EXCEPT ![p] = x]
  BY DEF NextRepository
<1>2. NoRun.pc = "idle" /\ NoRun.left = {}
  BY DEF NoRun
<1>3. RunInv(NoRun)
  BY <1>2 DEF RunInv, RowsListed, CopiesBacked, SentBacked, AnswerCurrent, RunQuiet
<1>4. y.pc = "lookup" /\ y.date = run[p].date /\ y.left = rest /\ y.copy = run[p].copy
  BY DEF NoRun
<1>5. RunInv(run[p])
  BY DEF ETagInv
<1> HIDE DEF y
<1>6. RowsListed(y) /\ SentBacked(y) /\ AnswerCurrent(y)
  BY <1>4, <1>5 DEF RunInv, RowsListed, SentBacked, AnswerCurrent
<1>7. CopiesBacked(y)
  BY <1>4, <1>5 DEF RunInv, CopiesBacked
<1>8. RunQuiet(y)
  BY <1>4, <1>5 DEF RunInv, RunQuiet
<1>9. RunInv(x)
  BY <1>3, <1>4, <1>6, <1>7, <1>8 DEF RunInv
<1>10. /\ x.left \subseteq rest
       /\ (x.pc # "idle" => x.date = run[p].date /\ x.copy = run[p].copy)
       /\ x.pc \in {"idle", "lookup"}
  BY <1>2, <1>4
<1> HIDE DEF x
<1> QED BY <1>1, <1>9, <1>10

LEMMA RunRecord ==
    ASSUME TypeInv, NEW p \in Runners
    PROVE  /\ run[p] \in Run /\ run[p].left \subseteq Repos /\ run[p].copy \in [Repos -> Row]
           /\ run[p].date \in Nat /\ run[p].sent \in Nat /\ run[p].etag \in Nat
           /\ run[p].stars \in Nat
           /\ \A r \in Repos : run[p].copy[r].seen \in Nat /\ run[p].copy[r].etag \in Nat
<1>1. run[p] \in Run
  BY DEF TypeInv, TypeOK
<1>2. run[p].left \subseteq Repos /\ run[p].copy \in [Repos -> Row]
  BY <1>1 DEF Run
<1>3. /\ run[p].date \in Nat /\ run[p].sent \in Nat /\ run[p].etag \in Nat
      /\ run[p].stars \in Nat
  BY <1>1, Constants DEF Run
<1>4. \A r \in Repos : run[p].copy[r].seen \in Nat /\ run[p].copy[r].etag \in Nat
  BY <1>2, Constants DEF Row
<1> QED BY <1>1, <1>2, <1>3, <1>4

LEMMA BeginKeeps ==
    ASSUME TypeInv, TypeInv', Scheduled, ETagInv, NEW p \in Runners, Begin(p)
    PROVE  ETagInv'
<1> DEFINE active == {r \in Repos : Known(r) /\ reg[r].monitor = "active"}
           x == [NoRun EXCEPT !.pc = "lookup", !.date = day, !.left = active, !.copy = reg]
<1>1. run' = [run EXCEPT ![p] = x] /\ UNCHANGED <<world, now, reg, snap, add, imported>>
  BY DEF Begin
<1>2. x.pc = "lookup" /\ x.date = day /\ x.left = active /\ x.copy = reg
  BY DEF NoRun
<1>3. x \in Run
  <2>1. run'[p] = x /\ run'[p] \in Run
    BY <1>1 DEF TypeInv, TypeOK
  <2> QED BY <2>1
<1> HIDE DEF x
<1>4. RowsListed(x)
  BY <1>2, SeenIsNat DEF RowsListed, Known
<1>5. CopiesBacked(x)
  <2> SUFFICES ASSUME NEW r \in Repos, reg[r].etag # 0
               PROVE  \E d \in 1..day : Backs(r, reg[r].etag, d, day - 1)
    BY <1>2 DEF CopiesBacked
  <2>1. PICK d \in 1..day : Backs(r, reg[r].etag, d, day)
    BY DEF ETagInv, ETagBacked
  <2>2. \A f \in d..(day - 1) : f \in d..day
    BY SeenIsNat
  <2> QED BY <2>1, <2>2 DEF Backs
<1>6. SentBacked(x) /\ AnswerCurrent(x)
  BY <1>2 DEF SentBacked, AnswerCurrent
<1>7. RunQuiet(x)
  <2>1. \A r \in Repos, f \in Days : f > day => ~Successful(r, f)
    BY SeenIsNat, Constants DEF ETagInv, CountsWithin
  <2> QED BY <1>2, <2>1 DEF RunQuiet
<1>8. RunInv(x)
  BY <1>2, <1>4, <1>5, <1>6, <1>7 DEF RunInv
<1> QED BY <1>1, <1>3, <1>8, NoNewSuccess, QuietStepKeeps

(* One that goes on with the same repository. *)
LEMMA SameRepositoryKeeps ==
    ASSUME TypeInv, TypeInv', Scheduled, ETagInv, NEW p \in Runners, NEW x,
           ~At(p, "idle"), run' = [run EXCEPT ![p] = x], x.pc # "idle",
           x.left = run[p].left, x.date = run[p].date, x.copy = run[p].copy,
           x.pc # "register",
           x.pc = "condition" => ~Successful(Current(p), x.date),
           x.pc \in {"fetch", "baseline", "put"} =>
              run[p].pc \in {"condition", "fetch", "baseline", "put"},
           SentBacked(x), AnswerCurrent(x),
           UNCHANGED <<world, now, reg, snap, add, imported>>
    PROVE  ETagInv'
<1>1. x \in Run
  <2>1. run'[p] = x /\ run'[p] \in Run
    BY DEF TypeInv, TypeOK
  <2> QED BY <2>1
<1>2. RunInv(run[p])
  BY DEF ETagInv
<1>3. RowsListed(x)
  BY <1>2 DEF RunInv, RowsListed
<1>4. CopiesBacked(x)
  <2> SUFFICES ASSUME NEW r \in x.left, x.copy[r].etag # 0
               PROVE  \E d \in 1..x.date :
                         /\ Backs(r, x.copy[r].etag, d, x.date - 1)
                         /\ r = Min(x.left) /\ x.pc = "condition" => d # x.date
    BY DEF CopiesBacked
  <2>1. PICK d \in 1..x.date : Backs(r, x.copy[r].etag, d, x.date - 1)
    BY <1>2 DEF RunInv, CopiesBacked
  <2>2. r = Min(x.left) /\ x.pc = "condition" => d # x.date
    BY <2>1 DEF Current, Backs, Successful, Success
  <2> QED BY <2>1, <2>2
<1>5. RunQuiet(x)
  <2> SUFFICES ASSUME NEW r \in x.left, reg[r].seen = x.copy[r].seen
               PROVE  /\ \A f \in Days : f > x.date => ~Successful(r, f)
                      /\ r = Min(x.left) /\ x.pc \in {"condition", "fetch", "baseline", "put"} =>
                            ~Successful(r, x.date)
    BY DEF RunQuiet
  <2> QED BY <1>2 DEF RunInv, RunQuiet, Current
<1>6. RunInv(x)
  BY <1>3, <1>4, <1>5 DEF RunInv
<1> QED BY <1>1, <1>6, NoNewSuccess, QuietStepKeeps

LEMMA LookupKeeps ==
    ASSUME TypeInv, TypeInv', Scheduled, ETagInv, NEW p \in Runners, Lookup(p)
    PROVE  ETagInv'
<1> DEFINE x == [run[p] EXCEPT !.pc = "condition"]
<1>1. run' = [run EXCEPT ![p] = x] /\ UNCHANGED <<world, now, reg, snap, add, imported>>
      /\ ~At(p, "idle") /\ ~Successful(Current(p), run[p].date)
  BY DEF Lookup, Goto, Successful, At
<1>2. /\ x.pc = "condition" /\ x.left = run[p].left /\ x.date = run[p].date
      /\ x.copy = run[p].copy
  BY RunRecord DEF Run
<1> HIDE DEF x
<1>3. SentBacked(x) /\ AnswerCurrent(x)
  BY <1>2 DEF SentBacked, AnswerCurrent
<1> QED BY <1>1, <1>2, <1>3, SameRepositoryKeeps

(* The ETag is sent only with a stored count of an earlier day. *)
LEMMA ConditionKeeps ==
    ASSUME TypeInv, TypeInv', Scheduled, ETagInv, NEW p \in Runners, Condition(p)
    PROVE  ETagInv'
<1> DEFINE x == [run[p] EXCEPT !.pc = "fetch", !.sent = SafeETag(p)]
<1>1. run' = [run EXCEPT ![p] = x] /\ UNCHANGED <<world, now, reg, snap, add, imported>>
      /\ ~At(p, "idle") /\ run[p].pc = "condition"
  BY DEF Condition, At
<1>2. /\ x.pc = "fetch" /\ x.left = run[p].left /\ x.date = run[p].date
      /\ x.copy = run[p].copy /\ x.sent = SafeETag(p)
  BY RunRecord DEF Run
<1> HIDE DEF x
<1>3. SentBacked(x)
  <2> SUFFICES ASSUME x.sent # 0
               PROVE  \E d \in 1..(x.date - 1) : Backs(Current(p), x.sent, d, x.date - 1)
    BY <1>2 DEF SentBacked, Current
  <2>1. x.sent = run[p].copy[Current(p)].etag
    BY <1>2 DEF SafeETag
  <2>2. Current(p) \in run[p].left
    BY <1>1, CurrentIsLeft
  <2>3. PICK d \in 1..run[p].date :
                Backs(Current(p), x.sent, d, run[p].date - 1) /\ d # run[p].date
    BY <1>1, <2>1, <2>2 DEF ETagInv, RunInv, CopiesBacked, Current
  <2>4. d \in 1..(x.date - 1)
    BY <1>2, <2>3, RunRecord
  <2> QED BY <1>2, <2>3, <2>4
<1>4. AnswerCurrent(x)
  BY <1>2 DEF AnswerCurrent
<1> QED BY <1>1, <1>2, <1>3, <1>4, SameRepositoryKeeps

(* A stored ETag is not ahead of GitHub. *)
LEMMA ETagIsPast ==
    ASSUME TypeInv, ETagInv, NEW r \in Repos
    PROVE  reg[r].etag <= version[r]
<1>1. CASE reg[r].etag = 0
  BY <1>1, SeenIsNat
<1>2. CASE reg[r].etag # 0
  <2>1. PICK d \in 1..day : snap[r][d] = Success(reg[r].etag)
    BY <1>2 DEF ETagInv, ETagBacked, Backs
  <2>2. d \in Days
    BY DailySnapshotsAssumption DEF TypeInv, TypeOK, Days
  <2> QED BY <2>1, <2>2 DEF ETagInv, CountsWithin, Successful, Success
<1> QED BY <1>1, <1>2

LEMMA FetchKeeps ==
    ASSUME TypeInv, TypeInv', Scheduled, ETagInv, NEW p \in Runners, Fetch(p)
    PROVE  ETagInv'
<1> DEFINE r == Current(p)
           v == version[r]
           date == run[p].date
<1>1. ~At(p, "idle") /\ run[p].pc = "fetch" /\ UNCHANGED <<world, now, reg, snap, add, imported>>
  BY DEF Fetch, At
<1>2. r \in Repos /\ date \in Days /\ date \in 1..day /\ run[p].left # {} /\ v \in Nat /\ v # 0
  BY <1>1, CurrentIsLeft, SeenIsNat DEF TypeInv, TypeOK
<1>3. RunInv(run[p])
  BY DEF ETagInv
<1>4. /\ opening[date][r] <= v /\ reg[r].etag <= v
      /\ \A f \in 1..(date - 1) : Successful(r, f) => snap[r][f].stars <= v
  <2>1. opening[date][r] <= v /\ reg[r].etag <= v
    BY <1>2, ETagIsPast DEF ETagInv, CountsWithin
  <2>2. \A f \in 1..(date - 1) : f \in Days
    BY <1>2, DailySnapshotsAssumption DEF Days
  <2> QED BY <1>2, <2>1, <2>2 DEF ETagInv, CountsWithin
<1>5. ASSUME NEW x, run' = [run EXCEPT ![p] = x],
             x.left = run[p].left, x.date = date, x.copy = run[p].copy,
             x.pc \in {"baseline", "put", "failure"}, x.sent = run[p].sent,
             x.pc # "failure" => x.etag = v,
             x.pc = "baseline" => x.sent = v,
             x.pc = "put" => x.stars = v
      PROVE  ETagInv'
  <2>1. SentBacked(x)
    BY <1>1, <1>3, <1>5 DEF RunInv, SentBacked
  <2>2. AnswerCurrent(x)
    BY <1>2, <1>4, <1>5 DEF AnswerCurrent, Current
  <2> QED BY <1>1, <1>5, <2>1, <2>2, SameRepositoryKeeps
<1>6. CASE run[p].sent = v /\ run' = [run EXCEPT ![p].pc = "baseline", ![p].etag = v]
  <2> DEFINE x == [run[p] EXCEPT !.pc = "baseline", !.etag = v]
  <2>0. run' = [run EXCEPT ![p] = x]
    BY <1>6
  <2>1. /\ run' = [run EXCEPT ![p] = x] /\ x.left = run[p].left /\ x.date = date
        /\ x.copy = run[p].copy /\ x.pc = "baseline" /\ x.sent = run[p].sent /\ x.etag = v
    BY <2>0, RunRecord DEF Run
  <2> HIDE DEF x
  <2> QED BY <1>5, <1>6, <2>1
<1>7. ASSUME NEW topics \in TopicsSent,
             run' = [run EXCEPT ![p].pc = "put", ![p].etag = v, ![p].stars = v, ![p].topics = topics]
      PROVE  ETagInv'
  <2> DEFINE x == [run[p] EXCEPT !.pc = "put", !.etag = v, !.stars = v, !.topics = topics]
  <2>0. run' = [run EXCEPT ![p] = x]
    BY <1>7
  <2>1. /\ run' = [run EXCEPT ![p] = x] /\ x.left = run[p].left /\ x.date = date
        /\ x.copy = run[p].copy /\ x.pc = "put" /\ x.sent = run[p].sent /\ x.etag = v /\ x.stars = v
    BY <2>0, RunRecord DEF Run
  <2> HIDE DEF x
  <2> QED BY <1>5, <2>1
<1>8. ASSUME NEW error, run' = [run EXCEPT ![p].pc = "failure", ![p].error = error]
      PROVE  ETagInv'
  <2> DEFINE x == [run[p] EXCEPT !.pc = "failure", !.error = error]
  <2>0. run' = [run EXCEPT ![p] = x]
    BY <1>8
  <2>1. /\ run' = [run EXCEPT ![p] = x] /\ x.left = run[p].left /\ x.date = date
        /\ x.copy = run[p].copy /\ x.pc = "failure" /\ x.sent = run[p].sent
    BY <2>0, RunRecord DEF Run
  <2> HIDE DEF x
  <2> QED BY <1>5, <2>1
<1> QED BY <1>6, <1>7, <1>8 DEF Fetch

(* The latest success before the run's day has the count of the ETag. *)
LEMMA BaselineIsCurrent ==
    ASSUME TypeInv, ETagInv, NEW p \in Runners, At(p, "baseline"),
           NEW d \in LatestSuccess(Current(p), run[p].date - 1)
    PROVE  snap[Current(p)][d].stars = run[p].etag
<1> DEFINE r == Current(p)
           x == run[p]
<1>1. RunInv(x) /\ x.pc = "baseline" /\ r = Min(x.left)
  BY DEF ETagInv, At, Current
<1>2. r \in Repos /\ x.date \in Days /\ x.date \in Nat /\ x.etag \in Nat
  BY <1>1, CurrentIsLeft, RunRecord DEF At
<1>3. x.sent = x.etag /\ x.sent # 0
      /\ \A f \in 1..(x.date - 1) : Successful(r, f) => snap[r][f].stars <= x.etag
  BY <1>1 DEF RunInv, AnswerCurrent
<1>4. PICK e \in 1..(x.date - 1) : Backs(r, x.sent, e, x.date - 1)
  BY <1>1, <1>3 DEF RunInv, SentBacked
<1>5. d \in Days /\ d <= x.date - 1 /\ Successful(r, d)
      /\ \A f \in Days : d < f /\ f <= x.date - 1 => ~Successful(r, f)
  BY DEF LatestSuccess, Successful
<1>6. e \in Days /\ Successful(r, e)
  BY <1>2, <1>4, DailySnapshotsAssumption DEF Backs, Successful, Success, Days
<1>7. d \in Nat /\ 1 <= d /\ e \in Nat
  BY <1>5, <1>6, DailySnapshotsAssumption DEF Days
<1>8. e <= d
  BY <1>4, <1>5, <1>6, <1>7
<1>9. snap[r][d].stars >= x.sent /\ snap[r][d].stars <= x.etag
  BY <1>2, <1>3, <1>4, <1>5, <1>7, <1>8 DEF Backs
<1>10. snap[r][d].stars \in Nat
  BY <1>2, <1>5, SuccessType DEF TypeInv
<1> QED BY <1>2, <1>3, <1>9, <1>10

LEMMA BaselineKeeps ==
    ASSUME TypeInv, TypeInv', Scheduled, ETagInv, NEW p \in Runners, Baseline(p)
    PROVE  ETagInv'
<1>1. ~At(p, "idle") /\ run[p].pc = "baseline" /\ UNCHANGED <<world, now, reg, snap, add, imported>>
  BY DEF Baseline, At
<1>2. RunInv(run[p])
  BY DEF ETagInv
<1>3. ASSUME NEW d \in LatestSuccess(Current(p), run[p].date - 1),
             run' = [run EXCEPT ![p].pc = "put", ![p].stars = snap[Current(p)][d].stars]
      PROVE  ETagInv'
  <2> DEFINE x == [run[p] EXCEPT !.pc = "put", !.stars = snap[Current(p)][d].stars]
  <2>0. run' = [run EXCEPT ![p] = x]
    BY <1>3
  <2>1. /\ run' = [run EXCEPT ![p] = x] /\ x.left = run[p].left /\ x.date = run[p].date
        /\ x.copy = run[p].copy /\ x.pc = "put" /\ x.etag = run[p].etag
        /\ x.stars = snap[Current(p)][d].stars
    BY <2>0, RunRecord DEF Run
  <2> HIDE DEF x
  <2>2. x.stars = x.etag
    BY <1>1, <2>1, BaselineIsCurrent DEF At
  <2>3. SentBacked(x) /\ AnswerCurrent(x)
    BY <1>1, <1>2, <2>1, <2>2 DEF RunInv, SentBacked, AnswerCurrent
  <2> QED BY <1>1, <2>1, <2>3, SameRepositoryKeeps
<1>4. CASE run' = [run EXCEPT ![p].pc = "failure", ![p].error = "other"]
  <2> DEFINE x == [run[p] EXCEPT !.pc = "failure", !.error = "other"]
  <2>0. run' = [run EXCEPT ![p] = x]
    BY <1>4
  <2>1. /\ run' = [run EXCEPT ![p] = x] /\ x.left = run[p].left /\ x.date = run[p].date
        /\ x.copy = run[p].copy /\ x.pc = "failure"
    BY <2>0, RunRecord DEF Run
  <2> HIDE DEF x
  <2>2. SentBacked(x) /\ AnswerCurrent(x)
    BY <2>1 DEF SentBacked, AnswerCurrent
  <2> QED BY <1>1, <2>1, <2>2, SameRepositoryKeeps
<1> QED BY <1>3, <1>4 DEF Baseline

LEMMA PutKeeps ==
    ASSUME TypeInv, TypeInv', Scheduled, ETagInv, NEW p \in Runners, Put(p)
    PROVE  ETagInv'
<1>0. ~At(p, "idle") /\ run[p].pc = "put" /\ UNCHANGED <<world, now, reg, add, imported>>
  BY DEF Put, At
<1>1. PICK r \in Repos, date \in Days, stars \in Nat, x \in Run :
           /\ r = Current(p) /\ date = run[p].date /\ stars = run[p].stars
           /\ x = [run[p] EXCEPT !.pc = "register"]
  <2>1. [run[p] EXCEPT !.pc = "register"] \in Run
    BY RunRecord DEF Run
  <2> QED BY <1>0, <2>1, CurrentIsLeft, RunRecord
<1>2. UNCHANGED <<version, day, opening>>
  BY <1>0 DEF world
<1>3. /\ x.pc = "register" /\ x.left = run[p].left /\ x.date = date /\ x.copy = run[p].copy
      /\ x.etag = run[p].etag /\ x.stars = stars
  BY <1>1, RunRecord DEF Run
<1>4. run' = [run EXCEPT ![p] = x] /\ PutSnapshot(r, date, Success(stars))
  BY <1>1 DEF Put, Goto
<1>5. /\ r = Min(run[p].left) /\ date \in 1..day /\ date \in Nat
      /\ run[p].left \subseteq Repos /\ day \in Nat
  BY <1>0, <1>1, RunRecord, SeenIsNat DEF TypeInv, Current
<1>6. RunInv(run[p])
  BY DEF ETagInv
<1>7. /\ opening[date][r] <= stars /\ stars <= version[r] /\ reg[r].etag <= stars
      /\ stars = run[p].etag
  BY <1>0, <1>1, <1>5, <1>6 DEF RunInv, AnswerCurrent
<1>8. \A q \in Repos, e \in Days : snap'[q][e] # snap[q][e] =>
         q = r /\ e = date /\ ~Successful(q, e) /\ snap'[q][e] = Success(stars)
  BY <1>4, <1>5, PutChanges DEF TypeInv, Successful
<1>9. Forward
  <2>1. \A q \in Repos, e \in Days : Successful(q, e) => snap'[q][e] = snap[q][e]
    BY <1>8
  <2>2. day' >= day /\ day' \in Days
    <3>1. day \in Days
      BY DEF TypeInv, TypeOK
    <3> QED BY <1>2, <3>1, SeenIsNat
  <2> QED BY <1>0, <1>2, <2>1, <2>2, SeenIsNat DEF Forward
<1>10. \A q \in Repos, e \in Days : NewSuccess(q, e) =>
          q = r /\ e = date /\ snap'[q][e].stars = stars
  BY <1>8 DEF NewSuccess, Successful, Success
<1>11. \A q \in Repos : CountsWithin(q)' /\ ETagBacked(q)'
  <2> TAKE q \in Repos
  <2>1. \A d \in Days : NewSuccess(q, d) =>
           d <= day' /\ opening'[d][q] <= snap'[q][d].stars /\ snap'[q][d].stars <= version'[q]
    BY <1>2, <1>5, <1>7, <1>10
  <2>2. CountsWithin(q)'
    BY <1>0, <1>9, <2>1, OpeningsKept, CountsKept DEF ETagInv
  <2>3. \A d \in Days : NewSuccess(q, d) => snap'[q][d].stars >= reg[q].etag
    BY <1>7, <1>10
  <2>4. ETagBacked(q)'
    BY <1>0, <1>9, <2>3, ETagKept DEF ETagInv
  <2> QED BY <2>2, <2>4
<1>12. RowsListed(x)'
  BY <1>0, <1>3, <1>6 DEF RunInv, RowsListed
<1>13. CopiesBacked(x)'
  <2> SUFFICES ASSUME NEW q \in x.left, x.copy[q].etag # 0
               PROVE  \E d \in 1..x.date : Backs(q, x.copy[q].etag, d, x.date - 1)'
    BY <1>3 DEF CopiesBacked
  <2>1. PICK d \in 1..date : Backs(q, x.copy[q].etag, d, date - 1)
    BY <1>1, <1>3, <1>6 DEF RunInv, CopiesBacked
  <2>2. q \in Repos /\ d \in Days
    BY <1>3, <1>5, DailySnapshotsAssumption DEF Days
  <2>3. snap'[q][d] = snap[q][d]
    BY <1>8, <2>1, <2>2 DEF Backs, Successful, Success
  <2>4. \A f \in d..(date - 1) : snap'[q][f] = snap[q][f]
    <3> TAKE f \in d..(date - 1)
    <3>1. f \in Days /\ f # date
      BY <1>5, DailySnapshotsAssumption DEF Days
    <3> QED BY <1>8, <2>2, <3>1
  <2>5. Backs(q, x.copy[q].etag, d, date - 1)'
    BY <2>1, <2>3, <2>4 DEF Backs, Successful
  <2> QED BY <1>3, <2>5
<1>14. SentBacked(x)'
  BY <1>3 DEF SentBacked
<1>15. AnswerCurrent(x)'
  BY <1>0, <1>1, <1>2, <1>3, <1>6 DEF RunInv, AnswerCurrent
<1>16. RunQuiet(x)'
  <2> SUFFICES ASSUME NEW q \in x.left, reg[q].seen = x.copy[q].seen
               PROVE  /\ \A f \in Days : f > x.date => ~Successful(q, f)'
                      /\ q = Min(x.left) => snap'[q][x.date] = Success(x.stars)
    BY <1>0, <1>3 DEF RunQuiet
  <2>1. q \in Repos /\ q \in run[p].left
    BY <1>3, <1>5
  <2>2. ASSUME NEW f \in Days, f > date PROVE ~Successful(q, f)'
    <3>1. ~Successful(q, f)
      BY <1>1, <1>3, <1>6, <2>1, <2>2 DEF RunInv, RunQuiet
    <3>2. f # date
      BY <1>5, <2>2
    <3> QED BY <1>8, <2>1, <3>1, <3>2 DEF Successful
  <2>3. CASE q = r
    <3>1. ~Successful(r, date)
      BY <1>0, <1>1, <1>3, <1>5, <1>6, <2>1, <2>3 DEF RunInv, RunQuiet
    <3>2. snap' = [snap EXCEPT ![r] = [snap[r] EXCEPT ![date] = Stored(snap[r][date], Success(stars))]]
      BY <1>4 DEF PutSnapshot
    <3>3. snap'[r][date] = Stored(snap[r][date], Success(stars))
      BY <1>5, <3>2 DEF TypeInv, TypeOK
    <3>4. Stored(snap[r][date], Success(stars)) = Success(stars)
      BY <3>1 DEF Stored, Successful, Success
    <3> QED BY <1>3, <2>2, <2>3, <3>3, <3>4
  <2> QED BY <1>3, <1>5, <2>2, <2>3
<1>17. RunInv(x)'
  BY <1>3, <1>12, <1>13, <1>14, <1>15, <1>16 DEF RunInv
<1> QED BY <1>0, <1>4, <1>9, <1>11, <1>17, OwnStepKeeps

(* The answer's ETag is adopted only by the row that was listed; then the  *)
(* run's own count is the latest one.                                      *)
LEMMA RegisterKeeps ==
    ASSUME TypeInv, TypeInv', Scheduled, ETagInv, NEW p \in Runners, Register(p)
    PROVE  ETagInv'
<1>0. /\ ~At(p, "idle") /\ run[p].pc = "register" /\ NextRepository(p)
      /\ UNCHANGED <<world, now, snap, add, imported>>
  BY DEF Register, At
<1>1. PICK r \in Repos, date \in Days, etag \in Nat, old \in Row :
           r = Current(p) /\ date = run[p].date /\ etag = run[p].etag /\ old = run[p].copy[r]
  BY <1>0, CurrentIsLeft, RunRecord
<1>2. UNCHANGED <<version, day, opening>>
  BY <1>0 DEF world
<1> DEFINE row == reg[r]
           o == [at |-> old.seen, source |-> old.source, etag |-> etag,
                 topics |-> run[p].topics, monitor |-> old.monitor]
           y == Upserted(row, o)
<1>20. reg' = [reg EXCEPT ![r] = y]
  BY <1>1 DEF Register, Upsert
<1>3. /\ r \in run[p].left /\ r = Min(run[p].left) /\ date \in 1..day /\ day \in Nat
      /\ old.seen \in Nat /\ reg \in [Repos -> Row] /\ row.seen \in Nat
  BY <1>0, <1>1, CurrentIsLeft, RunRecord, SeenIsNat DEF TypeInv, TypeOK, Current
<1>4. RunInv(run[p])
  BY DEF ETagInv
<1>5. 0 < old.seen /\ old.seen <= row.seen
  BY <1>1, <1>3, <1>4 DEF RunInv, RowsListed
<1>6. o.at = old.seen /\ o.etag = etag
  OBVIOUS
<1> HIDE DEF o
<1>7. y.seen = row.seen /\ y.etag = MergedETag(row, o)
  BY <1>3, <1>5, <1>6 DEF Upserted, Merged
<1>8. y.etag \in {0, row.etag} \/ (y.etag = etag /\ row.seen = old.seen)
  BY <1>3, <1>5, <1>6, <1>7 DEF MergedETag, Latest
<1> HIDE DEF y
<1>9. \A q \in Repos : reg'[q].seen = reg[q].seen
  BY <1>20, <1>3, <1>7
<1>10. Forward
  <2>1. day' >= day /\ day' \in Days
    <3>1. day \in Days
      BY DEF TypeInv, TypeOK
    <3> QED BY <1>2, <3>1, SeenIsNat
  <2> QED BY <1>0, <1>2, <1>9, <2>1, SeenIsNat, NoNewSuccess DEF Forward
<1>11. \A q \in Repos : CountsWithin(q)'
  BY <1>0, <1>10, OpeningsKept, NoNewSuccess, CountsKept DEF ETagInv
<1>12. ASSUME NEW q \in Repos, reg'[q].etag \in {0, reg[q].etag} PROVE ETagBacked(q)'
  BY <1>0, <1>10, <1>12, NoNewSuccess, ETagKept DEF ETagInv
<1>13. ASSUME y.etag = etag, row.seen = old.seen PROVE ETagBacked(r)'
  <2>1. snap[r][date] = Success(etag) /\ \A f \in Days : f > date => ~Successful(r, f)
    BY <1>0, <1>1, <1>3, <1>4, <1>13 DEF RunInv, RunQuiet, AnswerCurrent
  <2>2. reg'[r].etag = etag
    BY <1>20, <1>3, <1>13
  <2>3. \A f \in date..day : Successful(r, f) => snap[r][f].stars >= etag
    <3> SUFFICES ASSUME NEW f \in date..day, Successful(r, f) PROVE snap[r][f].stars >= etag
      OBVIOUS
    <3>1. f \in Days
      BY <1>3, DailySnapshotsAssumption DEF TypeInv, TypeOK, Days
    <3>2. f = date
      BY <1>3, <2>1, <3>1, DailySnapshotsAssumption DEF Days
    <3> QED BY <2>1, <3>2 DEF Success
  <2>4. Backs(r, etag, date, day)'
    BY <1>0, <1>2, <2>1, <2>3 DEF Backs, Successful
  <2> QED BY <1>2, <1>3, <2>2, <2>4 DEF ETagBacked
<1>14. \A q \in Repos : ETagBacked(q)'
  <2> TAKE q \in Repos
  <2>1. CASE q # r
    <3>1. reg'[q].etag = reg[q].etag
      BY <1>20, <1>3, <2>1
    <3> QED BY <1>12, <3>1
  <2>2. CASE q = r /\ y.etag \in {0, row.etag}
    <3>1. reg'[q].etag \in {0, reg[q].etag}
      BY <1>20, <1>3, <2>2
    <3> QED BY <1>12, <3>1
  <2>3. CASE q = r /\ y.etag = etag /\ row.seen = old.seen
    BY <1>13, <2>3
  <2> QED BY <1>8, <2>1, <2>2, <2>3
<1>15. PICK x : /\ run' = [run EXCEPT ![p] = x] /\ RunInv(x)
               /\ x.pc \in {"idle", "lookup"}
  BY <1>0, NextRunInv
<1>16. x \in Run /\ (x.pc # "idle" => x.left # {} /\ x.date \in 1..day)
  <2>1. run'[p] = x
    BY <1>15 DEF TypeInv, TypeOK
  <2> QED BY <1>2, <2>1 DEF TypeInv, TypeOK, At
<1>17. Elsewhere
  BY <1>0, <1>10, NoNewSuccess DEF Elsewhere
<1>18. RunInv(x)'
  BY <1>15, <1>16, <1>17, RunKept DEF TypeInv
<1> QED BY <1>0, <1>9, <1>10, <1>11, <1>14, <1>15, <1>16, <1>18, OwnStepKeeps

(* The steps that go on with the next repository or end the run. *)
LEMMA GoOnKeeps ==
    ASSUME TypeInv, TypeInv', Scheduled, ETagInv, NEW p \in Runners, NEW x,
           run' = [run EXCEPT ![p] = x], RunInv(x),
           \A r \in Repos : reg'[r].seen = reg[r].seen /\ reg'[r].etag = reg[r].etag,
           \A r \in Repos, d \in Days : snap'[r][d] = snap[r][d] \/
              (~Successful(r, d) /\ snap'[r][d].status # "success"),
           UNCHANGED <<world, now, add, imported>>
    PROVE  ETagInv'
<1>1. x \in Run
  <2>1. run'[p] = x /\ run'[p] \in Run
    BY DEF TypeInv, TypeOK
  <2> QED BY <2>1
<1>2. /\ \A r \in Repos, d \in Days : Successful(r, d) => snap'[r][d] = snap[r][d]
      /\ \A r \in Repos, d \in Days : ~NewSuccess(r, d)
  BY DEF NewSuccess, Successful
<1> QED BY <1>1, <1>2, QuietStepKeeps

LEMMA NoRunInv == RunInv(NoRun)
<1>1. NoRun.pc = "idle" /\ NoRun.left = {}
  BY DEF NoRun
<1> QED BY <1>1 DEF RunInv, RowsListed, CopiesBacked, SentBacked, AnswerCurrent, RunQuiet

LEMMA EndKeeps ==
    ASSUME TypeInv, TypeInv', Scheduled, ETagInv, NEW p \in Runners,
           Skip(p) \/ RecordFailure(p) \/ StopMonitoring(p) \/ Abort(p)
    PROVE  ETagInv'
<1>0. RunInv(run[p])
  BY DEF ETagInv
<1>1. CASE Skip(p)
  <2>1. ~At(p, "idle") /\ NextRepository(p) /\ UNCHANGED <<world, now, reg, snap, add, imported>>
    BY <1>1 DEF Skip, At
  <2>2. PICK x : run' = [run EXCEPT ![p] = x] /\ RunInv(x)
    BY <2>1, NextRunInv
  <2> QED BY <2>1, <2>2, GoOnKeeps
<1>2. CASE RecordFailure(p)
  <2>1. /\ ~At(p, "idle") /\ UNCHANGED <<world, now, reg, add, imported>>
    BY <1>2 DEF RecordFailure, At
  <2>2. \A r \in Repos, d \in Days : snap'[r][d] = snap[r][d] \/
           (~Successful(r, d) /\ snap'[r][d].status # "success")
    <3>1. CASE UNCHANGED snap
      BY <3>1
    <3>2. CASE snap' = [r \in Repos |->
                           IF r \in FailedRows(p)
                           THEN [snap[r] EXCEPT ![run[p].date] = Stored(@, Failed)]
                           ELSE snap[r]]
      <4> TAKE r \in Repos, d \in Days
      <4>1. snap'[r][d] = snap[r][d] \/ snap'[r][d] = Stored(snap[r][d], Failed)
        BY <3>2 DEF TypeInv, TypeOK
      <4> QED BY <4>1 DEF Stored, Failed, Successful
    <3> QED BY <1>2, <3>1, <3>2 DEF RecordFailure
  <2>3. PICK x : run' = [run EXCEPT ![p] = x] /\ RunInv(x)
    <3>1. CASE Goto(p, "stop")
      <4> DEFINE x == [run[p] EXCEPT !.pc = "stop"]
      <4>1. /\ run' = [run EXCEPT ![p] = x] /\ x.pc = "stop" /\ x.left = run[p].left
            /\ x.date = run[p].date /\ x.copy = run[p].copy
        BY <3>1, RunRecord DEF Goto, Run
      <4> HIDE DEF x
      <4>2. RowsListed(x) /\ SentBacked(x) /\ AnswerCurrent(x)
        BY <1>0, <4>1 DEF RunInv, RowsListed, SentBacked, AnswerCurrent
      <4>3. CopiesBacked(x)
        BY <1>0, <4>1 DEF RunInv, CopiesBacked
      <4>4. RunQuiet(x)
        BY <1>0, <4>1 DEF RunInv, RunQuiet
      <4>5. RunInv(x)
        BY <4>1, <4>2, <4>3, <4>4 DEF RunInv
      <4> QED BY <4>1, <4>5
    <3>2. CASE run' = [run EXCEPT ![p] = NoRun]
      BY <3>2, NoRunInv
    <3>3. CASE NextRepository(p)
      BY <2>1, <3>3, NextRunInv
    <3> QED BY <1>2, <3>1, <3>2, <3>3 DEF RecordFailure
  <2> QED BY <2>1, <2>2, <2>3, GoOnKeeps
<1>3. CASE StopMonitoring(p)
  <2>1. ~At(p, "idle") /\ NextRepository(p) /\ UNCHANGED <<world, now, snap, add, imported>>
    BY <1>3 DEF StopMonitoring, At
  <2>2. \A r \in Repos : reg'[r].seen = reg[r].seen /\ reg'[r].etag = reg[r].etag
    BY <1>3 DEF StopMonitoring, TypeInv, TypeOK, Row
  <2>3. PICK x : run' = [run EXCEPT ![p] = x] /\ RunInv(x)
    BY <2>1, NextRunInv
  <2> QED BY <2>1, <2>2, <2>3, GoOnKeeps
<1>4. CASE Abort(p)
  <2>1. run' = [run EXCEPT ![p] = NoRun] /\ UNCHANGED <<world, now, reg, snap, add, imported>>
    BY <1>4 DEF Abort
  <2> QED BY <2>1, NoRunInv, GoOnKeeps
<1> QED BY <1>1, <1>2, <1>3, <1>4

LEMMA ETagInvHolds == ASSUME Scheduled PROVE Spec => []ETagInv
<1>1. Init => ETagInv
  <2> SUFFICES ASSUME Init PROVE ETagInv
    OBVIOUS
  <2>1. imported = {} /\ (\A r \in Repos : reg[r].seen <= now)
    BY DEF Init, NoRow
  <2>2. \A r \in Repos : CountsWithin(r)
    BY DailySnapshotsAssumption DEF Init, CountsWithin, Successful, Missing, Days
  <2>3. \A r \in Repos : ETagBacked(r)
    BY DEF Init, ETagBacked, NoRow
  <2>4. \A a \in Adders : add[a] = NoAdd
    BY DEF Init
  <2>5. \A p \in Runners : RunInv(run[p])
    BY NoRunInv DEF Init
  <2> QED BY <2>1, <2>2, <2>3, <2>4, <2>5 DEF ETagInv
<1>2. TypeInv /\ TypeInv' /\ ETagInv /\ [Next]_vars => ETagInv'
  <2> SUFFICES ASSUME TypeInv, TypeInv', ETagInv, [Next]_vars PROVE ETagInv'
    OBVIOUS
  <2>1. CASE UNCHANGED vars
    <3>1. UNCHANGED <<version, day, opening, now, reg, snap, run, add, imported>>
      BY <2>1 DEF vars
    <3>2. \A r \in Repos : CountsWithin(r)'
      BY <3>1 DEF ETagInv, CountsWithin, Successful
    <3>3. \A r \in Repos : ETagBacked(r)'
      BY <3>1 DEF ETagInv, ETagBacked, Backs, Successful
    <3>4. \A a \in Adders : add'[a] # NoAdd => AddCurrent(add[a])'
      BY <3>1 DEF ETagInv, AddCurrent, Successful
    <3>5. \A p \in Runners : RunInv(run[p])'
      BY <3>1 DEF ETagInv, RunInv, RowsListed, CopiesBacked, SentBacked, Backs, Successful, AnswerCurrent, RunQuiet
    <3> QED BY <3>1, <3>2, <3>3, <3>4, <3>5 DEF ETagInv
  <2>2. CASE Midnight
    BY <2>2, MidnightKeeps
  <2>3. ASSUME NEW r \in Repos,
               \/ Change(r) \/ Discover(r) \/ WatchAdd(r) \/ Pause(r) \/ Resume(r)
               \/ FillTopics(r) \/ ImportLegacy(r) \/ ImportObservation(r)
               \/ \E a \in Adders : Resolve(a, r)
        PROVE  ETagInv'
    <3>1. ~ImportLegacy(r) /\ ~ImportObservation(r)
      BY DEF Scheduled, ImportLegacy, ETagInv, ImportObservation
    <3> QED BY <2>3, <3>1, ChangeKeeps, RegistryStepKeeps, ResolveKeeps
  <2>4. ASSUME NEW a \in Adders, StoreAdd(a) PROVE ETagInv'
    BY <2>4, StoreAddKeeps
  <2>5. ASSUME NEW p \in Runners, RunStep(p) PROVE ETagInv'
    BY <2>5, BeginKeeps, LookupKeeps, ConditionKeeps, FetchKeeps, BaselineKeeps, PutKeeps,
       RegisterKeeps, EndKeeps DEF RunStep
  <2> QED BY <2>1, <2>2, <2>3, <2>4, <2>5 DEF Next
<1> QED BY <1>1, <1>2, TypeInvHolds, PTL DEF Spec

(* A count copied for a 304 is the one GitHub still has: the ETag that was *)
(* sent belongs to the latest success before the run's day.                *)
THEOREM NotModifiedCorrect == ASSUME Scheduled PROVE Spec => []NotModifiedIsCurrent
<1>1. ETagInv => NotModifiedIsCurrent
  BY DEF ETagInv, RunInv, AnswerCurrent, NotModifiedIsCurrent, At
<1> QED BY <1>1, ETagInvHolds, PTL

(* No stored count is one from before its day. *)
THEOREM CountsCorrect == ASSUME Scheduled PROVE Spec => []CountsAreOfTheirDay
<1>1. TypeInv /\ ETagInv => CountsAreOfTheirDay
  <2> SUFFICES ASSUME TypeInv, ETagInv, NEW r \in Repos, NEW d \in Days,
                      snap[r][d].status = "success"
               PROVE  snap[r][d].stars >= opening[d][r]
    BY DEF CountsAreOfTheirDay
  <2>1. opening[d][r] <= snap[r][d].stars
    BY DEF ETagInv, CountsWithin, Successful
  <2> QED BY <2>1
<1> QED BY <1>1, TypeInvHolds, ETagInvHolds, PTL
=============================================================================
