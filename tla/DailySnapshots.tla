--------------------------- MODULE DailySnapshots ---------------------------
(***************************************************************************)
(* The daily star snapshots (service/snapshot/service.go), the registry    *)
(* rows they condition their requests on (store/sqlite/repository.go) and  *)
(* the other writers of both tables: discovery, the watch commands, the    *)
(* web's AddTracked, the tags import and the legacy import.                *)
(*                                                                         *)
(* A row of the registry caches the ETag of the last response.  A snapshot *)
(* run sends it, and a 304 answer makes it copy the star count of the last *)
(* successful snapshot: that is right only if ETag and snapshot belong     *)
(* together, although they are written by two transactions.                *)
(*                                                                         *)
(* GitHub's content of a repository is a version number; it stands for the *)
(* star count and for the ETag of that content (0: no ETag).  Instants     *)
(* (DiscoveredAt) are drawn from a counter.                                *)
(***************************************************************************)
EXTENDS Integers, FiniteSetsExt

CONSTANTS Runners,     \* processes that may execute a snapshot run
          Adders,      \* processes that may execute AddTracked or ImportTracked
          Repos,       \* repositories, numbered in the order of their full names
          Commands,    \* the other writers this instance runs, among AllCommands
          TopicsSent,  \* whether a full response carries topics: a set of BOOLEAN
          PromptAdds,  \* assume that neither a later observation nor midnight overtakes
                       \* an add in flight
          MaxDay,      \* bound: days
          MaxVersion,  \* bound: contents of a repository on GitHub
          MaxInstant   \* bound: instants drawn

AllCommands == {"discover", "add", "pause", "resume", "tags", "legacy"}

ASSUME DailySnapshotsAssumption ==
    /\ Repos \subseteq Nat
    /\ Commands \subseteq AllCommands
    /\ TopicsSent \subseteq BOOLEAN
    /\ TopicsSent # {}
    /\ PromptAdds \in BOOLEAN
    /\ MaxDay \in Nat \ {0}
    /\ MaxVersion \in Nat \ {0}
    /\ MaxInstant \in Nat \ {0}

Days     == 1..MaxDay
Versions == 0..MaxVersion
Instants == 0..MaxInstant

(* FirstSeenSource with its profile: "watchlist" is the manual source's    *)
(* config-watchlist profile, "manual" its other ones.                      *)
Sources  == {"found", "manual", "watchlist"}
Statuses == {"active", "paused", "stopped"}

(* A registry row; seen = 0 says that there is none. *)
Row == [seen    : Instants,      \* LastDiscoveredAt
        first   : Instants,      \* FirstSeenAt
        source  : Sources,
        etag    : Versions,
        topics  : BOOLEAN,       \* GitHubTopics is known
        monitor : Statuses]

NoRow == [seen |-> 0, first |-> 0, source |-> "found", etag |-> 0,
          topics |-> FALSE, monitor |-> "active"]

(* validateSnapshot: a success has a count, a failure has none. *)
Missing    == [status |-> "none", stars |-> 0]
Failed     == [status |-> "failed", stars |-> 0]
Success(n) == [status |-> "success", stars |-> n]

Snapshot == {Missing, Failed} \cup {Success(n) : n \in 1..MaxVersion}

Run == [pc    : {"idle", "lookup", "condition", "fetch", "baseline", "put",
                 "register", "failure", "stop"},
        date  : Days \cup {0},
        left  : SUBSET Repos,            \* repositories still to process
        copy  : [Repos -> Row],          \* the list read when the run began
        sent  : Versions,                \* ETag sent
        etag  : Versions,                \* ETag of the answer
        stars : Versions,
        topics : BOOLEAN,
        error : {"", "blocked", "mismatch", "other"}]

NoRun == [pc |-> "idle", date |-> 0, left |-> {}, copy |-> [r \in Repos |-> NoRow],
          sent |-> 0, etag |-> 0, stars |-> 0, topics |-> FALSE, error |-> ""]

Add == [repo : Repos \cup {-1}, at : Instants, date : Days \cup {0},
        stars : Versions, topics : BOOLEAN]

NoAdd == [repo |-> -1, at |-> 0, date |-> 0, stars |-> 0, topics |-> FALSE]

VARIABLES version,   \* version[r]: content of r on GitHub
          day,       \* the date in Shanghai
          opening,   \* opening[d][r]: content of r when day d began
          now,       \* the last instant drawn
          reg,       \* table repositories
          snap,      \* table daily_snapshots
          run,       \* run[p]: the snapshot run of p
          add,       \* add[a]: the add in flight at a
          imported   \* repositories the legacy import has registered

world == <<version, day, opening>>
vars  == <<version, day, opening, now, reg, snap, run, add, imported>>

TypeOK ==
    /\ version \in [Repos -> Versions \ {0}]
    /\ day     \in Days
    /\ opening \in [Days -> [Repos -> Versions]]
    /\ now     \in Instants
    /\ reg     \in [Repos -> Row]
    /\ snap    \in [Repos -> [Days -> Snapshot]]
    /\ run     \in [Runners -> Run]
    /\ add     \in [Adders -> Add]
    /\ imported \subseteq Repos

Init ==
    /\ version = [r \in Repos |-> 1]
    /\ day     = 1
    /\ opening = [d \in Days |-> [r \in Repos |-> IF d = 1 THEN 1 ELSE 0]]
    /\ now     = 0
    /\ reg     = [r \in Repos |-> NoRow]
    /\ snap    = [r \in Repos |-> [d \in Days |-> Missing]]
    /\ run     = [p \in Runners |-> NoRun]
    /\ add     = [a \in Adders |-> NoAdd]
    /\ imported = {}

-----------------------------------------------------------------------------
(* GitHub and the calendar *)

(* An add reads GitHub and the clock, then stores.  When adds are prompt,  *)
(* no later observation and no midnight falls in between.                  *)
Undisturbed == PromptAdds => \A a \in Adders : add[a] = NoAdd

Change(r) ==
    /\ version[r] < MaxVersion
    /\ version' = [version EXCEPT ![r] = @ + 1]
    /\ UNCHANGED <<day, opening, now, reg, snap, run, add, imported>>

Midnight ==
    /\ day < MaxDay
    /\ Undisturbed
    /\ day' = day + 1
    /\ opening' = [opening EXCEPT ![day + 1] = version]
    /\ UNCHANGED <<version, now, reg, snap, run, add, imported>>

-----------------------------------------------------------------------------
(* UpsertRepository *)

Known(r) == reg[r].seen # 0

Severity(status) == CASE status = "active" -> 0 [] status = "paused" -> 1 [] OTHER -> 2

(* An observation: instant, source, ETag (0: not supplied), whether topics *)
(* are supplied, monitoring status.                                        *)
Created(o) == [seen |-> o.at, first |-> o.at, source |-> o.source, etag |-> o.etag,
               topics |-> o.topics, monitor |-> o.monitor]

Latest(row, o) == o.at >= row.seen

(* Faulty variant: an older observation may replace the ETag. *)
MergedETagAlways(row, o) == IF o.etag # 0 THEN o.etag ELSE row.etag

(* The ETag of an older observation is not adopted, and topics that come   *)
(* from elsewhere drop the one that is stored.                             *)
MergedETag(row, o) ==
    IF o.etag # 0 /\ Latest(row, o) THEN o.etag
    ELSE IF o.topics /\ (Latest(row, o) \/ ~row.topics) THEN 0
    ELSE row.etag

(* Only an explicit manual observation lowers the severity. *)
MergedMonitor(row, o) ==
    IF o.source # "watchlist"
       /\ (o.source = "manual" \/ Severity(o.monitor) >= Severity(row.monitor))
    THEN o.monitor ELSE row.monitor

Merged(row, o) == [seen    |-> IF o.at > row.seen THEN o.at ELSE row.seen,
                   first   |-> IF o.at < row.first THEN o.at ELSE row.first,
                   source  |-> IF o.at < row.first THEN o.source ELSE row.source,
                   etag    |-> MergedETag(row, o),
                   topics  |-> row.topics \/ o.topics,
                   monitor |-> MergedMonitor(row, o)]

Upserted(row, o) == IF row.seen = 0 THEN Created(o) ELSE Merged(row, o)

Upsert(r, o) == reg' = [reg EXCEPT ![r] = Upserted(@, o)]

(* Faulty variant: the last write of a day stands. *)
StoredLast(old, new) == new

(* PutDailySnapshot: insert, repair a failure, protect a success. *)
Stored(old, new) ==
    IF old.status = "success" \/ (old.status = "failed" /\ new.status = "failed")
    THEN old ELSE new

PutSnapshot(r, d, s) == snap' = [snap EXCEPT ![r][d] = Stored(@, s)]

(* Faulty variant: a failed row counts too. *)
LatestRow(r, d) ==
    {e \in Days : /\ e <= d
                  /\ snap[r][e].status # "none"
                  /\ \A f \in Days : e < f /\ f <= d => snap[r][f].status = "none"}

(* GetLatestSuccessfulSnapshot: its day, if there is one. *)
LatestSuccess(r, d) ==
    {e \in Days : /\ e <= d
                  /\ snap[r][e].status = "success"
                  /\ \A f \in Days : e < f /\ f <= d => snap[r][f].status # "success"}

-----------------------------------------------------------------------------
(* The other writers *)

Draw == now < MaxInstant /\ now' = now + 1

(* Registry.Merge stores a candidate at its own, possibly older, instant.  *)
(* A candidate that a source found and the watchlist lists as well is kept *)
(* under the source that found it; persistAdditionalSources then observes  *)
(* it a second time as a manual one, without the watchlist's profile.      *)
Discover(r) ==
    /\ "discover" \in Commands
    /\ Undisturbed
    /\ \E at \in 1..(now + 1), source \in {"found", "watchlist"}, topics \in TopicsSent,
          monitor \in Statuses :
          LET o == [at |-> at, source |-> source, etag |-> 0, topics |-> topics,
                    monitor |-> monitor]
          IN  /\ at <= MaxInstant
              /\ now' = IF at > now THEN at ELSE now
              /\ \/ Upsert(r, o)
                 \/ /\ source = "found"
                    /\ reg' = [reg EXCEPT ![r] =
                                  Upserted(Upserted(@, o), [o EXCEPT !.source = "manual"])]
    /\ UNCHANGED <<world, snap, run, add, imported>>

(* watch add: a registry row without a snapshot. *)
WatchAdd(r) ==
    /\ "add" \in Commands
    /\ Undisturbed
    /\ Draw
    /\ \E topics \in TopicsSent :
          Upsert(r, [at |-> now + 1, source |-> "manual", etag |-> 0, topics |-> topics,
                     monitor |-> "active"])
    /\ UNCHANGED <<world, snap, run, add, imported>>

SetMonitoring(r, status) ==
    /\ Known(r)
    /\ reg' = [reg EXCEPT ![r].monitor = status]
    /\ UNCHANGED <<world, now, snap, run, add, imported>>

Pause(r)  == "pause" \in Commands /\ SetMonitoring(r, "paused")
Resume(r) == "resume" \in Commands /\ SetMonitoring(r, "active")

(* ImportRepositoryTags fills unknown topics and drops the ETag. *)
FillTopics(r) ==
    /\ "tags" \in Commands
    /\ Known(r)
    /\ ~reg[r].topics
    /\ reg' = [reg EXCEPT ![r].topics = TRUE, ![r].etag = 0]
    /\ UNCHANGED <<world, now, snap, run, add, imported>>

(* The contents r had during day d. *)
ContentsOf(r, d) == opening[d][r] .. (IF d < day THEN opening[d + 1][r] ELSE version[r])

(* ImportLegacy: a registry row at the instant the legacy database first   *)
(* saw it, with the ETag it holds (bound: one import of a repository) ...  *)
ImportLegacy(r) ==
    /\ "legacy" \in Commands
    /\ r \notin imported
    /\ Undisturbed
    /\ imported' = imported \cup {r}
    /\ \E at \in 1..(now + 1), etag \in 0..version[r], topics \in BOOLEAN, monitor \in Statuses :
          /\ at <= MaxInstant
          /\ now' = IF at > now THEN at ELSE now
          /\ Upsert(r, [at |-> at, source |-> "found", etag |-> etag, topics |-> topics,
                        monitor |-> monitor])
    /\ UNCHANGED <<world, snap, run, add>>

(* ... and then its observations, each a count of a day up to this one.    *)
ImportObservation(r) ==
    /\ r \in imported
    /\ \E d \in 1..day : \E stars \in ContentsOf(r, d) : PutSnapshot(r, d, Success(stars))
    /\ UNCHANGED <<world, now, reg, run, add, imported>>

(* AddTracked: the repository is read from GitHub ... *)
Resolve(a, r) ==
    /\ add[a] = NoAdd
    /\ Draw
    /\ \E topics \in TopicsSent :
          add' = [add EXCEPT ![a] = [repo |-> r, at |-> now + 1, date |-> day,
                                     stars |-> version[r], topics |-> topics]]
    /\ UNCHANGED <<world, reg, snap, run, imported>>

(* ... and PutWatchedRepository stores it with its first snapshot. *)
StoreAdd(a) ==
    /\ add[a] # NoAdd
    /\ add' = [add EXCEPT ![a] = NoAdd]
    /\ \/ /\ Upsert(add[a].repo, [at |-> add[a].at, source |-> "manual", etag |-> 0,
                                  topics |-> add[a].topics, monitor |-> "active"])
          /\ PutSnapshot(add[a].repo, add[a].date, Success(add[a].stars))
       \/ UNCHANGED <<reg, snap>>
    /\ UNCHANGED <<world, now, run, imported>>

-----------------------------------------------------------------------------
(* Service.Run *)

Current(p) == Min(run[p].left)

At(p, pc) == run[p].pc = pc

Goto(p, pc) == run' = [run EXCEPT ![p].pc = pc]

(* The loop goes on with the next repository, or the run ends. *)
NextRepository(p) ==
    LET rest == run[p].left \ {Current(p)} IN
    run' = [run EXCEPT ![p] = IF rest = {} THEN NoRun
                              ELSE [NoRun EXCEPT !.pc = "lookup", !.date = run[p].date,
                                                 !.left = rest, !.copy = run[p].copy]]

(* The date and the list of active repositories are read. *)
Begin(p) ==
    /\ At(p, "idle")
    /\ LET active == {r \in Repos : Known(r) /\ reg[r].monitor = "active"} IN
          /\ active # {}
          /\ run' = [run EXCEPT ![p] = [NoRun EXCEPT !.pc = "lookup", !.date = day,
                                                     !.left = active, !.copy = reg]]
    /\ UNCHANGED <<world, now, reg, snap, add, imported>>

Lookup(p) ==
    /\ At(p, "lookup")
    /\ snap[Current(p)][run[p].date].status # "success"
    /\ Goto(p, "condition")
    /\ UNCHANGED <<world, now, reg, snap, add, imported>>

(* safeETag: no condition without topics or without a baseline. *)
SafeETag(p) ==
    LET r == Current(p) IN
    IF run[p].copy[r].topics /\ LatestSuccess(r, run[p].date - 1) # {}
    THEN run[p].copy[r].etag ELSE 0

Condition(p) ==
    /\ At(p, "condition")
    /\ run' = [run EXCEPT ![p].pc = "fetch", ![p].sent = SafeETag(p)]
    /\ UNCHANGED <<world, now, reg, snap, add, imported>>

(* FetchRepositoryByID: 304 for the current ETag, a full response, or an error. *)
Fetch(p) ==
    LET v == version[Current(p)] IN
    /\ At(p, "fetch")
    /\ \/ /\ run[p].sent = v
          /\ run' = [run EXCEPT ![p].pc = "baseline", ![p].etag = v]
       \/ /\ run[p].sent # v
          /\ \E topics \in TopicsSent :
                run' = [run EXCEPT ![p].pc = "put", ![p].etag = v, ![p].stars = v,
                                   ![p].topics = topics]
       \/ \E error \in {"blocked", "mismatch", "other"} :
             run' = [run EXCEPT ![p].pc = "failure", ![p].error = error]
    /\ UNCHANGED <<world, now, reg, snap, add, imported>>

(* starCountForResult after a 304. *)
Baseline(p) ==
    /\ At(p, "baseline")
    /\ \/ \E d \in LatestSuccess(Current(p), run[p].date - 1) :
             run' = [run EXCEPT ![p].pc = "put", ![p].stars = snap[Current(p)][d].stars]
       \/ run' = [run EXCEPT ![p].pc = "failure", ![p].error = "other"]
    /\ UNCHANGED <<world, now, reg, snap, add, imported>>

Put(p) ==
    /\ At(p, "put")
    /\ PutSnapshot(Current(p), run[p].date, Success(run[p].stars))
    /\ Goto(p, "register")
    /\ UNCHANGED <<world, now, reg, add, imported>>

(* updateRepository: what was listed, observed at the instant it was listed *)
(* with, plus the answer's ETag and topics.                                 *)
Register(p) ==
    LET old == run[p].copy[Current(p)] IN
    /\ At(p, "register")
    /\ Upsert(Current(p), [at |-> old.seen, source |-> old.source, etag |-> run[p].etag,
                           topics |-> run[p].topics, monitor |-> old.monitor])
    /\ NextRepository(p)
    /\ UNCHANGED <<world, now, snap, add, imported>>

(* A store error, or a success that is already there: the loop continues. *)
Skip(p) ==
    /\ run[p].pc \in {"lookup", "condition", "put", "register"}
    /\ NextRepository(p)
    /\ UNCHANGED <<world, now, reg, snap, add, imported>>

(* Faulty variant: a block fails every repository that is left. *)
FailedRowsLeft(p) == IF run[p].error = "blocked" THEN run[p].left ELSE {Current(p)}

FailedRows(p) == {Current(p)}

(* putFailure; a mismatch also stops the monitoring, a block ends the run. *)
RecordFailure(p) ==
    /\ At(p, "failure")
    /\ \/ snap' = [r \in Repos |->
                      IF r \in FailedRows(p)
                      THEN [snap[r] EXCEPT ![run[p].date] = Stored(@, Failed)]
                      ELSE snap[r]]
       \/ UNCHANGED snap
    /\ CASE run[p].error = "mismatch" -> Goto(p, "stop")
         [] run[p].error = "blocked"  -> run' = [run EXCEPT ![p] = NoRun]
         [] OTHER                     -> NextRepository(p)
    /\ UNCHANGED <<world, now, reg, add, imported>>

(* updateFailureState after an identity mismatch. *)
StopMonitoring(p) ==
    /\ At(p, "stop")
    /\ \/ reg' = [reg EXCEPT ![Current(p)].monitor = "stopped"]
       \/ UNCHANGED reg
    /\ NextRepository(p)
    /\ UNCHANGED <<world, now, snap, add, imported>>

(* The process dies or its context is cancelled. *)
Abort(p) ==
    /\ ~At(p, "idle")
    /\ run' = [run EXCEPT ![p] = NoRun]
    /\ UNCHANGED <<world, now, reg, snap, add, imported>>

-----------------------------------------------------------------------------
RunStep(p) ==
    \/ Begin(p) \/ Lookup(p) \/ Condition(p) \/ Fetch(p) \/ Baseline(p) \/ Put(p)
    \/ Register(p) \/ Skip(p) \/ RecordFailure(p) \/ StopMonitoring(p) \/ Abort(p)

Next ==
    \/ Midnight
    \/ \E r \in Repos : \/ Change(r) \/ Discover(r) \/ WatchAdd(r) \/ Pause(r) \/ Resume(r)
                        \/ FillTopics(r) \/ ImportLegacy(r) \/ ImportObservation(r)
                        \/ \E a \in Adders : Resolve(a, r)
    \/ \E a \in Adders : StoreAdd(a)
    \/ \E p \in Runners : RunStep(p)

Spec == Init /\ [][Next]_vars

-----------------------------------------------------------------------------
(* Properties *)

(* A successful snapshot is never overwritten, whoever writes the same day *)
(* again: reruns, overlapping runs, adds and imports.                      *)
SuccessIsFinal ==
    [][\A r \in Repos, d \in Days :
          snap[r][d].status = "success" => snap'[r][d] = snap[r][d]]_vars

(* A 304 never reuses an older baseline: the count copied for it is the    *)
(* count GitHub still has.                                                 *)
NotModifiedIsCurrent ==
    \A p \in Runners : run[p].sent # 0 /\ run[p].sent = run[p].etag /\ At(p, "put")
        => run[p].stars = run[p].etag

(* Every stored count is one the repository had since that day began. *)
CountsAreOfTheirDay ==
    \A r \in Repos, d \in Days : snap[r][d].status = "success" =>
        snap[r][d].stars >= opening[d][r]

(* A failure is recorded only for a repository whose request failed: what  *)
(* a blocked run did not get to stays missing.                             *)
UnrequestedStayMissing ==
    [][\A r \in Repos, d \in Days :
          snap[r][d] = Missing /\ snap'[r][d] = Failed =>
              \E p \in Runners : At(p, "failure") /\ run[p].date = d /\ Current(p) = r]_vars

(* A snapshot run's metadata write never lifts a pause. *)
RunsKeepPauses ==
    [][\A p \in Runners : Register(p) =>
          \A r \in Repos : reg[r].monitor # "active" => reg'[r].monitor # "active"]_vars

(* Discovery never lifts a pause: neither a source that finds a paused     *)
(* repository nor the daily replay of the watchlist does.                  *)
DiscoveryKeepsPauses ==
    [][\A r \in Repos : Discover(r) /\ reg[r].monitor # "active" => reg'[r].monitor # "active"]_vars

=============================================================================
