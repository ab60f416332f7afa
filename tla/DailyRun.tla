------------------------------- MODULE DailyRun -------------------------------
(***************************************************************************)
(* The daily run and discovery (app/run_daily.go, app/discover.go,         *)
(* app/trending.go, config/schedule.go) with the job runs they record      *)
(* (service/jobs/tracker.go, store/sqlite/job_run.go).  The rows of        *)
(* job_runs are what the next run plans by: which search profiles are due  *)
(* and whether the Trending board was captured today.                      *)
(*                                                                         *)
(* Candidates are what a source delivered on a day: one finding each.      *)
(* Times are days; the processes share only the database, and may be       *)
(* cancelled by a signal or crash.                                         *)
(***************************************************************************)
EXTENDS Integers, Sequences

CONSTANTS Processes,
          Profiles,    \* enabled search profiles
          PeriodDays,  \* days of a profile's schedule; 0 for "always"
          Board,       \* the Trending board, a source beside the profiles
          MaxDay,      \* bound: the calendar
          MaxRows      \* bound: rows of job_runs

ASSUME DailyRunAssumption ==
    /\ Board \notin Profiles
    /\ PeriodDays \in [Profiles -> Nat]
    /\ {MaxDay, MaxRows} \subseteq Nat

VARIABLES day,      \* Shanghai date
          rows,     \* job_runs, in the order of started_at
          registry, \* findings whose candidates are stored
          searched, \* complete searches (history)
          process   \* runs under way

dailyVars == <<day, rows, registry, searched, process>>

Days    == 0..MaxDay
Never   == -1
Finding == [source : Profiles \cup {Board}, on : Days]

(* What later runs read of a row: the profiles that count as successful    *)
(* and the day of a complete board in its details.                         *)
Row == [type      : {"run-daily", "discover"},
        parent    : 0..MaxRows,      \* the daily run of a discovery, 0 if started by hand
        status    : {"running", "success", "partial", "failed"},
        started   : Days,
        finished  : Days \cup {Never},
        profiles  : SUBSET Profiles,
        board     : Days \cup {Never}]

NewRow(type, parent) ==
    [type |-> type, parent |-> parent, status |-> "running", started |-> day, finished |-> Never,
     profiles |-> {}, board |-> Never]

Process ==
    [pc        : {"idle", "discovery", "trending", "plan", "search", "merge", "close",
                  "snapshot", "rest", "finish"},
     daily     : 0..MaxRows,          \* its run-daily row
     row       : 0..MaxRows,          \* its discover row
     dueOnly   : BOOLEAN,
     todo      : SUBSET Profiles,
     profiles  : SUBSET Profiles,     \* reported without error, complete
     board     : Days \cup {Never},
     found     : SUBSET Finding,      \* candidates not yet merged
     failed    : BOOLEAN,             \* a failure is reported
     error     : BOOLEAN,             \* runDiscovery returned an error
     blocked   : BOOLEAN,             \* APIBlocked
     fatal     : BOOLEAN,
     cancelled : BOOLEAN]

NoProcess == [pc |-> "idle", daily |-> 0, row |-> 0, dueOnly |-> FALSE, todo |-> {},
              profiles |-> {}, board |-> Never, found |-> {}, failed |-> FALSE, error |-> FALSE,
              blocked |-> FALSE, fatal |-> FALSE, cancelled |-> FALSE]

DailyTypeOK ==
    /\ day \in Days
    /\ rows \in Seq(Row) /\ Len(rows) <= MaxRows
    /\ registry \subseteq Finding /\ searched \subseteq Finding
    /\ process \in [Processes -> Process]

DailyInit ==
    /\ day = 0
    /\ rows = <<>>
    /\ registry = {}
    /\ searched = {}
    /\ process = [p \in Processes |-> NoProcess]

Found(source) == [source |-> source, on |-> day]

(* RunDaily: the run-daily row, then discovery. *)
StartDaily(p) ==
    /\ process[p].pc = "idle"
    /\ Len(rows) < MaxRows
    /\ rows' = Append(rows, NewRow("run-daily", 0))
    /\ process' = [process EXCEPT ![p] = [NoProcess EXCEPT !.pc = "discovery", !.daily = Len(rows')]]
    /\ UNCHANGED <<day, registry, searched>>

(* Discover: the discover row; one started by hand searches every profile. *)
StartDiscovery(p) ==
    /\ process[p].pc \in {"idle", "discovery"}
    /\ Len(rows) < MaxRows
    /\ rows' = Append(rows, NewRow("discover", process[p].daily))
    /\ process' = [process EXCEPT ![p] = [@ EXCEPT !.pc = "trending", !.row = Len(rows'),
                                                   !.dueOnly = process[p].pc = "discovery"]]
    /\ UNCHANGED <<day, registry, searched>>

(* The topics or the row of the discovery cannot be written. *)
DiscoveryFails(p) ==
    /\ process[p].pc = "discovery"
    /\ process' = [process EXCEPT ![p].pc = "snapshot", ![p].failed = TRUE]
    /\ UNCHANGED <<day, rows, registry, searched>>

(***************************************************************************)
(* Trending.                                                               *)
(***************************************************************************)
(* All of job_runs, at once or page by page. *)
ListJobRuns == {rows[i] : i \in DOMAIN rows}

(* Faulty variant: runs of any status count. *)
BoardSeenToday ==
    \E run \in ListJobRuns : run.started = day /\ run.type = "discover" /\ run.board = day

(* trendingCompletedToday: rows are read by descending start; the scan     *)
(* ends at the first one that started before today.                        *)
BoardCompletedToday ==
    \E run \in ListJobRuns :
        /\ run.started = day
        /\ run.type = "discover"
        /\ run.status = "success"
        /\ run.board = day

BoardSkipped(p) == process[p].dueOnly /\ BoardCompletedToday

(* discoverTrending.  A board is complete when every window was captured   *)
(* and every entry resolved; a refused resolution blocks the API.          *)
Trending(p) ==
    /\ process[p].pc = "trending"
    /\ \/ /\ BoardSkipped(p)
          /\ process' = [process EXCEPT ![p].pc = "plan"]
       \/ /\ ~BoardSkipped(p)
          /\ \/ /\ ~process[p].cancelled
                /\ process' = [process EXCEPT ![p].pc = "plan", ![p].board = day,
                                              ![p].found = @ \cup {Found(Board)}]
             \/ \E found \in SUBSET {Found(Board)}, blocked \in BOOLEAN :
                   process' = [process EXCEPT ![p].pc = "plan", ![p].failed = TRUE,
                                              ![p].found = @ \cup found, ![p].blocked = blocked]
    /\ UNCHANGED <<day, rows, registry, searched>>

(***************************************************************************)
(* Search profiles.                                                        *)
(***************************************************************************)
(* lastProfileSuccess: the end of the latest run of any status that        *)
(* reports the profile complete; a run without an end reports nothing.     *)
SuccessDays(f) == {run.finished : run \in {r \in ListJobRuns : f \in r.profiles}}

LastSuccess(f) == CHOOSE d \in SuccessDays(f) : \A e \in SuccessDays(f) : d >= e

(* The schedule "daily". *)
EachDay == [f \in Profiles |-> 1]

(* Faulty variant: not before a whole period has passed. *)
DueLate(f, now) ==
    \/ SuccessDays(f) = {}
    \/ PeriodDays[f] = 0
    \/ now - LastSuccess(f) > PeriodDays[f]

(* SearchProfile.Due: not again in the calendar period of its last success. *)
Due(f, now) ==
    \/ SuccessDays(f) = {}
    \/ PeriodDays[f] = 0
    \/ /\ LastSuccess(f) <= now
       /\ now \div PeriodDays[f] # LastSuccess(f) \div PeriodDays[f]

(* The clock that plans was read when the discovery began. *)
PlannedOn(p) == rows[process[p].row].started

PlannedProfiles(p) ==
    IF process[p].blocked THEN {}
    ELSE {f \in Profiles : process[p].dueOnly => Due(f, PlannedOn(p))}

Plan(p) ==
    /\ process[p].pc = "plan"
    /\ \/ process' = [process EXCEPT ![p].pc = "search", ![p].todo = PlannedProfiles(p)]
       \/ /\ process[p].dueOnly /\ ~process[p].blocked      \* the rows cannot be read
          /\ process' = [process EXCEPT ![p].pc = "close", ![p].error = TRUE]
    /\ UNCHANGED <<day, rows, registry, searched>>

(* SearchProfile: complete, truncated or incomplete, failed, or refused.   *)
(* Hits collected before a failure remain candidates.                      *)
Search(p, f) ==
    LET x    == process[p]
        hits == x.found \cup {Found(f)}
        rest == x.todo \ {f}
    IN  /\ x.pc = "search"
        /\ f \in x.todo
        /\ \/ /\ ~x.cancelled
              /\ searched' = searched \cup {Found(f)}
              /\ process' = [process EXCEPT ![p] = [x EXCEPT !.todo = rest, !.found = hits,
                                                             !.profiles = @ \cup {f}]]
           \/ /\ ~x.cancelled
              /\ process' = [process EXCEPT ![p] = [x EXCEPT !.todo = rest, !.found = hits]]
              /\ UNCHANGED searched
           \/ /\ \E found \in {hits, x.found} :
                    process' = [process EXCEPT ![p] = [x EXCEPT !.todo = rest, !.found = found,
                                                                !.failed = TRUE]]
              /\ UNCHANGED searched
           \/ /\ process' = [process EXCEPT ![p] = [x EXCEPT !.todo = {}, !.failed = TRUE,
                                                             !.blocked = TRUE]]
              /\ UNCHANGED searched
        /\ UNCHANGED <<day, rows, registry>>

(* The remaining sources (OSS Insight, legacy, the watchlist) may fail. *)
SearchesDone(p) ==
    /\ process[p].pc = "search"
    /\ process[p].todo = {}
    /\ \E failed \in BOOLEAN :
          process' = [process EXCEPT ![p].pc = "merge", ![p].failed = @ \/ failed]
    /\ UNCHANGED <<day, rows, registry, searched>>

(* Registry.Merge: candidate after candidate; one that cannot be stored is *)
(* a failure, a cancelled context ends the loop.                           *)
StoreCandidate(p) ==
    /\ process[p].pc = "merge"
    /\ ~process[p].cancelled
    /\ \E c \in process[p].found :
          \/ /\ registry' = registry \cup {c}
             /\ process' = [process EXCEPT ![p].found = @ \ {c}]
          \/ /\ process' = [process EXCEPT ![p].found = @ \ {c}, ![p].failed = TRUE]
             /\ UNCHANGED registry
    /\ UNCHANGED <<day, rows, searched>>

MergeEnds(p) ==
    /\ process[p].pc = "merge"
    /\ process[p].found = {} \/ process[p].cancelled
    /\ process' = [process EXCEPT ![p].pc = "close", ![p].error = process[p].found # {}]
    /\ UNCHANGED <<day, rows, registry, searched>>

(* Faulty variant: an interrupted merge is not a failure. *)
StatusOfReport(x) == IF x.failed THEN "partial" ELSE "success"

DiscoveryStatus(x) == IF x.error THEN "failed" ELSE IF x.failed THEN "partial" ELSE "success"

Finished(row, status, profiles, board) ==
    [row EXCEPT !.status = status, !.finished = day, !.profiles = profiles, !.board = board]

(* Finish of the discovery, without the caller's cancellation. *)
FinishDiscovery(p) ==
    LET x == process[p]
    IN  /\ x.pc = "close"
        /\ \E written \in BOOLEAN :
              /\ rows' = IF written
                         THEN [rows EXCEPT ![x.row] = Finished(@, DiscoveryStatus(x), x.profiles, x.board)]
                         ELSE rows
              /\ process' = [process EXCEPT ![p] =
                    IF x.daily = 0 THEN NoProcess
                    ELSE [NoProcess EXCEPT !.pc = "snapshot", !.daily = x.daily, !.profiles = x.profiles,
                                           !.failed = x.failed \/ x.error \/ ~written,
                                           !.blocked = x.blocked, !.cancelled = x.cancelled]]
        /\ UNCHANGED <<day, registry, searched>>

(***************************************************************************)
(* The rest of the daily run.                                              *)
(***************************************************************************)
(* Snapshots are deferred when discovery met a refusal of the API; they    *)
(* fail as a whole, or for some repositories.                              *)
TakeSnapshots(p) ==
    LET x == process[p]
    IN  /\ x.pc = "snapshot"
        /\ \E fatal, failed \in BOOLEAN :
              /\ x.blocked \/ x.cancelled => fatal
              /\ process' = [process EXCEPT ![p] = [x EXCEPT !.pc = "rest", !.fatal = fatal, !.blocked = FALSE,
                                                     !.failed = @ \/ failed \/ fatal]]
        /\ UNCHANGED <<day, rows, registry, searched>>

(* Activity (unless fatal), the exports, retention and the runtime's       *)
(* warnings: each may add a failure, none stops the next.                  *)
FinishRest(p) ==
    /\ process[p].pc = "rest"
    /\ \E failed \in BOOLEAN :
          /\ process[p].cancelled => failed
          /\ process' = [process EXCEPT ![p].pc = "finish", ![p].failed = @ \/ failed]
    /\ UNCHANGED <<day, rows, registry, searched>>

DailyStatus(x) == IF x.fatal THEN "failed" ELSE IF x.failed THEN "partial" ELSE "success"

(* Finish of the daily run, whose details repeat those of the discovery;   *)
(* if it fails, the row is left as by a crash.                             *)
FinishDaily(p) ==
    LET x == process[p]
    IN  /\ x.pc = "finish"
        /\ rows' = [rows EXCEPT ![x.daily] = Finished(@, DailyStatus(x), x.profiles, Never)]
        /\ process' = [process EXCEPT ![p] = NoProcess]
        /\ UNCHANGED <<day, registry, searched>>

(***************************************************************************)
(* Signals, crashes and time.                                              *)
(***************************************************************************)
CancelRun(p) ==
    /\ process[p].pc # "idle"
    /\ ~process[p].cancelled
    /\ process' = [process EXCEPT ![p].cancelled = TRUE]
    /\ UNCHANGED <<day, rows, registry, searched>>

(* Nothing closes the rows of a crashed process. *)
CrashRun(p) ==
    /\ process[p].pc # "idle"
    /\ process' = [process EXCEPT ![p] = NoProcess]
    /\ UNCHANGED <<day, rows, registry, searched>>

(* Midnight.  Bound: a run meets at most one. *)
Midnight ==
    /\ day < MaxDay
    /\ \A p \in Processes :
          process[p].pc # "idle" =>
             \A i \in {process[p].daily, process[p].row} \ {0} : rows[i].started = day
    /\ day' = day + 1
    /\ UNCHANGED <<rows, registry, searched, process>>

DailyNext ==
    \/ \E p \in Processes :
          \/ StartDaily(p) \/ StartDiscovery(p) \/ DiscoveryFails(p)
          \/ Trending(p) \/ Plan(p) \/ \E f \in Profiles : Search(p, f)
          \/ SearchesDone(p) \/ StoreCandidate(p) \/ MergeEnds(p) \/ FinishDiscovery(p)
          \/ TakeSnapshots(p) \/ FinishRest(p) \/ FinishDaily(p)
          \/ CancelRun(p) \/ CrashRun(p)
    \/ Midnight

DailySpec == DailyInit /\ [][DailyNext]_dailyVars

(***************************************************************************)
(* Properties.                                                             *)
(***************************************************************************)
(* The board is left alone only on a day on which its candidates have been *)
(* stored: a capture whose run failed, was cancelled or crashed before its *)
(* candidates were merged is repeated (trendingCompletedToday).            *)
SkippedBoardIsStored ==
    [][\A p \in Processes :
          (Trending(p) /\ BoardSkipped(p)) => Found(Board) \in registry]_dailyVars

Skips(p, f) == process[p].pc = "plan" /\ process'[p].pc = "search"
                  /\ ~process[p].blocked /\ f \notin process'[p].todo

(* A profile is left out only if a run that ended in the current period    *)
(* searched it to the end: failed, truncated and crashed searches,         *)
(* whatever row they left, are repeated, and so are those of an earlier    *)
(* period (Due, lastProfileSuccess).                                       *)
ProfilesComeRound ==
    [][\A p \in Processes, f \in Profiles :
          Skips(p, f) =>
             \E i \in DOMAIN rows, c \in searched :
                /\ c.source = f /\ c.on \in rows[i].started..rows[i].finished
                /\ rows[i].finished \div PeriodDays[f] >= PlannedOn(p) \div PeriodDays[f]]_dailyVars

(* A run reported as a success was one: its discovery is a success too,    *)
(* and what its profiles found is stored (DailyReport.Partial, Discover).  *)
SuccessIsWhole ==
    \A i \in DOMAIN rows : rows[i].status = "success" =>
        /\ \A j \in DOMAIN rows : rows[j].parent = i => rows[j].status = "success"
        /\ \A f \in rows[i].profiles : \E c \in registry :
              c.source = f /\ c.on \in rows[i].started..rows[i].finished

(* config/schedule.go says that "Due reports whether a profile is due      *)
(* relative to its last successful run": what is not due has been stored.  *)
SkippedProfileIsStored ==
    [][\A p \in Processes, f \in Profiles :
          Skips(p, f) => \E c \in registry : c.source = f]_dailyVars
=============================================================================
