---------------------------- MODULE ImportQueue ----------------------------
(***************************************************************************)
(* The durable repository-import queue (store/sqlite/import_jobs.go) and   *)
(* the workers that drain it (app/import_jobs.go).                         *)
(*                                                                         *)
(* A job is one row of job_runs.  Every store operation runs in one        *)
(* BEGIN IMMEDIATE transaction, hence is one action here; everything the   *)
(* worker does between two transactions is a step of its own, so workers   *)
(* of different processes, crashes, shutdowns and the clock interleave     *)
(* between them.                                                           *)
(*                                                                         *)
(* Time.  An instant is kept as the number of ticks that remain until it:  *)
(* LeaseUntil is lease[j], NextAttemptAt is wait[j], the 90 second context *)
(* deadline of processImport is budget[w].  Tick moves them all.  The      *)
(* claim compares with a clock reading taken before its transaction        *)
(* started; age[w] is how old that reading is.                             *)
(*                                                                         *)
(* Tokens.  A claim draws a fresh UUID; Attempts grows with every claim,   *)
(* so the attempt number identifies the claim of a job and stands for its  *)
(* token (0 is the empty token).                                           *)
(***************************************************************************)
EXTENDS Integers, FiniteSets

CONSTANTS Workers,            \* application processes that may run an import worker
          RepoIDs,            \* GitHub repository IDs a name may resolve to
          Requests,           \* import requests: [name, topic (BOOLEAN: a topic was chosen)]
          MaxJobs,            \* bound: jobs accepted in a behaviour
          ImportQueueLimit,
          ImportMaxAttempts,
          LeaseTicks,         \* lease granted by a claim (2 minutes)
          TimeoutTicks,       \* deadline of one attempt (90 seconds)
          ClaimSkew,          \* bound: age of the clock reading a claim uses (busy_timeout)
          MinuteTicks,        \* one minute, the unit of the retry back-off
          MaxDelayTicks       \* bound: longest retry delay (back-off or rate-limit reset)

ASSUME ImportQueueAssumption ==
    /\ RepoIDs \subseteq Nat \ {0}
    /\ Requests # {}
    /\ \A r \in Requests : r.topic \in BOOLEAN
    /\ MaxJobs \in Nat
    /\ ImportQueueLimit \in Nat
    /\ ImportMaxAttempts \in Nat \ {0}
    /\ LeaseTicks \in Nat
    /\ TimeoutTicks \in Nat
    /\ ClaimSkew \in Nat
    /\ ClaimSkew < LeaseTicks
    /\ TimeoutTicks + ClaimSkew <= LeaseTicks
    /\ MinuteTicks \in Nat
    /\ MaxDelayTicks \in Nat

Jobs           == 1..MaxJobs
NoRepo         == 0
PendingStages  == {"queued", "resolving", "reading", "classifying"}
TerminalStages == {"done", "partial", "failed"}

(* A countdown no claim can see: a nil instant, or one long past. *)
Never == -ClaimSkew

(* The row of job_runs as far as the queue reads it.  job_runs.status is a *)
(* function of the stage ('running' iff pending), so it is not kept.       *)
Row == [stage    : {"absent"} \cup PendingStages \cup TerminalStages,
        request  : Requests,
        repo     : RepoIDs \cup {NoRepo},
        readme   : BOOLEAN,
        err      : BOOLEAN,               \* ErrorCode # ""
        attempts : 0..ImportMaxAttempts,
        token    : 0..ImportMaxAttempts]

NoRow == [stage |-> "absent", request |-> CHOOSE r \in Requests : TRUE, repo |-> NoRepo,
          readme |-> FALSE, err |-> FALSE, attempts |-> 0, token |-> 0]

(* The worker's private copy of the job it claimed. *)
Work == [job    : Jobs \cup {0},
         token  : 0..ImportMaxAttempts,
         repo   : RepoIDs \cup {NoRepo},
         readme : BOOLEAN,
         err    : BOOLEAN,
         retry  : BOOLEAN]

NoWork == [job |-> 0, token |-> 0, repo |-> NoRepo,
           readme |-> FALSE, err |-> FALSE, retry |-> FALSE]

Busy == {"starting", "resolving", "resolved", "reading", "read", "classifying",
         "finishing", "failing"}

VARIABLES row,       \* row[j]: the stored job
          lease,     \* lease[j]: ticks left of LeaseUntil
          wait,      \* wait[j]: ticks left until NextAttemptAt
          tracked,   \* repositories whose registry row and first snapshot are stored
          sorted,    \* repositories classification.Apply has completed for
          pc,        \* pc[w]: what worker w does
          work,      \* work[w]: its copy of the job
          budget,    \* budget[w]: ticks left of the attempt's deadline
          age,       \* age[w]: age of the clock reading of a pending claim
          stopping   \* stopping[w]: the worker's parent context is cancelled

dbVars     == <<row, lease, wait>>
workerVars == <<pc, work, budget, age, stopping>>
vars       == <<row, lease, wait, tracked, sorted, pc, work, budget, age, stopping>>

TypeOK ==
    /\ row      \in [Jobs -> Row]
    /\ lease    \in [Jobs -> Never..LeaseTicks]
    /\ wait     \in [Jobs -> Never..MaxDelayTicks]
    /\ tracked  \subseteq RepoIDs
    /\ sorted   \subseteq RepoIDs \cup {NoRepo}
    /\ pc       \in [Workers -> {"down", "idle", "claiming"} \cup Busy]
    /\ work     \in [Workers -> Work]
    /\ budget   \in [Workers -> 0..TimeoutTicks]
    /\ age      \in [Workers -> 0..ClaimSkew]
    /\ stopping \in [Workers -> BOOLEAN]

Init ==
    /\ row      = [j \in Jobs |-> NoRow]
    /\ lease    = [j \in Jobs |-> Never]
    /\ wait     = [j \in Jobs |-> Never]
    /\ tracked  = {}
    /\ sorted   = {}
    /\ pc       = [w \in Workers |-> "down"]
    /\ work     = [w \in Workers |-> NoWork]
    /\ budget   = [w \in Workers |-> 0]
    /\ age      = [w \in Workers |-> 0]
    /\ stopping = [w \in Workers |-> FALSE]

-----------------------------------------------------------------------------
(* EnqueueRepositoryImport *)

Pending(j) == row[j].stage \in PendingStages

PendingImports == {j \in Jobs : Pending(j)}

(* Faulty variant: only an identical request counts as a duplicate. *)
IdenticalPending(req) == \E j \in PendingImports : row[j].request = req

(* A pending job for the same repository absorbs an identical request and  *)
(* refuses a different one; neither changes the queue.                     *)
SameRepositoryPending(req) ==
    \E j \in PendingImports : row[j].request.name = req.name

(* Faulty variant: off by one at the limit. *)
QueueOverfull == Cardinality(PendingImports) > ImportQueueLimit

QueueFull == Cardinality(PendingImports) >= ImportQueueLimit

Enqueue(req) ==
    /\ ~SameRepositoryPending(req)
    /\ ~QueueFull
    /\ \E j \in Jobs :
          /\ row[j].stage = "absent"
          /\ \A k \in Jobs : k < j => row[k].stage # "absent"
          /\ row' = [row EXCEPT ![j] = [NoRow EXCEPT !.stage = "queued", !.request = req]]
    /\ UNCHANGED <<lease, wait, tracked, sorted, workerVars>>

-----------------------------------------------------------------------------
(* ClaimRepositoryImport *)

(* Faulty variant: only the oldest pending job's lease is looked at. *)
OldestLeaseSeen(w) ==
    \E j \in PendingImports : /\ \A k \in PendingImports : j <= k
                             /\ lease[j] + age[w] > 0

(* One live lease serializes workers, whichever job it is for. *)
LiveLeaseSeen(w) == \E j \in PendingImports : lease[j] + age[w] > 0

Due(w, j) == Pending(j) /\ wait[j] + age[w] <= 0

(* Faulty variant: one attempt too many. *)
HasAttemptsInclusive(j) == row[j].attempts <= ImportMaxAttempts

HasAttempts(j) == row[j].attempts < ImportMaxAttempts

Claimable(w) == {j \in Jobs : Due(w, j) /\ HasAttempts(j)}

(* The oldest claimable job; exhausted jobs are closed on the way to it. *)
First(w) == {j \in Claimable(w) : \A k \in Claimable(w) : j <= k}

(* Faulty variant: exhausted jobs are skipped, not closed. *)
ExhaustedNone(w) == {}

Exhausted(w) == {j \in Jobs : Due(w, j) /\ ~HasAttempts(j)}

ExhaustedBefore(w, j) == {k \in Exhausted(w) : k < j}

(* Faulty variant: an exhausted job always fails, imported or not. *)
ClosedAsFailed(r) == [r EXCEPT !.stage = "failed", !.err = TRUE, !.token = 0]

Closed(r) == [r EXCEPT !.stage = IF r.repo = NoRepo THEN "failed" ELSE "partial",
                       !.err   = TRUE,
                       !.token = 0]

(* Faulty variant: a new attempt starts over. *)
ClaimedAfresh(r) == [r EXCEPT !.stage    = "resolving",
                              !.repo     = NoRepo,
                              !.err      = FALSE,
                              !.attempts = @ + 1,
                              !.token    = r.attempts + 1]

Claimed(r) == [r EXCEPT !.stage    = IF r.repo = NoRepo THEN "resolving" ELSE "reading",
                        !.err      = FALSE,
                        !.attempts = @ + 1,
                        !.token    = r.attempts + 1]

(* importLoop reads the clock, then waits for the write lock. *)
BeginClaim(w) ==
    /\ pc[w] = "idle"
    /\ ~stopping[w]
    /\ pc' = [pc EXCEPT ![w] = "claiming"]
    /\ UNCHANGED <<dbVars, tracked, sorted, work, budget, age, stopping>>

LeaveClaim(w, next) ==
    /\ pc[w] = "claiming"
    /\ pc'  = [pc EXCEPT ![w] = next]
    /\ age' = [age EXCEPT ![w] = 0]

(* A job is claimed, and processImport starts its deadline. *)
ClaimNext(w) ==
    /\ LeaveClaim(w, "starting")
    /\ ~LiveLeaseSeen(w)
    /\ \E j \in First(w) :
          /\ row'    = [k \in Jobs |-> IF k = j THEN Claimed(row[k])
                                       ELSE IF k \in ExhaustedBefore(w, j) THEN Closed(row[k])
                                       ELSE row[k]]
          /\ lease'  = [k \in Jobs |-> IF k = j THEN LeaseTicks - age[w]
                                       ELSE IF k \in ExhaustedBefore(w, j) THEN Never
                                       ELSE lease[k]]
          /\ wait'   = [wait EXCEPT ![j] = Never]
          /\ work'   = [work EXCEPT ![w] = [NoWork EXCEPT !.job    = j,
                                                          !.token  = row[j].attempts + 1,
                                                          !.repo   = row[j].repo,
                                                          !.readme = row[j].readme]]
          /\ budget' = [budget EXCEPT ![w] = TimeoutTicks]
    /\ UNCHANGED <<tracked, sorted, stopping>>

(* Nothing can be claimed, but exhausted jobs are closed. *)
CloseExhausted(w) ==
    /\ LeaveClaim(w, "idle")
    /\ ~LiveLeaseSeen(w)
    /\ Claimable(w) = {}
    /\ Exhausted(w) # {}
    /\ row'   = [k \in Jobs |-> IF k \in Exhausted(w) THEN Closed(row[k]) ELSE row[k]]
    /\ lease' = [k \in Jobs |-> IF k \in Exhausted(w) THEN Never ELSE lease[k]]
    /\ UNCHANGED <<wait, tracked, sorted, work, budget, stopping>>

(* A live lease, an empty queue, or a transaction that failed. *)
ClaimNothing(w) ==
    /\ LeaveClaim(w, "idle")
    /\ UNCHANGED <<dbVars, tracked, sorted, work, budget, stopping>>

-----------------------------------------------------------------------------
(* UpdateRepositoryImport *)

(* The unexpired current lease is required for every write. *)
Owns(w) ==
    /\ work[w].job \in PendingImports
    /\ row[work[w].job].token = work[w].token
    /\ lease[work[w].job] > 0

(* The other reasons to refuse a write (ErrImportInvalid). *)
ValidUpdate(w, stage) ==
    /\ row[work[w].job].attempts = work[w].token
    /\ row[work[w].job].repo \in {NoRepo, work[w].repo}
    /\ stage \in {"done", "partial"} => work[w].repo # NoRepo

Releases(stage) == stage \in TerminalStages \cup {"queued"}

(* Faulty variant: the README counts as stored once it was attempted. *)
SavedAttempted(r, w, stage, err) == [r EXCEPT !.stage  = stage,
                                              !.repo   = work[w].repo,
                                              !.readme = @ \/ stage = "classifying",
                                              !.err    = err,
                                              !.token  = IF Releases(stage) THEN 0 ELSE r.token]

(* The row the worker's copy replaces r with. *)
Saved(r, w, stage, err) == [r EXCEPT !.stage  = stage,
                                     !.repo   = work[w].repo,
                                     !.readme = work[w].readme,
                                     !.err    = err,
                                     !.token  = IF Releases(stage) THEN 0 ELSE r.token]

Update(w, stage, err, delay) ==
    LET j == work[w].job IN
    /\ Owns(w)
    /\ ValidUpdate(w, stage)
    /\ row'   = [row EXCEPT ![j] = Saved(row[j], w, stage, err)]
    /\ lease' = [lease EXCEPT ![j] = IF Releases(stage) THEN Never ELSE @]
    /\ wait'  = [wait EXCEPT ![j] = delay]

(* processImport returns; the loop polls again. *)
Return(w) ==
    /\ pc'     = [pc EXCEPT ![w] = "idle"]
    /\ work'   = [work EXCEPT ![w] = NoWork]
    /\ budget' = [budget EXCEPT ![w] = 0]

-----------------------------------------------------------------------------
(* processImport *)

(* The attempt's context: its deadline has not passed, nobody cancelled it. *)
CtxLive(w) == budget[w] > 0 /\ ~stopping[w]

Goto(w, next) ==
    /\ pc' = [pc EXCEPT ![w] = next]
    /\ UNCHANGED <<dbVars, work, budget, age, stopping>>

FailWith(w, retry) ==
    /\ pc'   = [pc EXCEPT ![w] = "failing"]
    /\ work' = [work EXCEPT ![w].retry = retry]
    /\ UNCHANGED <<dbVars, tracked, sorted, budget, age, stopping>>

(* A checkpoint that is not saved ends the attempt without another write:  *)
(* the lease is lost, the context is done or the store failed.             *)
Checkpoint(w, stage, next) ==
    /\ \/ /\ CtxLive(w)
          /\ Update(w, stage, work[w].err, Never)
          /\ IF next = "idle" THEN Return(w)
             ELSE pc' = [pc EXCEPT ![w] = next] /\ UNCHANGED <<work, budget>>
       \/ Return(w) /\ UNCHANGED dbVars
    /\ UNCHANGED <<tracked, sorted, age, stopping>>

(* The dependencies load, then a job that already has its repository reads *)
(* it back from the registry instead of resolving the name again.          *)
Start(w) ==
    /\ pc[w] = "starting"
    /\ \/ FailWith(w, FALSE)
       \/ work[w].repo = NoRepo /\ Goto(w, "resolving") /\ UNCHANGED <<tracked, sorted>>
       \/ /\ work[w].repo # NoRepo
          /\ \/ FailWith(w, TRUE)
             \/ /\ CtxLive(w)
                /\ Goto(w, IF work[w].readme THEN "read" ELSE "reading")
                /\ UNCHANGED <<tracked, sorted>>

(* ImportTracked: the name is resolved and PutWatchedRepository commits    *)
(* the registry row and the first snapshot in one transaction.             *)
Resolve(w) ==
    /\ pc[w] = "resolving"
    /\ \/ /\ CtxLive(w)
          /\ \E id \in RepoIDs :
                /\ tracked' = tracked \cup {id}
                /\ work'    = [work EXCEPT ![w].repo = id]
          /\ pc' = [pc EXCEPT ![w] = "resolved"]
          /\ UNCHANGED <<dbVars, sorted, budget, age, stopping>>
       \/ \E retry \in BOOLEAN : FailWith(w, retry)

SaveResolved(w) == pc[w] = "resolved" /\ Checkpoint(w, "reading", "reading")

(* FetchReadme: a README that is missing or invalid does not fail the job, *)
(* it is remembered as an error code.                                      *)
Read(w) ==
    /\ pc[w] = "reading"
    /\ \/ /\ \/ CtxLive(w) /\ work' = [work EXCEPT ![w].readme = TRUE]
             \/ ~stopping[w] /\ work' = [work EXCEPT ![w].err = TRUE]
          /\ pc' = [pc EXCEPT ![w] = "read"]
          /\ UNCHANGED <<dbVars, tracked, sorted, budget, age, stopping>>
       \/ \E retry \in BOOLEAN : (retry \/ stopping[w]) /\ FailWith(w, retry)

SaveRead(w) ==
    /\ pc[w] = "read"
    /\ Checkpoint(w, "classifying",
                  IF row[work[w].job].request.topic THEN "finishing" ELSE "classifying")

(* classification.Apply: with no matching topic it succeeds without the    *)
(* database, hence even on a dead context.                                 *)
Classify(w) ==
    /\ pc[w] = "classifying"
    /\ \/ /\ sorted' = sorted \cup {work[w].repo}
          /\ Goto(w, "finishing")
          /\ UNCHANGED tracked
       \/ FailWith(w, TRUE)

FinalStage(w) == IF work[w].err THEN "partial" ELSE "done"

SaveFinal(w) == pc[w] = "finishing" /\ Checkpoint(w, FinalStage(w), "idle")

(* failImport: retried while attempts remain, at once when the worker is   *)
(* being shut down; its write does not depend on the attempt's context.    *)
Retries(w) == (work[w].retry \/ stopping[w]) /\ work[w].token < ImportMaxAttempts

FailedStage(w) ==
    IF Retries(w) THEN "queued"
    ELSE IF work[w].repo = NoRepo THEN "failed" ELSE "partial"

RetryDelays(w) ==
    IF ~Retries(w) THEN {Never}
    ELSE IF stopping[w] THEN {0}
    ELSE {d \in 0..MaxDelayTicks : d >= work[w].token * MinuteTicks}

FailImport(w) ==
    /\ pc[w] = "failing"
    /\ Return(w)
    /\ \/ \E delay \in RetryDelays(w) : Update(w, FailedStage(w), TRUE, delay)
       \/ UNCHANGED dbVars
    /\ UNCHANGED <<tracked, sorted, age, stopping>>

-----------------------------------------------------------------------------
(* Processes and time *)

StartWorker(w) ==
    /\ pc[w] = "down"
    /\ pc' = [pc EXCEPT ![w] = "idle"]
    /\ UNCHANGED <<dbVars, tracked, sorted, work, budget, age, stopping>>

(* Runtime.Close or a cancelled server context. *)
Shutdown(w) ==
    /\ pc[w] # "down"
    /\ ~stopping[w]
    /\ stopping' = [stopping EXCEPT ![w] = TRUE]
    /\ UNCHANGED <<dbVars, tracked, sorted, pc, work, budget, age>>

Exit(w) ==
    /\ pc[w] = "idle"
    /\ stopping[w]
    /\ pc'       = [pc EXCEPT ![w] = "down"]
    /\ stopping' = [stopping EXCEPT ![w] = FALSE]
    /\ UNCHANGED <<dbVars, tracked, sorted, work, budget, age>>

(* The process dies; what its transactions committed stays. *)
Crash(w) ==
    /\ pc[w] # "down"
    /\ pc'       = [pc EXCEPT ![w] = "down"]
    /\ work'     = [work EXCEPT ![w] = NoWork]
    /\ budget'   = [budget EXCEPT ![w] = 0]
    /\ age'      = [age EXCEPT ![w] = 0]
    /\ stopping' = [stopping EXCEPT ![w] = FALSE]
    /\ UNCHANGED <<dbVars, tracked, sorted>>

CountDown(n, floor) == IF n > floor THEN n - 1 ELSE floor

Tick ==
    /\ \A w \in Workers : pc[w] = "claiming" => age[w] < ClaimSkew
    /\ lease'  = [j \in Jobs |-> CountDown(lease[j], Never)]
    /\ wait'   = [j \in Jobs |-> CountDown(wait[j], Never)]
    /\ budget' = [w \in Workers |-> CountDown(budget[w], 0)]
    /\ age'    = [w \in Workers |-> IF pc[w] = "claiming" THEN age[w] + 1 ELSE age[w]]
    /\ UNCHANGED <<row, tracked, sorted, pc, work, stopping>>

-----------------------------------------------------------------------------
ClaimStep(w) == ClaimNext(w) \/ CloseExhausted(w)

WorkerStep(w) ==
    \/ BeginClaim(w) \/ ClaimStep(w) \/ ClaimNothing(w)
    \/ Start(w) \/ Resolve(w) \/ SaveResolved(w) \/ Read(w) \/ SaveRead(w)
    \/ Classify(w) \/ SaveFinal(w) \/ FailImport(w)
    \/ Exit(w)

Next ==
    \/ \E req \in Requests : Enqueue(req)
    \/ \E w \in Workers : WorkerStep(w) \/ StartWorker(w) \/ Shutdown(w) \/ Crash(w)
    \/ Tick

Spec == Init /\ [][Next]_vars

(* The clock runs, a worker that is up takes its next step and the service *)
(* manager restarts a process.  Claiming is the first thing a started      *)
(* process does: over infinitely many restarts it is not cut off every     *)
(* time by a crash or a busy database.  Nothing is assumed of GitHub, of   *)
(* the rest of an attempt or of crashes: they may fail it forever.         *)
Fairness ==
    /\ WF_vars(Tick)
    /\ \A w \in Workers : WF_vars(StartWorker(w)) /\ WF_vars(WorkerStep(w))
    /\ SF_vars(\E w \in Workers : BeginClaim(w))
    /\ SF_vars(\E w \in Workers : ClaimStep(w))

FairSpec == Spec /\ Fairness

-----------------------------------------------------------------------------
(* Properties *)

(* Mutual exclusion across processes: two attempts are never inside their  *)
(* deadlines at the same time, so the steps that are not guarded by the    *)
(* lease (resolving a name, writing the registry) never overlap.           *)
ExclusiveWork ==
    \A v, w \in Workers : budget[v] > 0 /\ budget[w] > 0 => v = w

(* A write that passes the lease check is never refused as invalid, and it *)
(* never takes back a completed step: the copy of the lease holder is at   *)
(* least as advanced as the row.                                           *)
CopyIsCurrent ==
    \A w \in Workers : pc[w] \in Busy /\ Owns(w) =>
        /\ row[work[w].job].attempts = work[w].token
        /\ row[work[w].job].repo \in {NoRepo, work[w].repo}
        /\ row[work[w].job].readme => work[w].readme

(* Why the work is exclusive, as an inductive invariant: a token names the *)
(* last claim of a pending row, only one lease is live, every attempt      *)
(* still at work comes from a claim of its own, and an attempt inside its  *)
(* deadline holds a lease that outlives the deadline.                      *)
TokensNameClaims ==
    \A j \in Jobs :
        /\ row[j].token # 0 => Pending(j) /\ row[j].token = row[j].attempts
        /\ row[j].stage = "absent" => row[j].attempts = 0

OneLiveLease ==
    /\ \A j \in Jobs : lease[j] > 0 => Pending(j)
    /\ \A j, k \in Jobs : lease[j] > 0 /\ lease[k] > 0 => j = k

ClaimsDistinct ==
    /\ \A w \in Workers : pc[w] \in Busy =>
          /\ work[w].job \in Jobs
          /\ work[w].token \in 1..row[work[w].job].attempts
    /\ \A v, w \in Workers :
          /\ pc[v] \in Busy
          /\ pc[w] \in Busy
          /\ work[v].job = work[w].job
          /\ work[v].token = work[w].token
          => v = w

DeadlineInsideLease ==
    \A w \in Workers : budget[w] > 0 =>
        /\ pc[w] \in Busy
        /\ Owns(w)
        /\ budget[w] <= lease[work[w].job]

LeaseDiscipline ==
    TokensNameClaims /\ OneLiveLease /\ ClaimsDistinct /\ DeadlineInsideLease

(* The queue never holds two pending jobs for one repository name, across  *)
(* any interleaving of enqueues, claims and retries.                       *)
OnePendingPerRepository ==
    \A j, k \in PendingImports : row[j].request.name = row[k].request.name => j = k

(* The queue never exceeds its limit: retries put a job back without       *)
(* asking for room.                                                        *)
QueueBounded == Cardinality(PendingImports) <= ImportQueueLimit

(* An outcome tells the truth about durable data: "done" means the         *)
(* repository and its first snapshot are stored, its README is stored and  *)
(* it is classified unless a topic was chosen; "partial" means that at     *)
(* least the repository is stored; "failed" means no checkpoint had one.   *)
OutcomeIsDurable ==
    \A j \in Jobs :
        /\ row[j].stage \in {"done", "partial"} => row[j].repo \in tracked
        /\ row[j].stage = "failed" => row[j].repo = NoRepo
        /\ row[j].stage = "done" =>
              /\ row[j].readme
              /\ ~row[j].err
              /\ row[j].request.topic \/ row[j].repo \in sorted

(* Completed steps survive retries, crashes and late workers: a stored     *)
(* repository, README and request never change, and a terminal row is      *)
(* never written again.                                                    *)
KeepsCompletedSteps ==
    \A j \in Jobs :
        /\ row[j].stage # "absent" => row'[j].request = row[j].request
        /\ row[j].repo # NoRepo => row'[j].repo = row[j].repo
        /\ row[j].readme => row'[j].readme
        /\ row[j].stage \in TerminalStages => row'[j] = row[j]

CompletedStepsKept == [][KeepsCompletedSteps]_vars

(* Every accepted job ends, although workers may crash and GitHub may fail *)
(* forever: each claim consumes one of its attempts.                       *)
AcceptedJobsFinish ==
    \A j \in Jobs : Pending(j) ~> row[j].stage \in TerminalStages

(* The queue implements the abstract service: the holder is the job whose  *)
(* lease is live.                                                          *)
Phase(stage) ==
    IF stage = "absent" THEN "none"
    ELSE IF stage \in PendingStages THEN "pending" ELSE stage

Held == {j \in PendingImports : lease[j] > 0}

Holder == IF Held = {} THEN 0 ELSE CHOOSE j \in Held : TRUE

Service == INSTANCE ImportService WITH
    MaxAttempts <- ImportMaxAttempts,
    phase       <- [j \in Jobs |-> Phase(row[j].stage)],
    tries       <- [j \in Jobs |-> row[j].attempts],
    holder      <- Holder

ImplementsService == Service!Spec

=============================================================================
