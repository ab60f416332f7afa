------------------------- MODULE ImportQueueProofs -------------------------
(***************************************************************************)
(* Proofs about ImportQueue, for every number of processes, jobs and       *)
(* attempts and every lease, deadline and clock skew that satisfy          *)
(* ImportQueueAssumption.                                                  *)
(***************************************************************************)
EXTENDS ImportQueue, FiniteSetTheorems, TLAPS

(* The building blocks of rows and worker copies have their types. *)
LEMMA RowTypes ==
    ASSUME NEW r \in Row
    PROVE  /\ Closed(r) \in Row
           /\ r.attempts < ImportMaxAttempts => Claimed(r) \in Row
<1>1. Closed(r) \in Row
  <2>1. 0 \in 0..ImportMaxAttempts
    BY ImportQueueAssumption
  <2>2. (IF r.repo = NoRepo THEN "failed" ELSE "partial") \in TerminalStages
    BY DEF TerminalStages
  <2> QED BY <2>1, <2>2 DEF Row, Closed
<1>2. ASSUME r.attempts < ImportMaxAttempts
      PROVE  Claimed(r) \in Row
  <2>1. r.attempts + 1 \in 0..ImportMaxAttempts
    BY <1>2, ImportQueueAssumption DEF Row
  <2>2. (IF r.repo = NoRepo THEN "resolving" ELSE "reading") \in PendingStages
    BY DEF PendingStages
  <2> QED BY <2>1, <2>2 DEF Row, Claimed
<1> QED BY <1>1, <1>2

LEMMA NoRowType == NoRow \in Row
  BY ImportQueueAssumption DEF Row, NoRow, NoRepo

LEMMA NoWorkType == NoWork \in Work
  BY ImportQueueAssumption DEF Work, NoWork, NoRepo

LEMMA NeverType == Never \in Int /\ Never <= 0 /\ -ClaimSkew = Never
  BY ImportQueueAssumption DEF Never

(* A checkpoint or a retry write keeps the database well-typed. *)
LEMMA UpdateType ==
    ASSUME TypeOK, NEW w \in Workers,
           NEW stage \in PendingStages \cup TerminalStages,
           NEW err \in BOOLEAN, NEW delay \in Never..MaxDelayTicks,
           Update(w, stage, err, delay)
    PROVE  /\ row' \in [Jobs -> Row]
           /\ lease' \in [Jobs -> Never..LeaseTicks]
           /\ wait' \in [Jobs -> Never..MaxDelayTicks]
<1> DEFINE j == work[w].job
<1>1. j \in Jobs /\ row[j] \in Row /\ work[w] \in Work
  BY DEF Update, Owns, PendingImports, TypeOK
<1>2. (IF Releases(stage) THEN 0 ELSE row[j].token) \in 0..ImportMaxAttempts
  BY <1>1, ImportQueueAssumption DEF Row
<1>3. Saved(row[j], w, stage, err) \in Row
  BY <1>1, <1>2, ZenonT(60) DEF Row, Work, Saved
<1>4. row' = [row EXCEPT ![j] = Saved(row[j], w, stage, err)]
  BY DEF Update
<1>4a. row' \in [Jobs -> Row]
  BY <1>1, <1>3, <1>4 DEF TypeOK
<1>5. Never \in Never..LeaseTicks
  BY NeverType, ImportQueueAssumption
<1>6. lease' \in [Jobs -> Never..LeaseTicks]
  BY <1>5 DEF Update, TypeOK
<1>7. wait' \in [Jobs -> Never..MaxDelayTicks]
  BY DEF Update, TypeOK
<1> QED BY <1>4a, <1>6, <1>7

(* A worker that leaves processImport, moves on or records a failure keeps *)
(* the worker variables well-typed.                                        *)
LEMMA ReturnType ==
    ASSUME TypeOK, NEW w \in Workers, Return(w)
    PROVE  /\ pc' \in [Workers -> {"down", "idle", "claiming"} \cup Busy]
           /\ work' \in [Workers -> Work]
           /\ budget' \in [Workers -> 0..TimeoutTicks]
  BY NoWorkType, ImportQueueAssumption DEF TypeOK, Return

LEMMA GotoType ==
    ASSUME TypeOK, NEW w \in Workers, NEW next \in Busy, Goto(w, next),
           tracked' \subseteq RepoIDs, sorted' \subseteq RepoIDs \cup {NoRepo}
    PROVE  TypeOK'
  BY DEF TypeOK, Goto, dbVars

LEMMA FailWithType ==
    ASSUME TypeOK, NEW w \in Workers, NEW retry \in BOOLEAN, FailWith(w, retry)
    PROVE  TypeOK'
<1>1. [work[w] EXCEPT !.retry = retry] \in Work
  BY SMTT(30) DEF TypeOK, Work
<1>2. work' \in [Workers -> Work]
  BY <1>1 DEF FailWith, TypeOK
<1> QED BY <1>2 DEF TypeOK, FailWith, dbVars, Busy

LEMMA CheckpointType ==
    ASSUME TypeOK, NEW w \in Workers,
           NEW stage \in PendingStages \cup TerminalStages,
           NEW next \in Busy \cup {"idle"},
           Checkpoint(w, stage, next)
    PROVE  TypeOK'
<1>1. work[w].err \in BOOLEAN
  BY DEF TypeOK, Work
<1>2. Never \in Never..MaxDelayTicks
  BY NeverType, ImportQueueAssumption
<1>3. CASE Update(w, stage, work[w].err, Never) /\ Return(w)
  BY <1>1, <1>2, <1>3, UpdateType, ReturnType DEF TypeOK, Checkpoint
<1>4. CASE /\ Update(w, stage, work[w].err, Never)
           /\ pc' = [pc EXCEPT ![w] = next]
           /\ UNCHANGED <<work, budget>>
  BY <1>1, <1>2, <1>4, UpdateType DEF TypeOK, Checkpoint
<1>5. CASE Return(w) /\ UNCHANGED dbVars
  BY <1>5, ReturnType DEF TypeOK, Checkpoint, dbVars
<1> QED BY <1>3, <1>4, <1>5 DEF Checkpoint

(* A claim keeps every variable well-typed. *)
LEMMA ClaimNextType ==
    ASSUME TypeOK, NEW w \in Workers, ClaimNext(w)
    PROVE  TypeOK'
<1> PICK j \in First(w) :
      /\ row'    = [k \in Jobs |-> IF k = j THEN Claimed(row[k])
                                   ELSE IF k \in ExhaustedBefore(w, j) THEN Closed(row[k])
                                   ELSE row[k]]
      /\ lease'  = [k \in Jobs |-> IF k = j THEN LeaseTicks - age[w]
                                   ELSE IF k \in ExhaustedBefore(w, j) THEN Never
                                   ELSE lease[k]]
      /\ wait'   = [wait EXCEPT ![j] = Never]
      /\ work'   = [work EXCEPT ![w] = [NoWork EXCEPT !.job    = j,
                                                      !.token  = row[j].attempts + 1,
                                                      !.repo   = row[j].repo,
                                                      !.readme = row[j].readme]]
      /\ budget' = [budget EXCEPT ![w] = TimeoutTicks]
  BY DEF ClaimNext
<1>1. j \in Jobs /\ row[j] \in Row /\ row[j].attempts < ImportMaxAttempts
  BY DEF First, Claimable, HasAttempts, TypeOK
<1>2. row' \in [Jobs -> Row]
  BY <1>1, RowTypes DEF TypeOK
<1>3. /\ Never \in Never..LeaseTicks
      /\ Never \in Never..MaxDelayTicks
      /\ LeaseTicks - age[w] \in Never..LeaseTicks
  BY NeverType, ImportQueueAssumption DEF TypeOK
<1>4. lease' \in [Jobs -> Never..LeaseTicks] /\ wait' \in [Jobs -> Never..MaxDelayTicks]
  BY <1>1, <1>3 DEF TypeOK
<1>5. row[j].attempts + 1 \in 0..ImportMaxAttempts
  BY <1>1, ImportQueueAssumption DEF Row
<1>6. [NoWork EXCEPT !.job = j, !.token = row[j].attempts + 1,
                     !.repo = row[j].repo, !.readme = row[j].readme] \in Work
  BY <1>1, <1>5, NoWorkType DEF Work, Row
<1>7. work' \in [Workers -> Work] /\ budget' \in [Workers -> 0..TimeoutTicks]
  BY <1>6, ImportQueueAssumption DEF TypeOK
<1>8. pc' \in [Workers -> {"down", "idle", "claiming"} \cup Busy]
      /\ age' \in [Workers -> 0..ClaimSkew]
  BY ImportQueueAssumption DEF TypeOK, ClaimNext, LeaveClaim, Busy
<1> QED BY <1>2, <1>4, <1>7, <1>8 DEF TypeOK, ClaimNext

LEMMA TickType == TypeOK /\ Tick => TypeOK'
<1> SUFFICES ASSUME TypeOK, Tick PROVE TypeOK'
  OBVIOUS
<1>1. lease' \in [Jobs -> Never..LeaseTicks]
  BY NeverType, ImportQueueAssumption DEF TypeOK, Tick, CountDown
<1>2. wait' \in [Jobs -> Never..MaxDelayTicks]
  BY NeverType, ImportQueueAssumption DEF TypeOK, Tick, CountDown
<1>3. budget' \in [Workers -> 0..TimeoutTicks]
  BY ImportQueueAssumption DEF TypeOK, Tick, CountDown
<1>4. age' \in [Workers -> 0..ClaimSkew]
  BY ImportQueueAssumption DEF TypeOK, Tick
<1> QED BY <1>1, <1>2, <1>3, <1>4 DEF TypeOK, Tick

LEMMA FailImportType ==
    ASSUME TypeOK, NEW w \in Workers, FailImport(w)
    PROVE  TypeOK'
<1>1. FailedStage(w) \in PendingStages \cup TerminalStages
  BY DEF FailedStage, PendingStages, TerminalStages
<1>2. \A delay \in RetryDelays(w) : delay \in Never..MaxDelayTicks
  BY NeverType, ImportQueueAssumption DEF RetryDelays
<1>3. CASE \E delay \in RetryDelays(w) : Update(w, FailedStage(w), TRUE, delay)
  BY <1>1, <1>2, <1>3, UpdateType, ReturnType DEF TypeOK, FailImport
<1>4. CASE UNCHANGED dbVars
  BY <1>4, ReturnType DEF TypeOK, FailImport, dbVars
<1> QED BY <1>3, <1>4 DEF FailImport

LEMMA TypeStep == TypeOK /\ [Next]_vars => TypeOK'
<1> SUFFICES ASSUME TypeOK, [Next]_vars PROVE TypeOK'
  OBVIOUS
<1> USE DEF dbVars, workerVars
<1>1. ASSUME NEW req \in Requests, Enqueue(req) PROVE TypeOK'
  <2>1. [NoRow EXCEPT !.stage = "queued", !.request = req] \in Row
    BY NoRowType DEF Row, PendingStages
  <2>2. row' \in [Jobs -> Row]
    BY <1>1, <2>1 DEF Enqueue, TypeOK
  <2> QED BY <1>1, <2>2 DEF Enqueue, TypeOK
<1>2. ASSUME NEW w \in Workers, BeginClaim(w) PROVE TypeOK'
  BY <1>2 DEF BeginClaim, TypeOK
<1>3. ASSUME NEW w \in Workers, ClaimNext(w) PROVE TypeOK'
  BY <1>3, ClaimNextType
<1>4. ASSUME NEW w \in Workers, CloseExhausted(w) PROVE TypeOK'
  <2>1. row' \in [Jobs -> Row]
    BY <1>4, RowTypes DEF CloseExhausted, TypeOK
  <2>2. Never \in Never..LeaseTicks
    BY NeverType, ImportQueueAssumption
  <2>3. lease' \in [Jobs -> Never..LeaseTicks]
    BY <1>4, <2>2 DEF CloseExhausted, TypeOK
  <2> QED BY <1>4, <2>1, <2>3, ImportQueueAssumption DEF CloseExhausted, LeaveClaim, TypeOK
<1>5. ASSUME NEW w \in Workers, ClaimNothing(w) PROVE TypeOK'
  BY <1>5, ImportQueueAssumption DEF ClaimNothing, LeaveClaim, TypeOK
<1>6. ASSUME NEW w \in Workers, Start(w) PROVE TypeOK'
  BY <1>6, FailWithType, GotoType DEF Start, TypeOK, Busy
<1>7. ASSUME NEW w \in Workers, Resolve(w) PROVE TypeOK'
  <2>1. CASE \E retry \in BOOLEAN : FailWith(w, retry)
    BY <2>1, FailWithType
  <2>2. CASE \E id \in RepoIDs : /\ tracked' = tracked \cup {id}
                                 /\ work' = [work EXCEPT ![w].repo = id]
                                 /\ pc' = [pc EXCEPT ![w] = "resolved"]
                                 /\ UNCHANGED <<dbVars, sorted, budget, age, stopping>>
    <3>1. work' \in [Workers -> Work] /\ tracked' \subseteq RepoIDs
      BY <2>2, SMTT(30) DEF TypeOK, Work
    <3> QED BY <2>2, <3>1 DEF TypeOK, Busy
  <2> QED BY <1>7, <2>1, <2>2 DEF Resolve
<1>8. ASSUME NEW w \in Workers, SaveResolved(w) PROVE TypeOK'
  BY <1>8, CheckpointType DEF SaveResolved, PendingStages, Busy
<1>9. ASSUME NEW w \in Workers, Read(w) PROVE TypeOK'
  <2>1. CASE \E retry \in BOOLEAN : FailWith(w, retry)
    BY <2>1, FailWithType
  <2>2. CASE /\ \/ work' = [work EXCEPT ![w].readme = TRUE]
                \/ work' = [work EXCEPT ![w].err = TRUE]
             /\ pc' = [pc EXCEPT ![w] = "read"]
             /\ UNCHANGED <<dbVars, tracked, sorted, budget, age, stopping>>
    <3>1. [work[w] EXCEPT !.readme = TRUE] \in Work /\ [work[w] EXCEPT !.err = TRUE] \in Work
      BY DEF TypeOK, Work
    <3>2. work' \in [Workers -> Work]
      BY <2>2, <3>1 DEF TypeOK
    <3> QED BY <2>2, <3>2 DEF TypeOK, Busy
  <2> QED BY <1>9, <2>1, <2>2 DEF Read
<1>10. ASSUME NEW w \in Workers, SaveRead(w) PROVE TypeOK'
  BY <1>10, CheckpointType DEF SaveRead, PendingStages, Busy
<1>11. ASSUME NEW w \in Workers, Classify(w) PROVE TypeOK'
  <2>1. CASE FailWith(w, TRUE)
    BY <2>1, FailWithType
  <2>2. CASE sorted' = sorted \cup {work[w].repo} /\ Goto(w, "finishing") /\ UNCHANGED tracked
    <3>1. work[w].repo \in RepoIDs \cup {NoRepo}
      BY DEF TypeOK, Work
    <3> QED BY <2>2, <3>1, GotoType DEF TypeOK, Busy
  <2> QED BY <1>11, <2>1, <2>2 DEF Classify
<1>12. ASSUME NEW w \in Workers, SaveFinal(w) PROVE TypeOK'
  BY <1>12, CheckpointType DEF SaveFinal, FinalStage, TerminalStages
<1>13. ASSUME NEW w \in Workers, FailImport(w) PROVE TypeOK'
  BY <1>13, FailImportType
<1>14. ASSUME NEW w \in Workers, StartWorker(w) \/ Exit(w) PROVE TypeOK'
  BY <1>14 DEF StartWorker, Exit, TypeOK
<1>15. ASSUME NEW w \in Workers, Shutdown(w) PROVE TypeOK'
  BY <1>15 DEF Shutdown, TypeOK
<1>16. ASSUME NEW w \in Workers, Crash(w) PROVE TypeOK'
  BY <1>16, NoWorkType, ImportQueueAssumption DEF Crash, TypeOK
<1>17. CASE Tick
  BY <1>17, TickType
<1>18. CASE UNCHANGED vars
  BY <1>18 DEF vars, TypeOK
<1> QED
  BY <1>1, <1>2, <1>3, <1>4, <1>5, <1>6, <1>7, <1>8, <1>9, <1>10, <1>11, <1>12,
     <1>13, <1>14, <1>15, <1>16, <1>17, <1>18 DEF Next, WorkerStep, ClaimStep

(* Every variable keeps its type. *)
THEOREM TypeCorrect == Spec => []TypeOK
<1>1. Init => TypeOK
  BY NoRowType, NoWorkType, NeverType, ImportQueueAssumption DEF Init, TypeOK
<1> QED BY <1>1, TypeStep, PTL DEF Spec

-----------------------------------------------------------------------------
(* A step of workers that writes neither row nor lease, starts no attempt  *)
(* and extends no deadline.                                                *)
LEMMA QuietStep ==
    ASSUME TypeOK, TypeOK', LeaseDiscipline,
           UNCHANGED <<row, lease>>,
           \A v \in Workers : pc'[v] \in Busy =>
               /\ pc[v] \in Busy
               /\ work'[v].job = work[v].job
               /\ work'[v].token = work[v].token,
           \A v \in Workers : budget'[v] > 0 => budget'[v] = budget[v] /\ pc'[v] \in Busy
    PROVE  LeaseDiscipline'
<1> USE DEF LeaseDiscipline, Pending, PendingImports
<1>1. TokensNameClaims' /\ OneLiveLease'
  BY DEF TokensNameClaims, OneLiveLease
<1>2. ClaimsDistinct'
  BY DEF ClaimsDistinct
<1>3. DeadlineInsideLease'
  BY DEF DeadlineInsideLease, Owns
<1> QED BY <1>1, <1>2, <1>3

(* A write through UpdateRepositoryImport: it passes the lease check, so   *)
(* it comes from the only attempt that holds the job's current token.      *)
LEMMA UpdateStep ==
    ASSUME TypeOK, TypeOK', LeaseDiscipline,
           NEW w \in Workers, pc[w] \in Busy,
           NEW stage \in PendingStages \cup TerminalStages, NEW err, NEW delay,
           Update(w, stage, err, delay),
           \A v \in Workers : pc'[v] \in Busy =>
               /\ pc[v] \in Busy
               /\ work'[v].job = work[v].job
               /\ work'[v].token = work[v].token,
           \A v \in Workers : budget'[v] > 0 => budget'[v] = budget[v] /\ pc'[v] \in Busy,
           Releases(stage) => budget'[w] = 0
    PROVE  LeaseDiscipline'
<1> DEFINE j == work[w].job
<1>1. /\ j \in Jobs
      /\ row[j].stage \in PendingStages
      /\ row[j].token = work[w].token
      /\ lease[j] > 0
  BY DEF Update, Owns, PendingImports, Pending
<1>2. /\ row' = [row EXCEPT ![j] = Saved(row[j], w, stage, err)]
      /\ lease' = [lease EXCEPT ![j] = IF Releases(stage) THEN Never ELSE @]
  BY DEF Update
<1>3. /\ \A k \in Jobs \ {j} : row'[k] = row[k] /\ lease'[k] = lease[k]
      /\ row'[j] = Saved(row[j], w, stage, err)
      /\ lease'[j] = IF Releases(stage) THEN Never ELSE lease[j]
  BY <1>1, <1>2 DEF TypeOK
<1>4. /\ row'[j].attempts = row[j].attempts
      /\ row'[j].stage = stage
      /\ row'[j].token = IF Releases(stage) THEN 0 ELSE row[j].token
  BY <1>1, <1>3 DEF Saved, TypeOK, Row
<1>5. (~Releases(stage) => stage \in PendingStages) /\ stage # "absent"
  BY DEF Releases, PendingStages, TerminalStages
<1>6. TokensNameClaims'
  BY <1>1, <1>3, <1>4, <1>5 DEF LeaseDiscipline, TokensNameClaims, Pending
<1>7. OneLiveLease'
  <2>1. \A k \in Jobs : lease'[k] > 0 => lease[k] > 0
    BY <1>3, NeverType DEF TypeOK
  <2>2. lease'[j] > 0 => stage \in PendingStages
    BY <1>3, <1>5, NeverType
  <2> QED BY <1>3, <1>4, <2>1, <2>2 DEF LeaseDiscipline, OneLiveLease, Pending
<1>8. ClaimsDistinct'
  <2>1. \A k \in Jobs : row'[k].attempts = row[k].attempts
    BY <1>3, <1>4
  <2> QED BY <2>1 DEF LeaseDiscipline, ClaimsDistinct
<1>9. DeadlineInsideLease'
  <2> SUFFICES ASSUME NEW v \in Workers, budget'[v] > 0
               PROVE  /\ pc'[v] \in Busy
                      /\ Owns(v)'
                      /\ budget'[v] <= lease'[work'[v].job]
    BY DEF DeadlineInsideLease
  <2>1. /\ pc'[v] \in Busy
        /\ pc[v] \in Busy
        /\ budget'[v] = budget[v]
        /\ work'[v].job = work[v].job
        /\ work'[v].token = work[v].token
        /\ Owns(v)
        /\ budget[v] <= lease[work[v].job]
    BY DEF LeaseDiscipline, DeadlineInsideLease
  <2>2. CASE work[v].job # j
    BY <2>1, <2>2, <1>3 DEF Owns, PendingImports, Pending
  <2>3. CASE work[v].job = j
    <3>1. work[v].token = work[w].token
      BY <2>1, <2>3, <1>1 DEF Owns
    <3>2. v = w
      BY <2>1, <2>3, <3>1 DEF LeaseDiscipline, ClaimsDistinct
    <3>3. ~Releases(stage)
      BY <3>2
    <3> QED BY <2>1, <2>3, <3>3, <1>1, <1>3, <1>4, <1>5 DEF Owns, PendingImports, Pending
  <2> QED BY <2>2, <2>3
<1> QED BY <1>6, <1>7, <1>8, <1>9 DEF LeaseDiscipline

(* While an attempt is inside its deadline, no claim can be made: the      *)
(* claimer sees that attempt's lease, however old its clock reading is.    *)
LEMMA ClaimNeedsQuiet ==
    ASSUME TypeOK, LeaseDiscipline, NEW w \in Workers, ~LiveLeaseSeen(w)
    PROVE  /\ \A j \in Jobs : ~(lease[j] > 0)
           /\ \A v \in Workers : ~(budget[v] > 0)
<1>1. age[w] \in Nat
  BY ImportQueueAssumption DEF TypeOK
<1>2. ASSUME NEW j \in Jobs, lease[j] > 0 PROVE FALSE
  <2>1. Pending(j)
    BY <1>2 DEF LeaseDiscipline, OneLiveLease
  <2>2. lease[j] + age[w] > 0
    BY <1>1, <1>2, NeverType DEF TypeOK
  <2> QED BY <2>1, <2>2 DEF LiveLeaseSeen, PendingImports
<1>3. ASSUME NEW v \in Workers, budget[v] > 0 PROVE FALSE
  <2>1. work[v].job \in Jobs /\ lease[work[v].job] > 0
    BY <1>3 DEF LeaseDiscipline, DeadlineInsideLease, Owns, PendingImports
  <2> QED BY <1>2, <2>1
<1> QED BY <1>2, <1>3

LEMMA ClosedFields ==
    ASSUME NEW r \in Row
    PROVE  /\ Closed(r).token = 0
           /\ Closed(r).attempts = r.attempts
           /\ Closed(r).stage = IF r.repo = NoRepo THEN "failed" ELSE "partial"
           /\ Closed(r).stage # "absent"
           /\ Closed(r).repo = r.repo
           /\ Closed(r).readme = r.readme
  BY DEF Row, Closed

LEMMA ClaimedFields ==
    ASSUME NEW r \in Row
    PROVE  /\ Claimed(r).token = r.attempts + 1
           /\ Claimed(r).attempts = r.attempts + 1
           /\ Claimed(r).stage \in PendingStages
           /\ Claimed(r).stage # "absent"
           /\ Claimed(r).repo = r.repo
           /\ Claimed(r).readme = r.readme
  BY DEF Row, Claimed, PendingStages

(* What a write through UpdateRepositoryImport leaves in the row.          *)
LEMMA SavedFields ==
    ASSUME NEW r \in Row, NEW w, NEW stage, NEW err
    PROVE  /\ Saved(r, w, stage, err).stage = stage
           /\ Saved(r, w, stage, err).request = r.request
           /\ Saved(r, w, stage, err).repo = work[w].repo
           /\ Saved(r, w, stage, err).readme = work[w].readme
           /\ Saved(r, w, stage, err).err = err
           /\ Saved(r, w, stage, err).attempts = r.attempts
           /\ Saved(r, w, stage, err).token \in {0, r.token}
  BY DEF Saved, Row

LEMMA CloseExhaustedStep ==
    ASSUME TypeOK, TypeOK', LeaseDiscipline, NEW w \in Workers, CloseExhausted(w)
    PROVE  LeaseDiscipline'
<1>1. /\ \A j \in Jobs : ~(lease[j] > 0)
      /\ \A v \in Workers : ~(budget[v] > 0)
  BY ClaimNeedsQuiet DEF CloseExhausted
<1>2. \A k \in Jobs : ~(lease'[k] > 0)
  BY <1>1, NeverType DEF CloseExhausted
<1>3. \A k \in Jobs : row'[k].attempts = row[k].attempts
  BY ClosedFields DEF CloseExhausted, TypeOK
<1>4. \A k \in Jobs :
        row'[k] = row[k] \/ (row'[k].token = 0 /\ row'[k].stage # "absent")
  BY ClosedFields DEF CloseExhausted, TypeOK
<1>5. TokensNameClaims'
  BY <1>4 DEF LeaseDiscipline, TokensNameClaims, Pending
<1>6. OneLiveLease'
  BY <1>2 DEF OneLiveLease
<1>7. \A v \in Workers : pc'[v] \in Busy => pc[v] \in Busy
  BY DEF CloseExhausted, LeaveClaim, TypeOK, Busy
<1>8. ClaimsDistinct'
  BY <1>3, <1>7 DEF LeaseDiscipline, ClaimsDistinct, CloseExhausted
<1>9. DeadlineInsideLease'
  BY <1>1 DEF DeadlineInsideLease, CloseExhausted
<1> QED BY <1>5, <1>6, <1>8, <1>9 DEF LeaseDiscipline

LEMMA ClaimNextStep ==
    ASSUME TypeOK, TypeOK', LeaseDiscipline, NEW w \in Workers, ClaimNext(w)
    PROVE  LeaseDiscipline'
<1>1. /\ \A j \in Jobs : ~(lease[j] > 0)
      /\ \A v \in Workers : ~(budget[v] > 0)
  BY ClaimNeedsQuiet DEF ClaimNext
<1> PICK j \in First(w) :
      /\ row'    = [k \in Jobs |-> IF k = j THEN Claimed(row[k])
                                   ELSE IF k \in ExhaustedBefore(w, j) THEN Closed(row[k])
                                   ELSE row[k]]
      /\ lease'  = [k \in Jobs |-> IF k = j THEN LeaseTicks - age[w]
                                   ELSE IF k \in ExhaustedBefore(w, j) THEN Never
                                   ELSE lease[k]]
      /\ wait'   = [wait EXCEPT ![j] = Never]
      /\ work'   = [work EXCEPT ![w] = [NoWork EXCEPT !.job    = j,
                                                      !.token  = row[j].attempts + 1,
                                                      !.repo   = row[j].repo,
                                                      !.readme = row[j].readme]]
      /\ budget' = [budget EXCEPT ![w] = TimeoutTicks]
  BY DEF ClaimNext
<1>2. j \in Jobs /\ row[j] \in Row /\ row[j].attempts \in Nat
  BY ImportQueueAssumption DEF First, Claimable, TypeOK, Row
<1>3. /\ pc[w] = "claiming" /\ pc[w] \notin Busy /\ pc'[w] = "starting"
      /\ \A v \in Workers \ {w} : pc'[v] = pc[v] /\ work'[v] = work[v] /\ budget'[v] = budget[v]
      /\ work'[w].job = j /\ work'[w].token = row[j].attempts + 1
      /\ budget'[w] = TimeoutTicks
  BY ZenonT(60) DEF ClaimNext, LeaveClaim, TypeOK, Busy, NoWork
<1>4. /\ row'[j] = Claimed(row[j])
      /\ lease'[j] = LeaseTicks - age[w]
      /\ \A k \in Jobs \ {j} : lease'[k] = lease[k] \/ lease'[k] = Never
      /\ \A k \in Jobs \ {j} : row'[k] = row[k] \/ row'[k] = Closed(row[k])
  BY <1>2
<1>5. row \in [Jobs -> Row]
  BY DEF TypeOK
<1>6. /\ \A k \in Jobs \ {j} : ~(lease'[k] > 0)
      /\ \A k \in Jobs \ {j} :
            row'[k] = row[k] \/ (row'[k].token = 0 /\ row'[k].stage # "absent")
      /\ \A k \in Jobs \ {j} : row'[k].attempts = row[k].attempts
      /\ row'[j].attempts = row[j].attempts + 1
      /\ row'[j].token = row[j].attempts + 1
      /\ row'[j].stage \in PendingStages /\ row'[j].stage # "absent"
  BY <1>1, <1>2, <1>4, <1>5, NeverType, ClosedFields, ClaimedFields
<1>7. TokensNameClaims'
  BY <1>6 DEF LeaseDiscipline, TokensNameClaims, Pending
<1>8. OneLiveLease'
  BY <1>6 DEF OneLiveLease, Pending
<1>9. ClaimsDistinct'
  <2>1. \A v \in Workers : pc[v] \in Busy =>
            work[v].job \in Jobs /\ work[v].token \in 1..row[work[v].job].attempts
    BY DEF LeaseDiscipline, ClaimsDistinct
  <2>2. ASSUME NEW v \in Workers, pc'[v] \in Busy
        PROVE  work'[v].job \in Jobs /\ work'[v].token \in 1..row'[work'[v].job].attempts
    <3>1. CASE v = w
      BY <3>1, <1>2, <1>3, <1>6
    <3>2. CASE v # w
      <4>1. work[v].job \in Jobs /\ work[v].token \in 1..row[work[v].job].attempts
        BY <2>1, <2>2, <3>2, <1>3
      <4>2. CASE work[v].job = j
        BY <4>1, <4>2, <3>2, <1>2, <1>3, <1>6
      <4>3. CASE work[v].job # j
        BY <4>1, <4>3, <3>2, <1>3, <1>6
      <4> QED BY <4>2, <4>3
    <3> QED BY <3>1, <3>2
  <2>3. ASSUME NEW v \in Workers, v # w, pc'[v] \in Busy, work'[v].job = j
        PROVE  work'[v].token # row[j].attempts + 1
    <3>1. work[v].token \in 1..row[j].attempts
      BY <2>1, <2>3, <1>3
    <3> QED BY <3>1, <2>3, <1>2, <1>3
  <2>4. ASSUME NEW u \in Workers, NEW v \in Workers,
               pc'[u] \in Busy, pc'[v] \in Busy,
               work'[u].job = work'[v].job, work'[u].token = work'[v].token
        PROVE  u = v
    <3>1. CASE u # w /\ v # w
      BY <2>4, <3>1, <1>3 DEF LeaseDiscipline, ClaimsDistinct
    <3>2. CASE u = w \/ v = w
      BY <2>3, <2>4, <3>2, <1>3
    <3> QED BY <3>1, <3>2
  <2> QED BY <2>2, <2>4 DEF ClaimsDistinct
<1>10. DeadlineInsideLease'
  <2> SUFFICES ASSUME NEW v \in Workers, budget'[v] > 0
               PROVE  pc'[v] \in Busy /\ Owns(v)' /\ budget'[v] <= lease'[work'[v].job]
    BY DEF DeadlineInsideLease
  <2>1. v = w
    BY <1>1, <1>3
  <2>2. age[w] \in 0..ClaimSkew /\ TimeoutTicks <= LeaseTicks - age[w] /\ LeaseTicks - age[w] > 0
    BY ImportQueueAssumption DEF TypeOK
  <2>3. pc'[w] \in Busy
    BY <1>3 DEF Busy
  <2> QED BY <2>1, <2>2, <2>3, <1>2, <1>3, <1>4, <1>6 DEF Owns, PendingImports, Pending
<1> QED BY <1>7, <1>8, <1>9, <1>10 DEF LeaseDiscipline

LEMMA EnqueueStep ==
    ASSUME TypeOK, TypeOK', LeaseDiscipline, NEW req \in Requests, Enqueue(req)
    PROVE  LeaseDiscipline'
<1> PICK j \in Jobs :
      /\ row[j].stage = "absent"
      /\ row' = [row EXCEPT ![j] = [NoRow EXCEPT !.stage = "queued", !.request = req]]
  BY DEF Enqueue
<1>1. ~Pending(j) /\ ~(lease[j] > 0) /\ row'[j].token = 0 /\ row'[j].attempts = 0
  BY DEF Pending, PendingStages, LeaseDiscipline, OneLiveLease, NoRow, TypeOK
<1>2. /\ \A k \in Jobs \ {j} : row'[k] = row[k]
      /\ UNCHANGED <<lease, pc, work, budget>>
  BY DEF Enqueue, workerVars, TypeOK
<1>3. TokensNameClaims' /\ OneLiveLease'
  BY <1>1, <1>2 DEF LeaseDiscipline, TokensNameClaims, OneLiveLease, Pending
<1>4. \A w \in Workers : pc[w] \in Busy => work[w].job # j
  <2>1. row[j].attempts = 0
    BY DEF LeaseDiscipline, TokensNameClaims
  <2> QED BY <2>1 DEF LeaseDiscipline, ClaimsDistinct
<1>5. ClaimsDistinct'
  BY <1>2, <1>4 DEF LeaseDiscipline, ClaimsDistinct
<1>6. DeadlineInsideLease'
  BY <1>2, <1>4 DEF LeaseDiscipline, DeadlineInsideLease, Owns, PendingImports, Pending
<1> QED BY <1>3, <1>5, <1>6 DEF LeaseDiscipline

LEMMA TickStep ==
    ASSUME TypeOK, TypeOK', LeaseDiscipline, Tick
    PROVE  LeaseDiscipline'
<1>1. UNCHANGED <<row, pc, work>>
  BY DEF Tick
<1>2. \A j \in Jobs : lease[j] \in Int /\ lease'[j] = CountDown(lease[j], Never)
  BY NeverType DEF TypeOK, Tick
<1>3. \A j \in Jobs : lease'[j] > 0 => lease[j] > 0
  BY <1>2, NeverType DEF CountDown
<1>4. \A w \in Workers : budget[w] \in Nat /\ budget'[w] = CountDown(budget[w], 0)
  BY ImportQueueAssumption DEF TypeOK, Tick
<1>5. TokensNameClaims' /\ ClaimsDistinct'
  BY <1>1 DEF LeaseDiscipline, TokensNameClaims, ClaimsDistinct, Pending
<1>6. OneLiveLease'
  BY <1>1, <1>3 DEF LeaseDiscipline, OneLiveLease, Pending
<1>7. DeadlineInsideLease'
  <2> SUFFICES ASSUME NEW w \in Workers, budget'[w] > 0
               PROVE  pc'[w] \in Busy /\ Owns(w)' /\ budget'[w] <= lease'[work'[w].job]
    BY DEF DeadlineInsideLease
  <2>1. budget[w] > 0 /\ budget'[w] = budget[w] - 1
    BY <1>4 DEF CountDown
  <2>2. /\ pc[w] \in Busy
        /\ Owns(w)
        /\ work[w].job \in Jobs
        /\ budget[w] <= lease[work[w].job]
    BY <2>1 DEF LeaseDiscipline, DeadlineInsideLease, Owns, PendingImports
  <2>3. budget'[w] <= lease'[work[w].job]
    BY <1>2, <1>4, <2>1, <2>2, NeverType DEF CountDown
  <2>4. lease'[work[w].job] > 0
    BY <1>2, <1>4, <2>1, <2>2, <2>3, NeverType DEF CountDown
  <2> QED BY <1>1, <2>2, <2>3, <2>4 DEF Owns, PendingImports, Pending
<1> QED BY <1>5, <1>6, <1>7 DEF LeaseDiscipline

(* Checkpoints write through UpdateRepositoryImport, or end the attempt.   *)
LEMMA CheckpointStep ==
    ASSUME TypeOK, TypeOK', LeaseDiscipline,
           NEW w \in Workers, pc[w] \in Busy,
           NEW stage \in PendingStages \cup TerminalStages,
           NEW next \in Busy \cup {"idle"},
           Releases(stage) => next = "idle",
           Checkpoint(w, stage, next)
    PROVE  LeaseDiscipline'
<1>1. CASE Return(w)
  <2>1. \A v \in Workers \ {w} :
            pc'[v] = pc[v] /\ work'[v] = work[v] /\ budget'[v] = budget[v]
    BY <1>1 DEF Return, TypeOK
  <2>2. pc'[w] = "idle" /\ pc'[w] \notin Busy /\ budget'[w] = 0
    BY <1>1 DEF Return, TypeOK, Busy
  <2>3. \A v \in Workers : budget'[v] > 0 => budget'[v] = budget[v] /\ pc'[v] \in Busy
    BY <2>1, <2>2 DEF LeaseDiscipline, DeadlineInsideLease
  <2>4. CASE UNCHANGED dbVars
    BY <2>1, <2>2, <2>3, <2>4, QuietStep DEF dbVars
  <2>5. CASE Update(w, stage, work[w].err, Never)
    BY <2>1, <2>2, <2>3, <2>5, UpdateStep
  <2> QED BY <2>4, <2>5 DEF Checkpoint
<1>2. CASE /\ Update(w, stage, work[w].err, Never)
           /\ next # "idle"
           /\ pc' = [pc EXCEPT ![w] = next]
           /\ UNCHANGED <<work, budget>>
  <2>1. \A v \in Workers : pc'[v] \in Busy <=> pc[v] \in Busy
    BY <1>2 DEF TypeOK
  <2>2. \A v \in Workers : budget'[v] > 0 => budget'[v] = budget[v] /\ pc'[v] \in Busy
    BY <1>2, <2>1 DEF LeaseDiscipline, DeadlineInsideLease
  <2> QED BY <1>2, <2>1, <2>2, UpdateStep
<1> QED BY <1>1, <1>2 DEF Checkpoint

LEMMA FailImportStep ==
    ASSUME TypeOK, TypeOK', LeaseDiscipline, NEW w \in Workers, FailImport(w)
    PROVE  LeaseDiscipline'
<1>1. \A v \in Workers \ {w} :
          pc'[v] = pc[v] /\ work'[v] = work[v] /\ budget'[v] = budget[v]
  BY DEF FailImport, Return, TypeOK
<1>2. pc[w] \in Busy /\ pc'[w] \notin Busy /\ budget'[w] = 0
  BY DEF FailImport, Return, TypeOK, Busy
<1>3. \A v \in Workers : budget'[v] > 0 => budget'[v] = budget[v] /\ pc'[v] \in Busy
  BY <1>1, <1>2 DEF LeaseDiscipline, DeadlineInsideLease
<1>4. CASE UNCHANGED dbVars
  BY <1>1, <1>2, <1>3, <1>4, QuietStep DEF dbVars
<1>5. ASSUME NEW delay, Update(w, FailedStage(w), TRUE, delay) PROVE LeaseDiscipline'
  <2>1. FailedStage(w) \in PendingStages \cup TerminalStages
    BY DEF FailedStage, PendingStages, TerminalStages
  <2> QED BY <1>1, <1>2, <1>3, <1>5, <2>1, UpdateStep
<1> QED BY <1>4, <1>5 DEF FailImport

(* The steps of a worker inside processImport that leave the row alone.    *)
LEMMA LocalStep ==
    ASSUME TypeOK, TypeOK', LeaseDiscipline, NEW w \in Workers,
           \/ Start(w) \/ Classify(w)
           \/ Resolve(w)
           \/ Read(w)
    PROVE  LeaseDiscipline'
<1>1. UNCHANGED <<row, lease, budget>>
  BY DEF Start, Resolve, Read, Classify, FailWith, Goto, dbVars
<1>2. \A v \in Workers : pc'[v] \in Busy <=> pc[v] \in Busy
  BY DEF Start, Resolve, Read, Classify, FailWith, Goto, TypeOK, Busy
<1>3. \A v \in Workers : work'[v].job = work[v].job /\ work'[v].token = work[v].token
  <2>1. \A v \in Workers \ {w} : work'[v] = work[v]
    BY DEF Start, Resolve, Read, Classify, FailWith, Goto, TypeOK
  <2>2. work'[w].job = work[w].job /\ work'[w].token = work[w].token
    BY DEF Start, Resolve, Read, Classify, FailWith, Goto, TypeOK, Work
  <2> QED BY <2>1, <2>2
<1>4. \A v \in Workers : budget'[v] > 0 => budget'[v] = budget[v] /\ pc'[v] \in Busy
  BY <1>1, <1>2 DEF LeaseDiscipline, DeadlineInsideLease
<1> QED BY <1>1, <1>2, <1>3, <1>4, QuietStep

(* The steps of a worker outside processImport, and its death.             *)
LEMMA OutsideStep ==
    ASSUME TypeOK, TypeOK', LeaseDiscipline, NEW w \in Workers,
           \/ BeginClaim(w) \/ ClaimNothing(w) \/ StartWorker(w)
           \/ Exit(w) \/ Shutdown(w) \/ Crash(w)
    PROVE  LeaseDiscipline'
<1>1. UNCHANGED <<row, lease>>
  BY DEF BeginClaim, ClaimNothing, StartWorker, Exit, Shutdown, Crash, dbVars
<1>2. \A v \in Workers : pc'[v] \in Busy => pc[v] \in Busy /\ work'[v] = work[v]
  BY DEF BeginClaim, ClaimNothing, LeaveClaim, StartWorker, Exit, Shutdown, Crash, TypeOK, Busy
<1>3. \A v \in Workers : budget'[v] > 0 => budget'[v] = budget[v] /\ pc'[v] = pc[v]
  <2>1. budget[w] > 0 => pc[w] \in Busy
    BY DEF LeaseDiscipline, DeadlineInsideLease
  <2> QED
    BY <2>1 DEF BeginClaim, ClaimNothing, LeaveClaim, StartWorker, Exit, Shutdown, Crash,
                TypeOK, Busy
<1>4. \A v \in Workers : budget'[v] > 0 => pc'[v] \in Busy
  BY <1>3 DEF LeaseDiscipline, DeadlineInsideLease
<1> QED BY <1>1, <1>2, <1>3, <1>4, QuietStep

LEMMA DisciplineStep == TypeOK /\ LeaseDiscipline /\ [Next]_vars => LeaseDiscipline'
<1> SUFFICES ASSUME TypeOK, LeaseDiscipline, [Next]_vars PROVE LeaseDiscipline'
  OBVIOUS
<1>1. TypeOK'
  BY TypeStep
<1>2. ASSUME NEW req \in Requests, Enqueue(req) PROVE LeaseDiscipline'
  BY <1>1, <1>2, EnqueueStep
<1>3. ASSUME NEW w \in Workers, ClaimStep(w) PROVE LeaseDiscipline'
  BY <1>1, <1>3, ClaimNextStep, CloseExhaustedStep DEF ClaimStep
<1>4. ASSUME NEW w \in Workers, Start(w) \/ Resolve(w) \/ Read(w) \/ Classify(w)
      PROVE  LeaseDiscipline'
  BY <1>1, <1>4, LocalStep
<1>5. ASSUME NEW w \in Workers, SaveResolved(w) PROVE LeaseDiscipline'
  BY <1>1, <1>5, CheckpointStep
     DEF SaveResolved, PendingStages, TerminalStages, Busy, Releases
<1>6. ASSUME NEW w \in Workers, SaveRead(w) PROVE LeaseDiscipline'
  BY <1>1, <1>6, CheckpointStep DEF SaveRead, PendingStages, TerminalStages, Busy, Releases
<1>7. ASSUME NEW w \in Workers, SaveFinal(w) PROVE LeaseDiscipline'
  BY <1>1, <1>7, CheckpointStep DEF SaveFinal, FinalStage, TerminalStages, Busy, Releases
<1>8. ASSUME NEW w \in Workers, FailImport(w) PROVE LeaseDiscipline'
  BY <1>1, <1>8, FailImportStep
<1>9. ASSUME NEW w \in Workers,
             \/ BeginClaim(w) \/ ClaimNothing(w) \/ StartWorker(w)
             \/ Exit(w) \/ Shutdown(w) \/ Crash(w)
      PROVE  LeaseDiscipline'
  BY <1>1, <1>9, OutsideStep
<1>10. CASE Tick
  BY <1>1, <1>10, TickStep
<1>11. CASE UNCHANGED vars
  BY <1>1, <1>11, QuietStep DEF vars, LeaseDiscipline, DeadlineInsideLease
<1> QED
  BY <1>2, <1>3, <1>4, <1>5, <1>6, <1>7, <1>8, <1>9, <1>10, <1>11 DEF Next, WorkerStep

(* Tokens name claims, one lease is live, deadlines end inside leases.     *)
THEOREM LeaseDisciplineHolds == Spec => []LeaseDiscipline
<1>1. Init => LeaseDiscipline
  BY NeverType DEF Init, LeaseDiscipline, TokensNameClaims, OneLiveLease, ClaimsDistinct,
         DeadlineInsideLease, NoRow, Busy
<1> QED BY <1>1, DisciplineStep, TypeCorrect, PTL DEF Spec

(* Two processes never work on imports inside their deadlines at once.     *)
THEOREM WorkIsExclusive == Spec => []ExclusiveWork
<1>1. TypeOK /\ LeaseDiscipline => ExclusiveWork
  <2> SUFFICES ASSUME TypeOK, LeaseDiscipline,
                      NEW v \in Workers, NEW w \in Workers, budget[v] > 0, budget[w] > 0
               PROVE  v = w
    BY DEF ExclusiveWork
  <2>1. /\ pc[v] \in Busy /\ Owns(v)
        /\ pc[w] \in Busy /\ Owns(w)
    BY DEF LeaseDiscipline, DeadlineInsideLease
  <2>2. work[v].job = work[w].job
    BY <2>1 DEF Owns, PendingImports, LeaseDiscipline, OneLiveLease
  <2>3. work[v].token = work[w].token
    BY <2>1, <2>2 DEF Owns
  <2> QED BY <2>1, <2>2, <2>3 DEF LeaseDiscipline, ClaimsDistinct
<1> QED BY <1>1, LeaseDisciplineHolds, TypeCorrect, PTL

(***************************************************************************)
(* Proofs of what the import queue keeps: at most one pending job per      *)
(* repository, the limit, completed steps across retries and late workers, *)
(* and the truth of its outcomes.  They rest on LeaseDiscipline.           *)
(***************************************************************************)
(* What a step other than Enqueue may do to the row of job j: nothing, a   *)
(* claim, or a write of an attempt that passes the lease check.            *)
SavedBy(w, j) ==
    \E stage \in PendingStages \cup TerminalStages, err \in BOOLEAN :
        /\ pc[w] \in Busy
        /\ work[w].job = j
        /\ Owns(w)
        /\ ValidUpdate(w, stage)
        /\ stage = "failed" => work[w].repo = NoRepo
        /\ stage = "done" => pc[w] = "finishing" /\ ~work[w].err /\ ~err
        /\ row'[j] = Saved(row[j], w, stage, err)

RowMoves(j) ==
    \/ row'[j] = row[j]
    \/ Pending(j) /\ row'[j] = Closed(row[j])
    \/ Pending(j) /\ HasAttempts(j) /\ row'[j] = Claimed(row[j])
    \/ \E w \in Workers : SavedBy(w, j)

LEMMA UpdateMoves ==
    ASSUME TypeOK, NEW w \in Workers, pc[w] \in Busy,
           NEW stage \in PendingStages \cup TerminalStages, NEW err \in BOOLEAN, NEW delay,
           stage = "failed" => work[w].repo = NoRepo,
           stage = "done" => pc[w] = "finishing" /\ ~work[w].err /\ ~err,
           Update(w, stage, err, delay),
           NEW j \in Jobs
    PROVE  RowMoves(j)
<1>1. /\ work[w].job \in Jobs
      /\ Owns(w)
      /\ ValidUpdate(w, stage)
      /\ row' = [row EXCEPT ![work[w].job] = Saved(row[work[w].job], w, stage, err)]
  BY DEF Update, Owns, PendingImports
<1>2. CASE work[w].job = j
  BY <1>1, <1>2 DEF RowMoves, SavedBy, TypeOK
<1>3. CASE work[w].job # j
  BY <1>1, <1>3 DEF RowMoves, TypeOK
<1> QED BY <1>2, <1>3

LEMMA CheckpointMoves ==
    ASSUME TypeOK, NEW w \in Workers, pc[w] \in Busy,
           NEW stage \in PendingStages \cup TerminalStages, NEW next,
           stage # "failed",
           stage = "done" => pc[w] = "finishing" /\ ~work[w].err,
           Checkpoint(w, stage, next),
           NEW j \in Jobs
    PROVE  RowMoves(j)
<1>1. work[w].err \in BOOLEAN
  BY DEF TypeOK, Work
<1>2. CASE Update(w, stage, work[w].err, Never)
  BY <1>1, <1>2, UpdateMoves
<1>3. CASE UNCHANGED dbVars
  BY <1>3 DEF dbVars, RowMoves
<1> QED BY <1>2, <1>3 DEF Checkpoint

LEMMA RowStep ==
    ASSUME TypeOK, [Next]_vars, NEW j \in Jobs
    PROVE  (\E req \in Requests : Enqueue(req)) \/ RowMoves(j)
<1>1. ASSUME NEW w \in Workers, ClaimNext(w) PROVE RowMoves(j)
  <2>1. PICK i \in First(w) :
          row' = [k \in Jobs |-> IF k = i THEN Claimed(row[k])
                                 ELSE IF k \in ExhaustedBefore(w, i) THEN Closed(row[k])
                                 ELSE row[k]]
    BY <1>1 DEF ClaimNext
  <2>2. CASE j = i
    BY <2>1, <2>2 DEF First, Claimable, Due, RowMoves
  <2>3. CASE j # i /\ j \in ExhaustedBefore(w, i)
    BY <2>1, <2>3 DEF ExhaustedBefore, Exhausted, Due, RowMoves
  <2>4. CASE j # i /\ j \notin ExhaustedBefore(w, i)
    BY <2>1, <2>4 DEF RowMoves
  <2> QED BY <2>2, <2>3, <2>4
<1>2. ASSUME NEW w \in Workers, CloseExhausted(w) PROVE RowMoves(j)
  BY <1>2 DEF CloseExhausted, Exhausted, Due, RowMoves
<1>3. ASSUME NEW w \in Workers, SaveResolved(w) PROVE RowMoves(j)
  BY <1>3, CheckpointMoves DEF SaveResolved, PendingStages, Busy
<1>4. ASSUME NEW w \in Workers, SaveRead(w) PROVE RowMoves(j)
  BY <1>4, CheckpointMoves DEF SaveRead, PendingStages, Busy
<1>5. ASSUME NEW w \in Workers, SaveFinal(w) PROVE RowMoves(j)
  BY <1>5, CheckpointMoves DEF SaveFinal, FinalStage, TerminalStages, Busy
<1>6. ASSUME NEW w \in Workers, FailImport(w) PROVE RowMoves(j)
  <2>1. /\ FailedStage(w) \in PendingStages \cup TerminalStages
        /\ FailedStage(w) # "done"
        /\ FailedStage(w) = "failed" => work[w].repo = NoRepo
        /\ pc[w] \in Busy
    BY <1>6 DEF FailImport, FailedStage, PendingStages, TerminalStages, Busy
  <2> QED BY <1>6, <2>1, UpdateMoves DEF FailImport, dbVars, RowMoves
<1>7. ASSUME NEW w \in Workers,
             \/ BeginClaim(w) \/ ClaimNothing(w) \/ Start(w) \/ Resolve(w) \/ Read(w)
             \/ Classify(w) \/ Exit(w) \/ StartWorker(w) \/ Shutdown(w) \/ Crash(w)
      PROVE  RowMoves(j)
  <2>1. UNCHANGED row
    BY <1>7 DEF BeginClaim, ClaimNothing, Start, Resolve, Read, Classify, Exit, StartWorker,
                Shutdown, Crash, FailWith, Goto, dbVars
  <2> QED BY <2>1 DEF RowMoves
<1>8. CASE Tick \/ UNCHANGED vars
  BY <1>8 DEF Tick, vars, RowMoves
<1> QED
  BY <1>1, <1>2, <1>3, <1>4, <1>5, <1>6, <1>7, <1>8 DEF Next, WorkerStep, ClaimStep

(* A move keeps the request, keeps terminal rows and brings no row back.   *)
LEMMA MoveKeeps ==
    ASSUME TypeOK, NEW j \in Jobs, RowMoves(j)
    PROVE  /\ row'[j].request = row[j].request
           /\ row'[j].stage \in PendingStages => Pending(j)
           /\ row[j].stage \in TerminalStages => row'[j] = row[j]
           /\ row[j].stage # "absent" => row'[j].stage # "absent"
<1>1. row[j] \in Row
  BY DEF TypeOK
<1>2. CASE row'[j] = row[j]
  BY <1>2 DEF Pending
<1>3. CASE Pending(j) /\ (row'[j] = Closed(row[j]) \/ row'[j] = Claimed(row[j]))
  BY <1>1, <1>3 DEF Closed, Claimed, Row, Pending, PendingStages, TerminalStages
<1>4. CASE \E w \in Workers : SavedBy(w, j)
  BY <1>1, <1>4 DEF SavedBy, Saved, Owns, PendingImports, Row, Pending, PendingStages,
                    TerminalStages
<1> QED BY <1>2, <1>3, <1>4 DEF RowMoves

(* Enqueue adds one pending job and leaves the other rows alone.           *)
LEMMA EnqueueAdds ==
    ASSUME TypeOK, NEW req \in Requests, Enqueue(req)
    PROVE  \E j \in Jobs :
              /\ row[j].stage = "absent"
              /\ row'[j].request = req
              /\ row'[j].stage = "queued"
              /\ row'[j].repo = NoRepo
              /\ \A k \in Jobs \ {j} : row'[k] = row[k]
<1>1. PICK j \in Jobs :
        /\ row[j].stage = "absent"
        /\ row' = [row EXCEPT ![j] = [NoRow EXCEPT !.stage = "queued", !.request = req]]
  BY DEF Enqueue
<1>2. [NoRow EXCEPT !.stage = "queued", !.request = req].request = req
  BY DEF NoRow
<1>3. [NoRow EXCEPT !.stage = "queued", !.request = req].stage = "queued"
  BY DEF NoRow
<1>4. [NoRow EXCEPT !.stage = "queued", !.request = req].repo = NoRepo
  BY DEF NoRow
<1> QED BY <1>1, <1>2, <1>3, <1>4 DEF TypeOK

-----------------------------------------------------------------------------
LEMMA OnePendingStep ==
    TypeOK /\ OnePendingPerRepository /\ [Next]_vars => OnePendingPerRepository'
<1> SUFFICES ASSUME TypeOK, OnePendingPerRepository, [Next]_vars,
                    NEW j \in Jobs, NEW k \in Jobs,
                    Pending(j)', Pending(k)',
                    row'[j].request.name = row'[k].request.name
             PROVE  j = k
  BY DEF OnePendingPerRepository, PendingImports
<1>1. ASSUME NEW req \in Requests, Enqueue(req) PROVE j = k
  <2>1. PICK i \in Jobs : /\ row'[i].request = req
                          /\ \A l \in Jobs \ {i} : row'[l] = row[l]
    BY <1>1, EnqueueAdds
  <2>2. \A l \in Jobs : Pending(l) => row[l].request.name # req.name
    BY <1>1 DEF Enqueue, SameRepositoryPending, PendingImports
  <2>3. \A l \in Jobs \ {i} : Pending(l)' => Pending(l)
    BY <2>1 DEF Pending
  <2>4. CASE j # i /\ k # i
    BY <2>1, <2>3, <2>4 DEF OnePendingPerRepository, PendingImports
  <2>5. CASE j = i /\ k # i
    BY <2>1, <2>2, <2>3, <2>5
  <2>6. CASE j # i /\ k = i
    BY <2>1, <2>2, <2>3, <2>6
  <2> QED BY <2>4, <2>5, <2>6
<1>2. ASSUME \A l \in Jobs : RowMoves(l) PROVE j = k
  <2>1. /\ Pending(j) /\ row'[j].request = row[j].request
        /\ Pending(k) /\ row'[k].request = row[k].request
    BY <1>2, MoveKeeps DEF Pending
  <2> QED BY <2>1 DEF OnePendingPerRepository, PendingImports
<1> QED BY <1>1, <1>2, RowStep

(* One pending job per repository name, whatever is enqueued and retried.  *)
THEOREM RepositoriesPendOnce == Spec => []OnePendingPerRepository
<1>1. Init => OnePendingPerRepository
  BY DEF Init, OnePendingPerRepository, PendingImports, Pending, PendingStages, NoRow
<1> QED BY <1>1, OnePendingStep, TypeCorrect, PTL DEF Spec

LEMMA PendingFinite == IsFiniteSet(PendingImports) /\ Cardinality(PendingImports) \in Nat
<1>1. IsFiniteSet(Jobs)
  BY FS_Interval, ImportQueueAssumption DEF Jobs
<1> QED BY <1>1, FS_Subset, FS_CardinalityType DEF PendingImports

LEMMA BoundedStep == TypeOK /\ QueueBounded /\ [Next]_vars => QueueBounded'
<1> SUFFICES ASSUME TypeOK, QueueBounded, [Next]_vars PROVE QueueBounded'
  OBVIOUS
<1>1. ASSUME NEW req \in Requests, Enqueue(req) PROVE QueueBounded'
  <2>1. PICK i \in Jobs : \A l \in Jobs \ {i} : row'[l] = row[l]
    BY <1>1, EnqueueAdds
  <2>2. PendingImports' \subseteq PendingImports \cup {i}
    BY <2>1 DEF PendingImports, Pending
  <2>3. /\ IsFiniteSet(PendingImports \cup {i})
        /\ Cardinality(PendingImports \cup {i}) <= Cardinality(PendingImports) + 1
    <3>1. IsFiniteSet(PendingImports \cup {i})
      BY PendingFinite, FS_AddElement
    <3>2. Cardinality(PendingImports \cup {i}) =
              IF i \in PendingImports THEN Cardinality(PendingImports)
              ELSE Cardinality(PendingImports) + 1
      BY PendingFinite, FS_AddElement
    <3> QED BY <3>1, <3>2, PendingFinite
  <2>4. /\ Cardinality(PendingImports') <= Cardinality(PendingImports \cup {i})
        /\ IsFiniteSet(PendingImports')
    BY <2>2, <2>3, FS_Subset
  <2>5. Cardinality(PendingImports) < ImportQueueLimit
    BY <1>1, PendingFinite, ImportQueueAssumption DEF Enqueue, QueueFull
  <2>6. Cardinality(PendingImports') \in Nat /\ Cardinality(PendingImports \cup {i}) \in Nat
    BY <2>3, <2>4, FS_CardinalityType
  <2> QED BY <2>3, <2>4, <2>5, <2>6, PendingFinite, ImportQueueAssumption DEF QueueBounded
<1>2. ASSUME \A l \in Jobs : RowMoves(l) PROVE QueueBounded'
  <2>1. PendingImports' \subseteq PendingImports
    BY <1>2, MoveKeeps DEF PendingImports, Pending
  <2>2. Cardinality(PendingImports') <= Cardinality(PendingImports) /\ IsFiniteSet(PendingImports')
    BY <2>1, PendingFinite, FS_Subset
  <2>3. Cardinality(PendingImports') \in Nat
    BY <2>2, FS_CardinalityType
  <2> QED BY <2>2, <2>3, PendingFinite, ImportQueueAssumption DEF QueueBounded
<1> QED BY <1>1, <1>2, RowStep

(* The number of pending jobs never exceeds the limit.                     *)
THEOREM QueueStaysBounded == Spec => []QueueBounded
<1>1. Init => QueueBounded
  <2> SUFFICES ASSUME Init PROVE QueueBounded
    OBVIOUS
  <2>1. PendingImports = {}
    BY DEF Init, PendingImports, Pending, PendingStages, NoRow
  <2> QED BY <2>1, FS_EmptySet, ImportQueueAssumption DEF QueueBounded
<1> QED BY <1>1, BoundedStep, TypeCorrect, PTL DEF Spec

-----------------------------------------------------------------------------
(* A row that holds no job has no completed step.                          *)
LEMMA NoRowFields == NoRow.stage = "absent" /\ NoRow.repo = NoRepo /\ NoRow.readme = FALSE
  BY DEF NoRow

(* CopyIsCurrent made inductive: only an attempt whose job has no          *)
(* repository yet resolves a name.                                         *)
CopyFollowsRow ==
    /\ CopyIsCurrent
    /\ \A w \in Workers : pc[w] = "resolving" => work[w].repo = NoRepo

(* A step that writes no row: a copy may only gain what the row lacks.     *)
LEMMA CopyQuiet ==
    ASSUME TypeOK, CopyFollowsRow,
           UNCHANGED row,
           \A j \in Jobs : lease'[j] > 0 => lease[j] > 0,
           \A v \in Workers : pc'[v] \in Busy =>
               /\ pc[v] \in Busy
               /\ work'[v].job = work[v].job
               /\ work'[v].token = work[v].token
               /\ work'[v].repo = work[v].repo \/ work[v].repo = NoRepo
               /\ work[v].readme => work'[v].readme
               /\ pc'[v] = "resolving" => work'[v].repo = NoRepo
    PROVE  CopyFollowsRow'
<1>1. ASSUME NEW v \in Workers, pc'[v] \in Busy, Owns(v)'
      PROVE  /\ row'[work'[v].job].attempts = work'[v].token
             /\ row'[work'[v].job].repo \in {NoRepo, work'[v].repo}
             /\ row'[work'[v].job].readme => work'[v].readme
  <2>1. pc[v] \in Busy /\ Owns(v)
    BY <1>1 DEF Owns, PendingImports, Pending
  <2> QED BY <1>1, <2>1 DEF CopyFollowsRow, CopyIsCurrent
<1>2. \A v \in Workers : pc'[v] = "resolving" => work'[v].repo = NoRepo
  BY DEF Busy
<1> QED BY <1>1, <1>2 DEF CopyFollowsRow, CopyIsCurrent

(* A write that passes the lease check makes row and copy equal, and no    *)
(* other attempt owns that job.                                            *)
LEMMA CopyUpdate ==
    ASSUME TypeOK, LeaseDiscipline, CopyFollowsRow,
           NEW w \in Workers, pc[w] \in Busy,
           NEW stage, NEW err, NEW delay,
           Update(w, stage, err, delay),
           \A v \in Workers : pc'[v] \in Busy =>
               /\ pc[v] \in Busy
               /\ work'[v] = work[v]
               /\ pc'[v] = "resolving" => pc[v] = "resolving"
    PROVE  CopyFollowsRow'
<1> DEFINE j == work[w].job
<1>1. /\ j \in Jobs
      /\ row[j] \in Row
      /\ row[j].token = work[w].token
      /\ row[j].attempts = work[w].token
      /\ row' = [row EXCEPT ![j] = Saved(row[j], w, stage, err)]
      /\ lease' = [lease EXCEPT ![j] = IF Releases(stage) THEN Never ELSE @]
  BY DEF Update, Owns, ValidUpdate, PendingImports, TypeOK
<1>2. /\ \A k \in Jobs \ {j} : row'[k] = row[k] /\ lease'[k] = lease[k]
      /\ row'[j] = Saved(row[j], w, stage, err)
      /\ lease'[j] > 0 => lease[j] > 0
  BY <1>1, NeverType DEF TypeOK
<1>3. /\ row'[j].repo = work[w].repo
      /\ row'[j].readme = work[w].readme
      /\ row'[j].attempts = row[j].attempts
      /\ row'[j].token \in {0, row[j].token}
  BY <1>1, <1>2, SavedFields
<1>4. ASSUME NEW v \in Workers, pc'[v] \in Busy, Owns(v)'
      PROVE  /\ row'[work'[v].job].attempts = work'[v].token
             /\ row'[work'[v].job].repo \in {NoRepo, work'[v].repo}
             /\ row'[work'[v].job].readme => work'[v].readme
  <2>1. pc[v] \in Busy /\ work'[v] = work[v]
    BY <1>4
  <2>2. CASE work[v].job # j
    <3>1. Owns(v)
      BY <1>2, <1>4, <2>1, <2>2 DEF Owns, PendingImports, Pending
    <3> QED BY <1>2, <2>1, <2>2, <3>1 DEF CopyFollowsRow, CopyIsCurrent, Owns, PendingImports
  <2>3. CASE work[v].job = j
    <3>1. work[v].token \in 1..row[j].attempts /\ row[j].attempts \in Nat
      BY <1>1, <2>1, <2>3, ImportQueueAssumption DEF LeaseDiscipline, ClaimsDistinct, Row
    <3>2. row[j].token = work[v].token
      BY <1>3, <1>4, <2>1, <2>3, <3>1 DEF Owns
    <3>3. v = w
      BY <1>1, <2>1, <2>3, <3>2 DEF LeaseDiscipline, ClaimsDistinct
    <3> QED BY <1>1, <1>3, <2>1, <3>3
  <2> QED BY <2>2, <2>3
<1>5. \A v \in Workers : pc'[v] = "resolving" => work'[v].repo = NoRepo
  BY DEF CopyFollowsRow, Busy
<1> QED BY <1>4, <1>5 DEF CopyFollowsRow, CopyIsCurrent

LEMMA CopyCheckpoint ==
    ASSUME TypeOK, LeaseDiscipline, CopyFollowsRow,
           NEW w \in Workers, pc[w] \in Busy,
           NEW stage, NEW next \in {"reading", "classifying", "finishing", "idle"},
           Checkpoint(w, stage, next)
    PROVE  CopyFollowsRow'
<1>1. \A v \in Workers : pc'[v] \in Busy =>
          /\ pc[v] \in Busy
          /\ work'[v] = work[v]
          /\ pc'[v] = "resolving" => pc[v] = "resolving"
  BY DEF Checkpoint, Return, TypeOK, Busy
<1>2. CASE Update(w, stage, work[w].err, Never)
  BY <1>1, <1>2, CopyUpdate
<1>3. CASE UNCHANGED dbVars
  BY <1>1, <1>3, CopyQuiet DEF dbVars, CopyFollowsRow, Busy
<1> QED BY <1>2, <1>3 DEF Checkpoint

LEMMA CopyClaim ==
    ASSUME TypeOK, LeaseDiscipline, CopyFollowsRow, NEW w \in Workers, ClaimNext(w)
    PROVE  CopyFollowsRow'
<1>1. \A k \in Jobs : ~(lease[k] > 0)
  BY ClaimNeedsQuiet DEF ClaimNext
<1> PICK j \in First(w) :
      /\ row'    = [k \in Jobs |-> IF k = j THEN Claimed(row[k])
                                   ELSE IF k \in ExhaustedBefore(w, j) THEN Closed(row[k])
                                   ELSE row[k]]
      /\ lease'  = [k \in Jobs |-> IF k = j THEN LeaseTicks - age[w]
                                   ELSE IF k \in ExhaustedBefore(w, j) THEN Never
                                   ELSE lease[k]]
      /\ work'   = [work EXCEPT ![w] = [NoWork EXCEPT !.job    = j,
                                                      !.token  = row[j].attempts + 1,
                                                      !.repo   = row[j].repo,
                                                      !.readme = row[j].readme]]
  BY DEF ClaimNext
<1>2. j \in Jobs /\ row[j] \in Row /\ row[j].attempts \in Nat
  BY ImportQueueAssumption DEF First, Claimable, TypeOK, Row
<1>3. /\ pc'[w] = "starting"
      /\ \A v \in Workers \ {w} : pc'[v] = pc[v] /\ work'[v] = work[v]
      /\ work'[w].job = j /\ work'[w].token = row[j].attempts + 1
      /\ work'[w].repo = row[j].repo /\ work'[w].readme = row[j].readme
  <2>1. pc' = [pc EXCEPT ![w] = "starting"]
    BY DEF ClaimNext, LeaveClaim
  <2>2. /\ DOMAIN pc = Workers
        /\ DOMAIN work = Workers
    BY DEF TypeOK
  <2>3. /\ pc'[w] = "starting"
        /\ \A v \in Workers \ {w} : pc'[v] = pc[v] /\ work'[v] = work[v]
    BY <2>1, <2>2
  <2>4. /\ work'[w].job = j /\ work'[w].token = row[j].attempts + 1
        /\ work'[w].repo = row[j].repo /\ work'[w].readme = row[j].readme
    BY <2>2 DEF NoWork
  <2> QED BY <2>3, <2>4, Zenon
<1>4. /\ \A k \in Jobs \ {j} : ~(lease'[k] > 0)
      /\ row'[j] = Claimed(row[j])
  BY <1>1, <1>2, NeverType
<1>5. /\ row'[j].attempts = row[j].attempts + 1 /\ row'[j].token = row[j].attempts + 1
      /\ row'[j].repo = row[j].repo /\ row'[j].readme = row[j].readme
  BY <1>2, <1>4 DEF Claimed, Row
<1>6. ASSUME NEW v \in Workers, v # w, pc'[v] \in Busy, Owns(v)' PROVE FALSE
  <2>1. work[v].job = j /\ pc[v] \in Busy
    BY <1>3, <1>4, <1>6 DEF Owns, PendingImports
  <2>2. work[v].token \in 1..row[j].attempts
    BY <2>1 DEF LeaseDiscipline, ClaimsDistinct
  <2> QED BY <1>2, <1>3, <1>5, <1>6, <2>1, <2>2 DEF Owns
<1>7. \A v \in Workers : pc'[v] = "resolving" => work'[v].repo = NoRepo
  BY <1>3 DEF CopyFollowsRow
<1> QED BY <1>3, <1>5, <1>6, <1>7, ZenonT(60) DEF CopyFollowsRow, CopyIsCurrent

LEMMA CopyStep ==
    TypeOK /\ LeaseDiscipline /\ CopyFollowsRow /\ [Next]_vars => CopyFollowsRow'
<1> SUFFICES ASSUME TypeOK, LeaseDiscipline, CopyFollowsRow, [Next]_vars
             PROVE  CopyFollowsRow'
  OBVIOUS
<1>1. ASSUME NEW req \in Requests, Enqueue(req) PROVE CopyFollowsRow'
  <2>1. PICK j \in Jobs : /\ row[j].stage = "absent"
                          /\ \A k \in Jobs \ {j} : row'[k] = row[k]
    BY <1>1, EnqueueAdds
  <2>2. UNCHANGED <<lease, pc, work>>
    BY <1>1 DEF Enqueue, workerVars
  <2>3. \A w \in Workers : pc[w] \in Busy => work[w].job \in Jobs \ {j}
    BY <2>1 DEF LeaseDiscipline, TokensNameClaims, ClaimsDistinct
  <2>4. \A w \in Workers : pc[w] \in Busy => row'[work[w].job] = row[work[w].job]
    BY <2>1, <2>3
  <2>5. \A w \in Workers : pc[w] \in Busy /\ Owns(w)' => Owns(w)
    BY <2>2, <2>3, <2>4 DEF Owns, PendingImports, Pending
  <2> QED BY <2>2, <2>4, <2>5 DEF CopyFollowsRow, CopyIsCurrent
<1>2. ASSUME NEW w \in Workers, ClaimNext(w) PROVE CopyFollowsRow'
  BY <1>2, CopyClaim
<1>3. ASSUME NEW w \in Workers, CloseExhausted(w) PROVE CopyFollowsRow'
  <2>1. \A k \in Jobs : ~(lease'[k] > 0)
    BY <1>3, ClaimNeedsQuiet, NeverType DEF CloseExhausted
  <2>2. \A v \in Workers : ~Owns(v)'
    BY <2>1 DEF Owns, PendingImports
  <2>3. \A v \in Workers : pc'[v] = "resolving" => pc[v] = "resolving" /\ work'[v] = work[v]
    BY <1>3 DEF CloseExhausted, LeaveClaim, TypeOK
  <2> QED BY <2>2, <2>3 DEF CopyFollowsRow, CopyIsCurrent
<1>4. ASSUME NEW w \in Workers, Start(w) \/ Resolve(w) \/ Read(w) \/ Classify(w)
      PROVE  CopyFollowsRow'
  <2>1. UNCHANGED <<row, lease>>
    BY <1>4 DEF Start, Resolve, Read, Classify, FailWith, Goto, dbVars
  <2>2. \A v \in Workers \ {w} : pc'[v] = pc[v] /\ work'[v] = work[v]
    BY <1>4 DEF Start, Resolve, Read, Classify, FailWith, Goto, TypeOK
  <2>3. /\ pc[w] \in Busy
        /\ work'[w].job = work[w].job
        /\ work'[w].token = work[w].token
        /\ work[w].readme => work'[w].readme
        /\ pc'[w] = "resolving" => work'[w].repo = NoRepo
    BY <1>4 DEF Start, Resolve, Read, Classify, FailWith, Goto, TypeOK, Work, Busy
  <2>4. work'[w].repo = work[w].repo \/ work[w].repo = NoRepo
    BY <1>4 DEF Start, Resolve, Read, Classify, FailWith, Goto, TypeOK, Work, CopyFollowsRow
  <2> QED BY <2>1, <2>2, <2>3, <2>4, CopyQuiet DEF CopyFollowsRow
<1>5. ASSUME NEW w \in Workers, SaveResolved(w) \/ SaveRead(w) \/ SaveFinal(w)
      PROVE  CopyFollowsRow'
  BY <1>5, CopyCheckpoint DEF SaveResolved, SaveRead, SaveFinal, Busy
<1>6. ASSUME NEW w \in Workers, FailImport(w) PROVE CopyFollowsRow'
  <2>1. \A v \in Workers : pc'[v] \in Busy =>
            pc[v] \in Busy /\ work'[v] = work[v] /\ pc'[v] = pc[v]
    BY <1>6 DEF FailImport, Return, TypeOK, Busy
  <2>2. pc[w] \in Busy
    BY <1>6 DEF FailImport, Busy
  <2>3. CASE UNCHANGED dbVars
    BY <2>1, <2>3, CopyQuiet DEF dbVars, CopyFollowsRow
  <2> QED BY <1>6, <2>1, <2>2, <2>3, CopyUpdate DEF FailImport
<1>7. ASSUME NEW w \in Workers,
             \/ BeginClaim(w) \/ ClaimNothing(w) \/ StartWorker(w)
             \/ Exit(w) \/ Shutdown(w) \/ Crash(w)
      PROVE  CopyFollowsRow'
  <2>1. UNCHANGED <<row, lease>>
    BY <1>7 DEF BeginClaim, ClaimNothing, StartWorker, Exit, Shutdown, Crash, dbVars
  <2>2. \A v \in Workers : pc'[v] \in Busy => pc'[v] = pc[v] /\ work'[v] = work[v]
    BY <1>7 DEF BeginClaim, ClaimNothing, LeaveClaim, StartWorker, Exit, Shutdown, Crash,
                TypeOK, Busy
  <2> QED BY <2>1, <2>2, CopyQuiet DEF CopyFollowsRow
<1>8. CASE Tick
  <2>1. UNCHANGED <<row, pc, work>>
    BY <1>8 DEF Tick
  <2>2. \A j \in Jobs : lease'[j] > 0 => lease[j] > 0
    BY <1>8, NeverType DEF Tick, CountDown, TypeOK
  <2> QED BY <2>1, <2>2, CopyQuiet DEF CopyFollowsRow
<1>9. CASE UNCHANGED vars
  BY <1>9, CopyQuiet DEF vars, CopyFollowsRow
<1> QED
  BY <1>1, <1>2, <1>3, <1>4, <1>5, <1>6, <1>7, <1>8, <1>9 DEF Next, WorkerStep, ClaimStep

LEMMA CopyAlwaysFollows == Spec => []CopyFollowsRow
<1>1. Init => CopyFollowsRow
  BY DEF Init, CopyFollowsRow, CopyIsCurrent, Busy
<1> QED BY <1>1, CopyStep, TypeCorrect, LeaseDisciplineHolds, PTL DEF Spec

(* The lease holder's copy is never behind the row it will overwrite.      *)
THEOREM CopiesAreCurrent == Spec => []CopyIsCurrent
<1>1. CopyFollowsRow => CopyIsCurrent
  BY DEF CopyFollowsRow
<1> QED BY <1>1, CopyAlwaysFollows, PTL

(* A place that holds no job yet holds an empty row.                       *)
AbsentRowsEmpty == \A j \in Jobs : row[j].stage = "absent" => row[j] = NoRow

LEMMA AbsentStep == TypeOK /\ AbsentRowsEmpty /\ [Next]_vars => AbsentRowsEmpty'
<1> SUFFICES ASSUME TypeOK, AbsentRowsEmpty, [Next]_vars,
                    NEW j \in Jobs, row'[j].stage = "absent"
             PROVE  row'[j] = NoRow
  BY DEF AbsentRowsEmpty
<1>1. ASSUME NEW req \in Requests, Enqueue(req) PROVE row'[j] = NoRow
  BY <1>1, EnqueueAdds DEF AbsentRowsEmpty
<1>2. CASE RowMoves(j)
  <2>1. row[j] \in Row
    BY DEF TypeOK
  <2>2. row'[j] = row[j]
    BY <1>2, <2>1 DEF RowMoves, SavedBy, Saved, Closed, Claimed, Row, PendingStages,
                      TerminalStages
  <2> QED BY <2>2 DEF AbsentRowsEmpty
<1> QED BY <1>1, <1>2, RowStep

LEMMA AbsentAlwaysEmpty == Spec => []AbsentRowsEmpty
<1>1. Init => AbsentRowsEmpty
  BY DEF Init, AbsentRowsEmpty
<1> QED BY <1>1, AbsentStep, TypeCorrect, PTL DEF Spec

LEMMA KeepStep ==
    TypeOK /\ CopyFollowsRow /\ AbsentRowsEmpty /\ [Next]_vars => KeepsCompletedSteps
<1> SUFFICES ASSUME TypeOK, CopyFollowsRow, AbsentRowsEmpty, [Next]_vars, NEW j \in Jobs
             PROVE  /\ row[j].stage # "absent" => row'[j].request = row[j].request
                    /\ row[j].repo # NoRepo => row'[j].repo = row[j].repo
                    /\ row[j].readme => row'[j].readme
                    /\ row[j].stage \in TerminalStages => row'[j] = row[j]
  BY DEF KeepsCompletedSteps
<1> DEFINE Kept == /\ row[j].repo # NoRepo => row'[j].repo = row[j].repo
                   /\ row[j].readme => row'[j].readme
<1>1. ASSUME NEW req \in Requests, Enqueue(req)
      PROVE  /\ row[j].stage # "absent" => row'[j] = row[j]
             /\ Kept
  <2>1. row[j].stage = "absent" => row[j].repo = NoRepo /\ ~row[j].readme
    BY NoRowFields DEF AbsentRowsEmpty
  <2> QED BY <1>1, <2>1, EnqueueAdds
<1>2. CASE RowMoves(j)
  <2>1. row[j] \in Row
    BY DEF TypeOK
  <2>2. ASSUME row'[j] = row[j] \/ row'[j] = Closed(row[j]) \/ row'[j] = Claimed(row[j])
        PROVE  Kept
    BY <2>1, <2>2, ClosedFields, ClaimedFields
  <2>3. ASSUME NEW w \in Workers, SavedBy(w, j) PROVE Kept
    <3>1. /\ row'[j].repo = work[w].repo
          /\ row'[j].readme = work[w].readme
      BY <2>1, <2>3, SavedFields DEF SavedBy
    <3>2. /\ row[j].repo \in {NoRepo, work[w].repo}
          /\ row[j].readme => work[w].readme
      BY <2>3 DEF SavedBy, CopyFollowsRow, CopyIsCurrent
    <3> QED BY <3>1, <3>2
  <2> QED BY <1>2, <2>2, <2>3, MoveKeeps DEF RowMoves
<1>3. row[j].stage \in TerminalStages => row[j].stage # "absent"
  BY DEF TerminalStages
<1> QED BY <1>1, <1>2, <1>3, RowStep, MoveKeeps

(* Steps completed once survive retries, crashes and late workers.         *)
THEOREM CompletedStepsAreKept == Spec => CompletedStepsKept
<1>1. TypeOK /\ CopyFollowsRow /\ AbsentRowsEmpty /\ [Next]_vars => [KeepsCompletedSteps]_vars
  BY KeepStep
<1> QED BY <1>1, CopyAlwaysFollows, AbsentAlwaysEmpty, TypeCorrect, PTL DEF Spec, CompletedStepsKept

-----------------------------------------------------------------------------
(* OutcomeIsDurable made inductive: rows and copies only name repositories *)
(* that are stored, and an attempt knows what it has done.                 *)
RowsStored == \A j \in Jobs : row[j].repo \in tracked \cup {NoRepo}

CopyStored(w) ==
    /\ work[w].repo \in tracked \cup {NoRepo}
    /\ pc[w] \in {"read", "classifying", "finishing"} => work[w].readme \/ work[w].err
    /\ pc[w] = "finishing" => row[work[w].job].request.topic \/ work[w].repo \in sorted

CopiesStored == \A w \in Workers : pc[w] \in Busy => CopyStored(w)

DurableInv == RowsStored /\ CopiesStored /\ OutcomeIsDurable

(* What is stored stays stored.                                            *)
LEMMA StoresGrow == TypeOK /\ [Next]_vars => tracked \subseteq tracked' /\ sorted \subseteq sorted'
  BY DEF Next, WorkerStep, ClaimStep, vars, workerVars, Enqueue, BeginClaim, ClaimNext,
         CloseExhausted, ClaimNothing, Start, Resolve, SaveResolved, Read, SaveRead, Classify,
         SaveFinal, FailImport, Exit, StartWorker, Shutdown, Crash, Tick, Checkpoint, FailWith, Goto

LEMMA DurableRows ==
    ASSUME TypeOK, DurableInv, [Next]_vars
    PROVE  RowsStored' /\ OutcomeIsDurable'
<1> SUFFICES ASSUME NEW j \in Jobs
             PROVE  /\ row'[j].repo \in tracked' \cup {NoRepo}
                    /\ row'[j].stage \in {"done", "partial"} => row'[j].repo \in tracked'
                    /\ row'[j].stage = "failed" => row'[j].repo = NoRepo
                    /\ row'[j].stage = "done" =>
                          /\ row'[j].readme
                          /\ ~row'[j].err
                          /\ row'[j].request.topic \/ row'[j].repo \in sorted'
  BY DEF RowsStored, OutcomeIsDurable
<1>1. tracked \subseteq tracked' /\ sorted \subseteq sorted' /\ row[j] \in Row
  BY StoresGrow DEF TypeOK
<1>2. CASE row'[j] = row[j]
  BY <1>1, <1>2 DEF DurableInv, RowsStored, OutcomeIsDurable
<1>3. CASE \E req \in Requests : Enqueue(req)
  <2>1. CASE row'[j].stage = "queued" /\ row'[j].repo = NoRepo
    BY <2>1
  <2> QED BY <1>2, <1>3, <2>1, EnqueueAdds
<1>4. CASE row'[j] = Closed(row[j])
  <2>1. row[j].repo \in tracked \cup {NoRepo}
    BY DEF DurableInv, RowsStored
  <2> QED BY <1>1, <1>4, <2>1 DEF Closed, Row
<1>5. CASE row'[j] = Claimed(row[j])
  <2>1. row[j].repo \in tracked \cup {NoRepo}
    BY DEF DurableInv, RowsStored
  <2> QED BY <1>1, <1>5, <2>1 DEF Claimed, Row
<1>6. ASSUME NEW w \in Workers, NEW stage \in PendingStages \cup TerminalStages,
             NEW err \in BOOLEAN,
             pc[w] \in Busy, work[w].job = j,
             ValidUpdate(w, stage),
             stage = "failed" => work[w].repo = NoRepo,
             stage = "done" => pc[w] = "finishing" /\ ~work[w].err /\ ~err,
             row'[j] = Saved(row[j], w, stage, err)
      PROVE  /\ row'[j].repo \in tracked' \cup {NoRepo}
             /\ row'[j].stage \in {"done", "partial"} => row'[j].repo \in tracked'
             /\ row'[j].stage = "failed" => row'[j].repo = NoRepo
             /\ row'[j].stage = "done" =>
                   /\ row'[j].readme
                   /\ ~row'[j].err
                   /\ row'[j].request.topic \/ row'[j].repo \in sorted'
  <2>1. /\ row'[j].stage = stage
        /\ row'[j].repo = work[w].repo
        /\ row'[j].readme = work[w].readme
        /\ row'[j].err = err
        /\ row'[j].request = row[j].request
    BY <1>1, <1>6 DEF Saved, Row
  <2>2. work[w].repo \in tracked \cup {NoRepo}
    BY <1>6 DEF DurableInv, CopiesStored, CopyStored
  <2>3. stage \in {"done", "partial"} => work[w].repo # NoRepo
    BY <1>6 DEF ValidUpdate
  <2>4. stage = "done" => /\ work[w].readme
                          /\ row[j].request.topic \/ work[w].repo \in sorted
    BY <1>6 DEF DurableInv, CopiesStored, CopyStored
  <2> QED BY <1>1, <1>6, <2>1, <2>2, <2>3, <2>4
<1> QED BY <1>2, <1>3, <1>4, <1>5, <1>6, RowStep DEF RowMoves, SavedBy

(* A copy stays true of the stores when its worker does not move.          *)
LEMMA CopiesElsewhere ==
    ASSUME TypeOK, LeaseDiscipline, DurableInv, [Next]_vars,
           NEW v \in Workers, pc[v] \in Busy, pc'[v] = pc[v], work'[v] = work[v]
    PROVE  CopyStored(v)'
<1>1. tracked \subseteq tracked' /\ sorted \subseteq sorted'
  BY StoresGrow
<1>2. row'[work[v].job].request = row[work[v].job].request
  <2>1. work[v].job \in Jobs /\ row[work[v].job].stage # "absent"
    BY DEF LeaseDiscipline, ClaimsDistinct, TokensNameClaims
  <2> QED BY <2>1, RowStep, MoveKeeps, EnqueueAdds
<1> QED BY <1>1, <1>2 DEF DurableInv, CopiesStored, CopyStored

(* A worker that saves its progress either ends the attempt or moves on    *)
(* with the same copy.                                                     *)
LEMMA CopiesCheckpoint ==
    ASSUME TypeOK, LeaseDiscipline, DurableInv, [Next]_vars,
           NEW w \in Workers, SaveResolved(w) \/ SaveRead(w) \/ SaveFinal(w), pc'[w] \in Busy
    PROVE  CopyStored(w)'
<1>1. /\ work'[w] = work[w]
      /\ UNCHANGED <<tracked, sorted>>
      /\ pc[w] \in Busy
  BY DEF SaveResolved, SaveRead, SaveFinal, Checkpoint, Return, TypeOK, Busy
<1>2. row'[work[w].job].request = row[work[w].job].request
  <2>1. work[w].job \in Jobs /\ row[work[w].job].stage # "absent"
    BY <1>1 DEF LeaseDiscipline, ClaimsDistinct, TokensNameClaims
  <2> QED BY <2>1, RowStep, MoveKeeps, EnqueueAdds
<1>3. CASE SaveResolved(w)
  <2>1. pc'[w] = "reading"
    BY <1>3 DEF SaveResolved, Checkpoint, Return, TypeOK, Busy
  <2> QED BY <1>1, <2>1 DEF DurableInv, CopiesStored, CopyStored
<1>4. CASE SaveRead(w)
  <2>1. /\ pc[w] = "read"
        /\ pc'[w] = "finishing" => row[work[w].job].request.topic
    BY <1>4 DEF SaveRead, Checkpoint, Return, TypeOK, Busy
  <2> QED BY <1>1, <1>2, <2>1 DEF DurableInv, CopiesStored, CopyStored
<1>5. CASE SaveFinal(w)
  <2>1. pc'[w] = "idle"
    BY <1>5 DEF SaveFinal, Checkpoint, Return, TypeOK
  <2> QED BY <2>1 DEF Busy
<1> QED BY <1>3, <1>4, <1>5

(* The steps inside processImport that leave the database rows alone.      *)
LEMMA CopiesLocal ==
    ASSUME TypeOK, LeaseDiscipline, DurableInv, [Next]_vars,
           NEW w \in Workers, Start(w) \/ Resolve(w) \/ Read(w) \/ Classify(w)
    PROVE  CopyStored(w)'
<1>1. /\ pc[w] \in Busy
      /\ work[w] \in Work
      /\ UNCHANGED row
      /\ tracked \subseteq tracked'
  BY StoresGrow DEF Start, Resolve, Read, Classify, FailWith, Goto, dbVars, TypeOK, Busy
<1>2. work[w].repo \in tracked \cup {NoRepo}
  BY <1>1 DEF DurableInv, CopiesStored, CopyStored
<1>3. ASSUME NEW retry, FailWith(w, retry) PROVE CopyStored(w)'
  <2>1. pc'[w] = "failing" /\ work'[w].repo = work[w].repo
    BY <1>1, <1>3 DEF FailWith, TypeOK, Work
  <2> QED BY <1>1, <1>2, <2>1 DEF CopyStored
<1>4. CASE Start(w) /\ \E next \in {"resolving", "reading"} : Goto(w, next)
  BY <1>1, <1>2, <1>4 DEF Goto, CopyStored, TypeOK
<1>5. CASE Start(w) /\ work[w].readme /\ Goto(w, "read")
  BY <1>1, <1>2, <1>5 DEF Goto, CopyStored, TypeOK
<1>6. ASSUME NEW id \in RepoIDs,
             tracked' = tracked \cup {id},
             work' = [work EXCEPT ![w].repo = id],
             pc' = [pc EXCEPT ![w] = "resolved"]
      PROVE  CopyStored(w)'
  BY <1>1, <1>6 DEF CopyStored, TypeOK, Work
<1>7. CASE /\ \/ work' = [work EXCEPT ![w].readme = TRUE]
              \/ work' = [work EXCEPT ![w].err = TRUE]
           /\ pc' = [pc EXCEPT ![w] = "read"]
  BY <1>1, <1>2, <1>7 DEF CopyStored, TypeOK, Work
<1>8. CASE pc[w] = "classifying" /\ sorted' = sorted \cup {work[w].repo} /\ Goto(w, "finishing")
  <2>1. work[w].readme \/ work[w].err
    BY <1>1, <1>8 DEF DurableInv, CopiesStored, CopyStored
  <2> QED BY <1>1, <1>2, <1>8, <2>1 DEF Goto, CopyStored, TypeOK
<1>9. CASE Start(w)
  BY <1>3, <1>4, <1>5, <1>9 DEF Start
<1>10. CASE Resolve(w)
  BY <1>3, <1>6, <1>10 DEF Resolve
<1>11. CASE Read(w)
  BY <1>3, <1>7, <1>11 DEF Read
<1>12. CASE Classify(w)
  BY <1>3, <1>8, <1>12 DEF Classify
<1> QED BY <1>9, <1>10, <1>11, <1>12

LEMMA CopiesClaim ==
    ASSUME TypeOK, DurableInv, NEW w \in Workers, ClaimNext(w)
    PROVE  CopyStored(w)'
<1>1. PICK j \in First(w) :
        work' = [work EXCEPT ![w] = [NoWork EXCEPT !.job    = j,
                                                   !.token  = row[j].attempts + 1,
                                                   !.repo   = row[j].repo,
                                                   !.readme = row[j].readme]]
  BY DEF ClaimNext
<1>2. pc'[w] = "starting" /\ tracked' = tracked
  BY DEF ClaimNext, LeaveClaim, TypeOK
<1>3. work'[w].repo = row[j].repo /\ j \in Jobs
  BY <1>1 DEF TypeOK, NoWork, First, Claimable
<1> QED BY <1>2, <1>3 DEF CopyStored, DurableInv, RowsStored

LEMMA DurableStep == TypeOK /\ LeaseDiscipline /\ DurableInv /\ [Next]_vars => DurableInv'
<1> SUFFICES ASSUME TypeOK, LeaseDiscipline, DurableInv, [Next]_vars,
                    NEW v \in Workers, pc'[v] \in Busy
             PROVE  CopyStored(v)'
  BY DurableRows DEF DurableInv, CopiesStored, CopyStored
<1>1. ASSUME pc[v] \in Busy, pc'[v] = pc[v], work'[v] = work[v] PROVE CopyStored(v)'
  BY <1>1, CopiesElsewhere
<1>2. ASSUME pc'[v] = pc[v], work'[v] = work[v] PROVE CopyStored(v)'
  BY <1>1, <1>2
<1>3. ASSUME NEW w \in Workers, ClaimNext(w) PROVE CopyStored(v)'
  <2>1. v # w => pc'[v] = pc[v] /\ work'[v] = work[v]
    BY <1>3 DEF ClaimNext, LeaveClaim, TypeOK
  <2> QED BY <1>2, <1>3, <2>1, CopiesClaim
<1>4. ASSUME NEW w \in Workers, Start(w) \/ Resolve(w) \/ Read(w) \/ Classify(w)
      PROVE  CopyStored(v)'
  <2>1. v # w => pc'[v] = pc[v] /\ work'[v] = work[v]
    BY <1>4 DEF Start, Resolve, Read, Classify, FailWith, Goto, TypeOK
  <2> QED BY <1>2, <1>4, <2>1, CopiesLocal
<1>5. ASSUME NEW w \in Workers, SaveResolved(w) \/ SaveRead(w) \/ SaveFinal(w)
      PROVE  CopyStored(v)'
  <2>1. v # w => pc'[v] = pc[v] /\ work'[v] = work[v]
    BY <1>5 DEF SaveResolved, SaveRead, SaveFinal, Checkpoint, Return, TypeOK
  <2> QED BY <1>2, <1>5, <2>1, CopiesCheckpoint
<1>6. ASSUME NEW w \in Workers,
             \/ FailImport(w) \/ CloseExhausted(w) \/ BeginClaim(w) \/ ClaimNothing(w)
             \/ StartWorker(w) \/ Exit(w) \/ Shutdown(w) \/ Crash(w)
      PROVE  CopyStored(v)'
  <2>1. pc'[v] = pc[v] /\ work'[v] = work[v]
    BY <1>6 DEF FailImport, Return, CloseExhausted, BeginClaim, ClaimNothing, LeaveClaim,
                StartWorker, Exit, Shutdown, Crash, TypeOK, Busy
  <2> QED BY <1>2, <2>1
<1>7. CASE (\E req \in Requests : Enqueue(req)) \/ Tick \/ UNCHANGED vars
  <2>1. pc'[v] = pc[v] /\ work'[v] = work[v]
    BY <1>7 DEF Enqueue, workerVars, Tick, vars
  <2> QED BY <1>2, <2>1
<1> QED BY <1>3, <1>4, <1>5, <1>6, <1>7 DEF Next, WorkerStep, ClaimStep

(* Outcomes tell the truth about what is stored.                           *)
THEOREM OutcomesAreDurable == Spec => []OutcomeIsDurable
<1>1. Init => DurableInv
  BY DEF Init, DurableInv, RowsStored, CopiesStored, OutcomeIsDurable, NoRow, Busy
<1>2. DurableInv => OutcomeIsDurable
  BY DEF DurableInv
<1> QED BY <1>1, <1>2, DurableStep, TypeCorrect, LeaseDisciplineHolds, PTL DEF Spec

(***************************************************************************)
(* The import queue implements ImportService: under the mapping at the end *)
(* of ImportQueue, every step of a worker, a client or the clock is a step *)
(* of the abstract service or changes nothing it shows.                    *)
(***************************************************************************)
(* A live lease determines the holder, because only one lease is live.     *)
LEMMA HolderOfLease ==
    ASSUME LeaseDiscipline, NEW j \in Jobs, lease[j] > 0
    PROVE  Holder = j /\ Holder # 0 /\ Pending(j)
<1>1. Pending(j) /\ \A k \in Jobs : lease[k] > 0 => k = j
  BY DEF LeaseDiscipline, OneLiveLease
<1>2. Held = {j}
  BY <1>1 DEF Held, PendingImports
<1>3. j # 0
  BY ImportQueueAssumption DEF Jobs
<1> QED BY <1>1, <1>2, <1>3 DEF Holder

LEMMA NoHolder ==
    ASSUME \A j \in Jobs : ~(lease[j] > 0)
    PROVE  Holder = 0
<1>1. Held = {}
  BY DEF Held, PendingImports
<1> QED BY <1>1 DEF Holder

(* The same two facts in the state after a step.                           *)
LEMMA NextHolderOfLease ==
    ASSUME LeaseDiscipline', NEW j \in Jobs, lease'[j] > 0
    PROVE  Holder' = j
<1>1. Pending(j)' /\ \A k \in Jobs : lease'[k] > 0 => k = j
  BY DEF LeaseDiscipline, OneLiveLease
<1>2. Held' = {j}
  BY <1>1 DEF Held, PendingImports
<1> QED BY <1>2 DEF Holder

LEMMA NextNoHolder ==
    ASSUME \A j \in Jobs : ~(lease'[j] > 0)
    PROVE  Holder' = 0
<1>1. Held' = {}
  BY DEF Held, PendingImports
<1> QED BY <1>1 DEF Holder

(* What the service shows of a state.                                      *)
PhaseOf == [j \in Jobs |-> Phase(row[j].stage)]
TriesOf == [j \in Jobs |-> row[j].attempts]

LEMMA SameStep ==
    ASSUME UNCHANGED <<row, lease>>
    PROVE  UNCHANGED Service!vars
<1>1. Held' = Held
  BY DEF Held, PendingImports, Pending
<1> QED BY <1>1 DEF Service!vars, Holder

(* EnqueueRepositoryImport accepts the first job that does not exist yet.  *)
LEMMA EnqueueRefines ==
    ASSUME TypeOK, LeaseDiscipline, NEW req \in Requests, Enqueue(req)
    PROVE  Service!Next
<1> PICK j \in Jobs :
      /\ row[j].stage = "absent"
      /\ \A k \in Jobs : k < j => row[k].stage # "absent"
      /\ row' = [row EXCEPT ![j] = [NoRow EXCEPT !.stage = "queued", !.request = req]]
  BY DEF Enqueue
<1>1. /\ \A k \in Jobs \ {j} : row'[k] = row[k]
      /\ row'[j].stage = "queued"
      /\ row'[j].attempts = 0
      /\ lease' = lease
  BY DEF Enqueue, TypeOK, NoRow
<1>2. row[j].attempts = 0 /\ ~(lease[j] > 0)
  BY DEF LeaseDiscipline, TokensNameClaims, OneLiveLease, Pending, PendingStages
<1>3. PhaseOf' = [PhaseOf EXCEPT ![j] = "pending"]
  <2>1. Phase(row'[j].stage) = "pending"
    BY <1>1 DEF Phase, PendingStages
  <2>2. \A k \in Jobs \ {j} : Phase(row'[k].stage) = Phase(row[k].stage)
    BY <1>1
  <2> QED BY <2>1, <2>2 DEF PhaseOf
<1>4. TriesOf' = TriesOf
  BY <1>1, <1>2 DEF TriesOf
<1>5. Holder' = Holder
  <2>1. Held' = Held
    BY <1>1, <1>2 DEF Held, PendingImports, Pending
  <2> QED BY <2>1 DEF Holder
<1>6. PhaseOf[j] = "none" /\ \A k \in Jobs : k < j => PhaseOf[k] # "none"
  BY DEF PhaseOf, Phase, TypeOK, Row, PendingStages, TerminalStages
<1>7. Service!Accept(j)
  BY <1>3, <1>4, <1>5, <1>6 DEF Service!Accept, Service!Jobs, Jobs, PhaseOf, TriesOf
<1> QED BY <1>7 DEF Service!Next, Service!Jobs, Jobs

(* Jobs that the claim closes were spent, and end without being held.      *)
LEMMA ClosingRefines ==
    ASSUME TypeOK, NEW w \in Workers, NEW S, S \subseteq Exhausted(w),
           \A k \in S : row'[k] = Closed(row[k]),
           \A k \in Jobs \ S : Phase(row'[k].stage) = Phase(row[k].stage)
    PROVE  S \in SUBSET Jobs /\ Service!CloseSpent(S)
<1> DEFINE outcome == [k \in S |-> IF row[k].repo = NoRepo THEN "failed" ELSE "partial"]
<1>1. S \subseteq Jobs
  BY DEF Exhausted
<1>2. S \subseteq Service!Spent
  <2>1. \A k \in S : row[k].stage \in PendingStages /\ row[k].attempts >= ImportMaxAttempts
    BY <1>1, ImportQueueAssumption DEF Exhausted, Due, Pending, HasAttempts, TypeOK, Row
  <2>2. \A k \in S : PhaseOf[k] = "pending" /\ TriesOf[k] >= ImportMaxAttempts
    BY <1>1, <2>1 DEF PhaseOf, TriesOf, Phase, PendingStages
  <2> QED BY <1>1, <2>2 DEF Service!Spent, Service!Jobs, Jobs, PhaseOf, TriesOf
<1>3. outcome \in [S -> {"partial", "failed"}]
  OBVIOUS
<1>4. \A k \in S : Phase(row'[k].stage) = outcome[k]
  <2> SUFFICES ASSUME NEW k \in S PROVE Phase(row'[k].stage) = outcome[k]
    OBVIOUS
  <2>1. row'[k].stage = outcome[k]
    BY <1>1, ClosedFields DEF TypeOK
  <2>2. outcome[k] \in {"partial", "failed"}
    OBVIOUS
  <2> QED BY <2>1, <2>2 DEF Phase, PendingStages
<1>5. PhaseOf' = [k \in Jobs |-> IF k \in S THEN outcome[k] ELSE PhaseOf[k]]
  BY <1>4 DEF PhaseOf
<1>6. Service!CloseSpent(S)
  BY <1>2, <1>3, <1>5 DEF Service!CloseSpent, Service!Jobs, Jobs, PhaseOf
<1> QED BY <1>1, <1>6

LEMMA ClaimRefines ==
    ASSUME TypeOK, TypeOK', LeaseDiscipline, LeaseDiscipline', NEW w \in Workers, ClaimNext(w)
    PROVE  Service!Next
<1>1. \A k \in Jobs : ~(lease[k] > 0)
  BY ClaimNeedsQuiet DEF ClaimNext
<1> PICK j \in First(w) :
      /\ row'    = [k \in Jobs |-> IF k = j THEN Claimed(row[k])
                                   ELSE IF k \in ExhaustedBefore(w, j) THEN Closed(row[k])
                                   ELSE row[k]]
      /\ lease'  = [k \in Jobs |-> IF k = j THEN LeaseTicks - age[w]
                                   ELSE IF k \in ExhaustedBefore(w, j) THEN Never
                                   ELSE lease[k]]
  BY DEF ClaimNext
<1> DEFINE S == ExhaustedBefore(w, j)
<1>2. /\ j \in Jobs
      /\ row[j] \in Row
      /\ row[j].stage \in PendingStages
      /\ row[j].attempts < ImportMaxAttempts
      /\ j \notin S
  BY ImportQueueAssumption
     DEF First, Claimable, Due, Pending, HasAttempts, TypeOK, Row, ExhaustedBefore, Jobs
<1>3. /\ row'[j].stage \in PendingStages
      /\ row'[j].attempts = row[j].attempts + 1
  BY <1>2, ClaimedFields
<1>4. \A k \in Jobs \ {j} : row'[k].attempts = row[k].attempts
  BY ClosedFields DEF TypeOK
<1>5. lease'[j] > 0
  BY <1>2, ImportQueueAssumption DEF TypeOK
<1>6. Holder = 0 /\ Holder' = j
  BY <1>1, <1>2, <1>5, NoHolder, NextHolderOfLease
<1>7. S \in SUBSET Jobs /\ Service!CloseSpent(S)
  <2>1. S \subseteq Exhausted(w) /\ S \subseteq Jobs
    BY DEF ExhaustedBefore, Exhausted
  <2>2. \A k \in S : row'[k] = Closed(row[k])
    BY <1>2, <2>1
  <2>3. \A k \in Jobs \ S : Phase(row'[k].stage) = Phase(row[k].stage)
    BY <1>2, <1>3 DEF Phase, PendingStages
  <2> QED BY <2>1, <2>2, <2>3, ClosingRefines
<1>8. TriesOf' = [TriesOf EXCEPT ![j] = @ + 1]
  BY <1>2, <1>3, <1>4 DEF TriesOf
<1>9. PhaseOf[j] = "pending" /\ TriesOf[j] < ImportMaxAttempts
  BY <1>2 DEF PhaseOf, TriesOf, Phase, PendingStages
<1>10. Service!Attempt(j)
  BY <1>6, <1>7, <1>8, <1>9 DEF Service!Attempt, Service!Jobs, Jobs, PhaseOf, TriesOf
<1> QED BY <1>2, <1>10 DEF Service!Next, Service!Jobs, Jobs

LEMMA CloseRefines ==
    ASSUME TypeOK, LeaseDiscipline, NEW w \in Workers, CloseExhausted(w)
    PROVE  Service!Next
<1>1. \A k \in Jobs : ~(lease[k] > 0)
  BY ClaimNeedsQuiet DEF CloseExhausted
<1>2. \A k \in Jobs : ~(lease'[k] > 0)
  BY <1>1, NeverType DEF CloseExhausted
<1>3. Holder = 0 /\ Holder' = 0
  BY <1>1, <1>2, NoHolder, NextNoHolder
<1>4. Exhausted(w) \in SUBSET Jobs /\ Service!CloseSpent(Exhausted(w))
  <2>1. Exhausted(w) \subseteq Jobs
    BY DEF Exhausted
  <2>2. /\ \A k \in Exhausted(w) : row'[k] = Closed(row[k])
        /\ \A k \in Jobs \ Exhausted(w) : row'[k] = row[k]
    BY <2>1 DEF CloseExhausted
  <2> QED BY <2>2, ClosingRefines
<1>5. TriesOf' = TriesOf
  BY ClosedFields DEF TriesOf, CloseExhausted, TypeOK
<1>6. Service!GiveUp
  BY <1>3, <1>4, <1>5 DEF Service!GiveUp, Service!Jobs, Jobs, TriesOf
<1> QED BY <1>6 DEF Service!Next

(* A write that passes the lease check comes from the holder: it shows     *)
(* nothing, releases the job or finishes it.                               *)
LEMMA UpdateRefines ==
    ASSUME TypeOK, LeaseDiscipline, LeaseDiscipline', NEW w \in Workers,
           NEW stage \in PendingStages \cup TerminalStages, NEW err, NEW delay,
           Update(w, stage, err, delay)
    PROVE  Service!Next \/ UNCHANGED Service!vars
<1> DEFINE j == work[w].job
<1>1. /\ j \in Jobs
      /\ row[j] \in Row
      /\ row[j].stage \in PendingStages
      /\ lease[j] > 0
      /\ row' = [row EXCEPT ![j] = Saved(row[j], w, stage, err)]
      /\ lease' = [lease EXCEPT ![j] = IF Releases(stage) THEN Never ELSE @]
  BY DEF Update, Owns, PendingImports, Pending, TypeOK
<1>2. /\ \A k \in Jobs \ {j} : row'[k] = row[k] /\ lease'[k] = lease[k]
      /\ row'[j] = Saved(row[j], w, stage, err)
      /\ lease'[j] = IF Releases(stage) THEN Never ELSE lease[j]
  BY <1>1 DEF TypeOK
<1>3. row'[j].stage = stage /\ row'[j].attempts = row[j].attempts
  BY <1>1, <1>2, SavedFields
<1>4. Holder = j /\ Holder # 0
  BY <1>1, HolderOfLease
<1>5. TriesOf' = TriesOf
  BY <1>2, <1>3 DEF TriesOf
<1>6. ASSUME stage \in PendingStages PROVE PhaseOf' = PhaseOf
  BY <1>1, <1>2, <1>3, <1>6 DEF PhaseOf, Phase, PendingStages
<1>7. ASSUME Releases(stage) PROVE Holder' = 0
  <2>1. \A k \in Jobs : lease[k] > 0 => k = j
    BY <1>1 DEF LeaseDiscipline, OneLiveLease
  <2>2. \A k \in Jobs : ~(lease'[k] > 0)
    BY <1>2, <1>7, <2>1, NeverType
  <2> QED BY <2>2, NextNoHolder
<1>8. CASE stage \in {"resolving", "reading", "classifying"}
  <2>1. ~Releases(stage) /\ stage \in PendingStages
    BY <1>8 DEF Releases, TerminalStages, PendingStages
  <2>2. Holder' = j
    BY <1>1, <1>2, <2>1, NextHolderOfLease
  <2> QED BY <1>4, <1>5, <1>6, <2>1, <2>2 DEF Service!vars, PhaseOf, TriesOf
<1>9. CASE stage = "queued"
  <2>1. Releases(stage) /\ stage \in PendingStages
    BY <1>9 DEF Releases, PendingStages
  <2>2. Service!Release
    BY <1>4, <1>5, <1>6, <1>7, <2>1 DEF Service!Release, PhaseOf, TriesOf
  <2> QED BY <2>2 DEF Service!Next
<1>10. CASE stage \in TerminalStages
  <2>1. Releases(stage) /\ stage \in Service!Outcomes
    BY <1>10 DEF Releases, TerminalStages, Service!Outcomes
  <2>2. PhaseOf' = [PhaseOf EXCEPT ![j] = stage]
    <3>1. Phase(row'[j].stage) = stage
      BY <1>3, <1>10 DEF Phase, PendingStages, TerminalStages
    <3>2. \A k \in Jobs \ {j} : Phase(row'[k].stage) = Phase(row[k].stage)
      BY <1>2
    <3> QED BY <1>1, <3>1, <3>2 DEF PhaseOf
  <2>3. Service!Finish(stage)
    BY <1>4, <1>5, <1>7, <2>1, <2>2 DEF Service!Finish, PhaseOf, TriesOf
  <2> QED BY <2>1, <2>3 DEF Service!Next
<1> QED BY <1>8, <1>9, <1>10 DEF PendingStages, TerminalStages

(* Time can only end the live lease.                                       *)
LEMMA TickRefines ==
    ASSUME TypeOK, LeaseDiscipline, LeaseDiscipline', Tick
    PROVE  Service!Next \/ UNCHANGED Service!vars
<1>1. row' = row /\ \A k \in Jobs : lease'[k] > 0 => lease[k] > 0
  BY NeverType DEF Tick, CountDown, TypeOK
<1>2. CASE \E j \in Jobs : lease'[j] > 0
  <2> PICK j \in Jobs : lease'[j] > 0
    BY <1>2
  <2>1. Holder = j /\ Holder' = j
    BY <1>1, HolderOfLease, NextHolderOfLease
  <2> QED BY <1>1, <2>1 DEF Service!vars
<1>3. CASE \A j \in Jobs : ~(lease'[j] > 0)
  <2>1. Holder' = 0
    BY <1>3, NextNoHolder
  <2>2. CASE Holder = 0
    BY <1>1, <2>1, <2>2 DEF Service!vars
  <2>3. CASE Holder # 0
    <3>1. Service!Release
      BY <1>1, <2>1, <2>3 DEF Service!Release
    <3> QED BY <3>1 DEF Service!Next
  <2> QED BY <2>2, <2>3
<1> QED BY <1>2, <1>3

LEMMA RefinementStep ==
    ASSUME TypeOK, LeaseDiscipline, [Next]_vars
    PROVE  Service!Next \/ UNCHANGED Service!vars
<1>1. TypeOK' /\ LeaseDiscipline'
  BY TypeStep, DisciplineStep
<1>2. ASSUME NEW req \in Requests, Enqueue(req) PROVE Service!Next
  BY <1>2, EnqueueRefines
<1>3. ASSUME NEW w \in Workers, ClaimStep(w) PROVE Service!Next
  BY <1>1, <1>3, ClaimRefines, CloseRefines DEF ClaimStep
<1>4. ASSUME NEW w \in Workers, SaveResolved(w) \/ SaveRead(w) \/ SaveFinal(w)
      PROVE  Service!Next \/ UNCHANGED Service!vars
  <2>1. CASE UNCHANGED dbVars
    BY <2>1, SameStep DEF dbVars
  <2>2. ASSUME NEW stage \in {"reading", "classifying", "partial", "done"},
               Update(w, stage, work[w].err, Never)
        PROVE  Service!Next \/ UNCHANGED Service!vars
    <3>1. stage \in PendingStages \cup TerminalStages
      BY DEF PendingStages, TerminalStages
    <3> QED BY <1>1, <2>2, <3>1, UpdateRefines
  <2> QED
    BY <1>4, <2>1, <2>2 DEF SaveResolved, SaveRead, SaveFinal, FinalStage, Checkpoint
<1>5. ASSUME NEW w \in Workers, FailImport(w)
      PROVE  Service!Next \/ UNCHANGED Service!vars
  <2>1. FailedStage(w) \in PendingStages \cup TerminalStages
    BY DEF FailedStage, PendingStages, TerminalStages
  <2>2. CASE UNCHANGED dbVars
    BY <2>2, SameStep DEF dbVars
  <2> QED BY <1>1, <1>5, <2>1, <2>2, UpdateRefines DEF FailImport
<1>6. ASSUME NEW w \in Workers,
             \/ BeginClaim(w) \/ ClaimNothing(w) \/ Start(w) \/ Resolve(w) \/ Read(w)
             \/ Classify(w) \/ Exit(w) \/ StartWorker(w) \/ Shutdown(w) \/ Crash(w)
      PROVE  UNCHANGED Service!vars
  <2>1. UNCHANGED <<row, lease>>
    BY <1>6 DEF BeginClaim, ClaimNothing, Start, Resolve, Read, Classify, Exit, StartWorker,
                Shutdown, Crash, FailWith, Goto, dbVars
  <2> QED BY <2>1, SameStep
<1>7. CASE Tick
  BY <1>1, <1>7, TickRefines
<1>8. CASE UNCHANGED vars
  BY <1>8, SameStep DEF vars
<1> QED BY <1>2, <1>3, <1>4, <1>5, <1>6, <1>7, <1>8 DEF Next, WorkerStep

(* The queue implements the abstract service.                              *)
THEOREM QueueImplementsService == Spec => ImplementsService
<1>1. Init => Service!Init
  <2> SUFFICES ASSUME Init PROVE Service!Init
    OBVIOUS
  <2>1. \A j \in Jobs : row[j].stage = "absent" /\ row[j].attempts = 0 /\ ~(lease[j] > 0)
    BY NeverType DEF Init, NoRow
  <2>2. Holder = 0
    BY <2>1, NoHolder
  <2> QED BY <2>1, <2>2 DEF Service!Init, Service!Jobs, Jobs, Phase
<1>2. TypeOK /\ LeaseDiscipline /\ [Next]_vars => [Service!Next]_(Service!vars)
  BY RefinementStep
<1> QED
  BY <1>1, <1>2, TypeCorrect, LeaseDisciplineHolds, PTL DEF Spec, ImplementsService, Service!Spec
=============================================================================
