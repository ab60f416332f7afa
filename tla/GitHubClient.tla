---------------------------- MODULE GitHubClient ----------------------------
(***************************************************************************)
(* The client of GitHub's API (source/github/client.go) as the callers of  *)
(* one process share it: one mutex is held over the waiting, the sending   *)
(* and the retries of a request, so that requests form a serial queue.     *)
(* A call of FetchRepository, FetchReadme, FetchActivity or searchPage is  *)
(* a series of requests; the queue is given up between two of them.        *)
(*                                                                         *)
(* Times are countdowns in ticks: what is left of a rate-limit window, of  *)
(* the interval between two requests and of a sleep.                       *)
(***************************************************************************)
EXTENDS Integers, FiniteSets

CONSTANTS Callers,      \* goroutines that use the client
          Nobody,       \* the holder of a free mutex
          Kinds,        \* the calls made, among AllKinds
          CoreInterval, SearchInterval,     \* ticks between two requests
          ServerBackoff, SecondaryBackoff,  \* ticks before the first retry
          MaxRetries,
          MaxPages,     \* pages of commits an activity call reads
          MaxWindow     \* bound: ticks of a Retry-After or rate-limit window

AllKinds == {"repository", "readme", "activity", "search"}

ASSUME GitHubClientAssumption ==
    /\ Nobody \notin Callers
    /\ Kinds \subseteq AllKinds
    /\ {CoreInterval, SearchInterval, ServerBackoff, SecondaryBackoff} \subseteq Nat
    /\ {MaxRetries, MaxPages, MaxWindow} \subseteq Nat

VARIABLES holder, \* of requestMu
          rates,  \* what the last response said of a resource's quota
          since,  \* what is left of the interval after the last request
          call    \* the callers

clientVars == <<holder, rates, since, call>>

Resources == {"core", "search"}

(* X-RateLimit-Remaining: not sent, none, below the 100 that activity      *)
(* leaves to the snapshots, or plenty.                                     *)
Quotas == {"unknown", "none", "low", "plenty"}
Rate   == [left : Quotas, reset : 0..MaxWindow]

(* A response: "ok" stands for 200 and 304, "refused" for 404, 422 and     *)
(* other client errors, "forbidden" for a 403, "secondary" for one that    *)
(* names a secondary limit.                                                *)
Response == [status : {"ok", "moved", "refused", "forbidden", "secondary", "throttled", "failed"},
             rate   : Rate,
             after  : 0..MaxWindow]     \* Retry-After

(* GitHub as the client sees it: it throttles for a reason it gives.       *)
Sent(s, l, t, a) == [status |-> s, rate |-> [left |-> l, reset |-> t], after |-> a]

Responses ==
    {Sent(s, l, MaxWindow, 0) : s \in {"ok", "moved", "refused", "failed"}, l \in {"low", "plenty"}}
      \cup {Sent(s, "none", t, 0) : s \in {"ok", "forbidden"}, t \in 0..MaxWindow}
      \cup {Sent(s, "unknown", 0, a) : s \in {"secondary", "throttled"}, a \in 0..MaxWindow}
      \cup {Sent("forbidden", "plenty", MaxWindow, 0)}

Call == [pc        : {"idle", "check", "queued", "quota", "interval", "sent", "retry"},
         kind      : AllKinds,
         leg       : 0..(MaxPages + 2),  \* which request of the call
         attempt   : 0..MaxRetries,
         timer     : Nat,                \* what is left of a sleep
         cancelled : BOOLEAN]            \* the caller's context has ended

NoCall == [pc |-> "idle", kind |-> "repository", leg |-> 0, attempt |-> 0, timer |-> 0,
           cancelled |-> FALSE]

ClientTypeOK ==
    /\ holder \in Callers \cup {Nobody}
    /\ rates \in [Resources -> Rate]
    /\ since \in [Resources -> Nat]
    /\ call \in [Callers -> Call]
    /\ \A c \in Callers : (call[c].pc \in {"quota", "interval", "sent", "retry"}) <=> (holder = c)

ClientInit ==
    /\ holder = Nobody
    /\ rates = [r \in Resources |-> [left |-> "unknown", reset |-> 0]]
    /\ since = [r \in Resources |-> 0]
    /\ call = [c \in Callers |-> NoCall]

ResourceOf(c) == IF call[c].kind = "search" THEN "search" ELSE "core"
IntervalOf(r) == IF r = "search" THEN SearchInterval ELSE CoreInterval

Go(c, pc, timer) == call' = [call EXCEPT ![c].pc = pc, ![c].timer = timer]

(* A request of the call begins; activity looks at the quota first. *)
NextRequest(c, kind, leg, cancelled) ==
    call' = [call EXCEPT ![c] = [NoCall EXCEPT !.pc = IF kind = "activity" THEN "check" ELSE "queued",
                                               !.kind = kind, !.leg = leg, !.cancelled = cancelled]]

EndCall(c) == call' = [call EXCEPT ![c] = NoCall]

BeginCall(c, kind) ==
    /\ call[c].pc = "idle"
    /\ NextRequest(c, kind, 1, FALSE)
    /\ UNCHANGED <<holder, rates, since>>

(* activityRequest reads the recorded quota without the mutex. *)
Headroom == ~(rates["core"].left \in {"none", "low"} /\ rates["core"].reset > 0)

CheckHeadroom(c) ==
    /\ call[c].pc = "check"
    /\ IF Headroom THEN Go(c, "queued", 0) ELSE EndCall(c)
    /\ UNCHANGED <<holder, rates, since>>

(***************************************************************************)
(* do, under the mutex.                                                    *)
(***************************************************************************)
(* waitBeforeRequest: an exhausted quota is slept out, the extra second    *)
(* included in the last tick; then what is left of the interval.           *)
Exhausted(r) == rates[r].left = "none" /\ rates[r].reset > 0

(* Faulty variant: the interval is not kept. *)
WaitForQuota(c, attempt) ==
    LET r == ResourceOf(c)
    IN  call' = [call EXCEPT ![c] = [@ EXCEPT
            !.attempt = attempt,
            !.pc      = IF Exhausted(r) THEN "quota" ELSE "interval",
            !.timer   = IF Exhausted(r) THEN rates[r].reset ELSE 0]]

WaitBeforeRequest(c, attempt) ==
    LET r == ResourceOf(c)
    IN  call' = [call EXCEPT ![c] = [@ EXCEPT
            !.attempt = attempt,
            !.pc      = IF Exhausted(r) THEN "quota" ELSE "interval",
            !.timer   = IF Exhausted(r) THEN rates[r].reset ELSE since[r]]]

Acquire(c) ==
    /\ call[c].pc = "queued"
    /\ holder = Nobody
    /\ holder' = c
    /\ WaitBeforeRequest(c, 0)
    /\ UNCHANGED <<rates, since>>

QuotaSlept(c) ==
    /\ call[c].pc = "quota"
    /\ call[c].timer = 0
    /\ Go(c, "interval", since[ResourceOf(c)])
    /\ UNCHANGED <<holder, rates, since>>

(* Faulty variant: the mutex is not released. *)
GiveUpHolding(c) ==
    /\ UNCHANGED holder
    /\ EndCall(c)

(* do returns without a response; the call returns its error. *)
GiveUp(c) ==
    /\ holder' = Nobody
    /\ EndCall(c)

(* A request whose context has ended is recorded, but not sent. *)
Send(c) ==
    LET r == ResourceOf(c)
    IN  /\ call[c].pc = "interval"
        /\ call[c].timer = 0
        /\ since' = [since EXCEPT ![r] = IntervalOf(r)]
        /\ IF call[c].cancelled THEN GiveUp(c)
           ELSE Go(c, "sent", 0) /\ UNCHANGED holder
        /\ UNCHANGED rates

(* Faulty variant: one retry more. *)
RetryDelaysMore(response, attempt) ==
    IF response.status \in {"failed", "secondary", "throttled"} /\ attempt <= MaxRetries
    THEN {ServerBackoff} ELSE {}

(* retryDelay: the ticks to wait before another attempt, none if the       *)
(* response is final.                                                      *)
RetryDelays(response, attempt) ==
    LET retried == response.status \in {"forbidden", "secondary", "throttled", "failed"}
    IN  IF ~retried \/ attempt >= MaxRetries THEN {}
        ELSE IF response.after > 0 THEN {response.after}
        ELSE IF response.rate.left = "none" /\ response.rate.reset > 0 THEN {response.rate.reset}
        ELSE IF response.status = "forbidden" THEN {}
        ELSE IF response.status = "failed" THEN {ServerBackoff * 2^attempt}
        ELSE {SecondaryBackoff * 2^attempt}

(***************************************************************************)
(* What a call does after its leg-th response.                             *)
(***************************************************************************)
(* FetchRepository follows one redirect. *)
FollowsRedirect(x, status) == x.kind = "repository" /\ status = "moved" /\ x.leg = 1

(* FetchReadme resolves the repository by its ID, then reads the file. *)
ReadsReadme(x, status) == x.kind = "readme" /\ status = "ok" /\ x.leg = 1

(* FetchActivity resolves it too, pins its head and reads pages of commits. *)
ReadsCommits(x, status) == x.kind = "activity" /\ status = "ok" /\ x.leg < MaxPages + 2

(* A search reads its pages. *)
ReadsPage(x, status) == x.kind = "search" /\ status = "ok" /\ x.leg < MaxPages

Continues(x, status) ==
    FollowsRedirect(x, status) \/ ReadsReadme(x, status) \/ ReadsCommits(x, status) \/ ReadsPage(x, status)

Answer(c) ==
    /\ call[c].pc = "sent"
    /\ \E response \in Responses :
          /\ rates' = [rates EXCEPT ![ResourceOf(c)] = response.rate]
          /\ \/ /\ RetryDelays(response, call[c].attempt) = {}
                /\ holder' = Nobody
                /\ \/ EndCall(c)                    \* the call is complete or failed
                   \/ /\ Continues(call[c], response.status)
                      /\ NextRequest(c, call[c].kind, call[c].leg + 1, call[c].cancelled)
             \/ /\ \E delay \in RetryDelays(response, call[c].attempt) : Go(c, "retry", delay)
                /\ UNCHANGED holder
    /\ UNCHANGED since

(* The connection fails, or the caller's context ends the request. *)
NoAnswer(c) ==
    /\ call[c].pc = "sent"
    /\ GiveUp(c)
    /\ UNCHANGED <<rates, since>>

Retry(c) ==
    /\ call[c].pc = "retry"
    /\ call[c].timer = 0
    /\ WaitBeforeRequest(c, call[c].attempt + 1)
    /\ UNCHANGED <<holder, rates, since>>

(* sleepContext ends early when the context does; waiting for the mutex    *)
(* does not.                                                               *)
SleepCancelled(c) ==
    /\ call[c].pc \in {"quota", "interval", "retry"}
    /\ call[c].timer > 0
    /\ call[c].cancelled
    /\ GiveUp(c)
    /\ UNCHANGED <<rates, since>>

(***************************************************************************)
(* The callers' deadlines, and time.                                       *)
(***************************************************************************)
CancelCall(c) ==
    /\ call[c].pc # "idle"
    /\ ~call[c].cancelled
    /\ call' = [call EXCEPT ![c].cancelled = TRUE]
    /\ UNCHANGED <<holder, rates, since>>

Less(n) == IF n > 0 THEN n - 1 ELSE 0

ClientTick ==
    /\ rates' = [r \in Resources |-> [rates[r] EXCEPT !.reset = Less(@)]]
    /\ since' = [r \in Resources |-> Less(since[r])]
    /\ call' = [c \in Callers |-> [call[c] EXCEPT !.timer = Less(@)]]
    /\ UNCHANGED holder

ClientStep(c) ==
    \/ CheckHeadroom(c) \/ QuotaSlept(c) \/ Send(c) \/ Answer(c)
    \/ NoAnswer(c) \/ Retry(c) \/ SleepCancelled(c)

ClientNext ==
    \/ \E c \in Callers :
          \/ \E kind \in Kinds : BeginCall(c, kind)
          \/ Acquire(c)
          \/ ClientStep(c)
          \/ CancelCall(c)
    \/ ClientTick

(* A response or the transport's timeout comes, a sleep ends, and the      *)
(* mutex is handed to a goroutine that has waited for it (a sync.Mutex in  *)
(* starvation mode does so after a millisecond).                           *)
ClientFairness ==
    /\ WF_clientVars(ClientTick)
    /\ \A c \in Callers : WF_clientVars(ClientStep(c)) /\ SF_clientVars(Acquire(c))

ClientSpec == ClientInit /\ [][ClientNext]_clientVars /\ ClientFairness

(***************************************************************************)
(* Properties.                                                             *)
(***************************************************************************)
(* No request leaves before the interval after the last one of its         *)
(* resource, nor while the last response says that the quota is used up:   *)
(* whoever holds the mutex, first attempt, retry, redirect or next page.   *)
SpacedRequests ==
    [][\A c \in Callers : Send(c) => since[ResourceOf(c)] = 0 /\ ~Exhausted(ResourceOf(c))]_clientVars

(* The mutex is held across sleeps and retries, yet every call returns:    *)
(* attempts are bounded, and a cancelled caller leaves its sleep.          *)
CallsReturn == \A c \in Callers : call[c].pc # "idle" ~> call[c].pc = "idle"
=============================================================================
