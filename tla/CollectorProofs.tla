-------------------------- MODULE CollectorProofs --------------------------
(***************************************************************************)
(* Proofs about the client of GitHub's API and about the activity cache,   *)
(* for any number of callers, runs, repositories and commits.              *)
(*                                                                         *)
(* The client: the mutex makes what its holder read of the interval and of *)
(* the quota true until it sends (Waits), so that requests are spaced.     *)
(***************************************************************************)
EXTENDS MCCollector, DataLemmas

(***************************************************************************)
(* The client.                                                             *)
(***************************************************************************)
Holding == {"quota", "interval", "sent", "retry"}

(* A caller that sleeps has not used up its attempts; the sleep lasts at   *)
(* least as long as what is left of the quota's window or of the interval. *)
Waits(c) ==
    LET r == ResourceOf(c)
    IN  /\ call[c].pc = "retry" => call[c].attempt < MaxRetries
        /\ call[c].pc = "quota" => rates[r].reset <= call[c].timer
        /\ call[c].pc = "interval" => since[r] <= call[c].timer /\ ~Exhausted(r)

ClientInv == ClientTypeOK /\ \A c \in Callers : Waits(c)

LEMMA Powers ==
    ASSUME NEW n \in Nat
    PROVE  2^n \in Nat
<1>1. IsFiniteSet(1..n) /\ Cardinality(1..n) = n
  BY FS_Interval
<1>2. IsFiniteSet(SUBSET (1..n)) /\ Cardinality(SUBSET (1..n)) = 2^n
  BY <1>1, FS_SUBSET
<1> QED BY <1>2, FS_CardinalityType

LEMMA ClientConstants ==
    /\ CoreInterval \in Nat /\ SearchInterval \in Nat
    /\ ServerBackoff \in Nat /\ SecondaryBackoff \in Nat
    /\ MaxRetries \in Nat /\ MaxPages \in Nat /\ MaxWindow \in Nat
    /\ Nobody \notin Callers /\ Kinds \subseteq AllKinds
BY GitHubClientAssumption

LEMMA NoCallTyped == NoCall \in Call
BY ClientConstants DEF NoCall, Call, AllKinds

(* What GitHub answers is a response, and the wait before a retry is a     *)
(* number of ticks; no attempt is made after the last one.                 *)
LEMMA ResponsesTyped == Responses \subseteq Response
<1>1. 0 \in 0..MaxWindow /\ MaxWindow \in 0..MaxWindow
  BY ClientConstants
<1> QED BY <1>1 DEF Responses, Response, Sent, Rate, Quotas

LEMMA DelaysTyped ==
    ASSUME NEW response \in Responses, NEW attempt \in 0..MaxRetries
    PROVE  /\ RetryDelays(response, attempt) \subseteq Nat
           /\ RetryDelays(response, attempt) # {} => attempt < MaxRetries
<1>1. response \in Response
  BY ResponsesTyped
<1>2. response.after \in Nat /\ response.rate.reset \in Nat
  BY <1>1, ClientConstants DEF Response, Rate
<1>3. 2^attempt \in Nat
  BY Powers, ClientConstants
<1>4. ServerBackoff * 2^attempt \in Nat /\ SecondaryBackoff * 2^attempt \in Nat
  <2> DEFINE n == 2^attempt
  <2>1. n \in Nat
    BY <1>3
  <2> HIDE DEF n
  <2>2. ServerBackoff * n \in Nat /\ SecondaryBackoff * n \in Nat
    BY <2>1, ClientConstants
  <2> QED BY <2>2 DEF n
<1>5. attempt >= MaxRetries \/ attempt < MaxRetries
  BY ClientConstants
<1> QED BY <1>2, <1>4, <1>5 DEF RetryDelays

(* A step of caller c that leaves it in state x.  Either the mutex, the    *)
(* quotas and the intervals stay, or c holds or takes the mutex.           *)
LEMMA CallerStep ==
    ASSUME ClientInv, NEW c \in Callers, NEW x \in Call,
           call' = [call EXCEPT ![c] = x],
           rates' \in [Resources -> Rate], since' \in [Resources -> Nat],
           x.pc \in Holding <=> holder' = c,
           Waits(c)',
           \/ holder' = holder /\ rates' = rates /\ since' = since
           \/ holder \in {c, Nobody} /\ holder' \in {c, Nobody}
    PROVE  ClientInv'
<1> USE DEF ClientInv
<1>1. call \in [Callers -> Call]
  BY DEF ClientTypeOK
<1>2. call' \in [Callers -> Call] /\ call'[c] = x
  BY <1>1
<1>3. \A d \in Callers \ {c} : call'[d] = call[d]
  BY <1>1
<1>4. holder' \in Callers \cup {Nobody}
  BY DEF ClientTypeOK
<1>5. ASSUME NEW d \in Callers PROVE (call'[d].pc \in Holding) <=> (holder' = d)
  <2>1. CASE d = c
    BY <2>1, <1>2
  <2>2. CASE d # c
    <3>1. call'[d] = call[d]
      BY <1>3, <2>2
    <3>2. (call[d].pc \in Holding) <=> (holder = d)
      BY DEF ClientTypeOK, Holding
    <3>3. Nobody # d
      BY ClientConstants
    <3> QED BY <3>1, <3>2, <3>3, <2>2
  <2> QED BY <2>1, <2>2
<1>6. ClientTypeOK'
  BY <1>2, <1>4, <1>5 DEF ClientTypeOK, Holding
<1>7. ASSUME NEW d \in Callers PROVE Waits(d)'
  <2>1. CASE d = c
    BY <2>1
  <2>2. CASE d # c
    <3>1. call'[d] = call[d]
      BY <1>3, <2>2
    <3>2. CASE holder' = holder /\ rates' = rates /\ since' = since
      BY <3>1, <3>2 DEF Waits, ResourceOf, Exhausted
    <3>3. CASE holder \in {c, Nobody}
      <4>1. call[d].pc \notin Holding
        BY <3>3, <2>2, ClientConstants DEF ClientTypeOK, Holding
      <4> QED BY <4>1, <3>1 DEF Waits, Holding
    <3> QED BY <3>2, <3>3
  <2> QED BY <2>1, <2>2
<1> QED BY <1>6, <1>7

LEMMA ClientInit_Inv == ClientInit => ClientInv
<1> SUFFICES ASSUME ClientInit PROVE ClientInv
  OBVIOUS
<1>1. 0 \in 0..MaxWindow
  BY ClientConstants
<1>2. rates \in [Resources -> Rate]
  BY <1>1 DEF ClientInit, Rate, Quotas
<1>3. \A c \in Callers : call[c] = NoCall /\ NoCall.pc = "idle"
  BY DEF ClientInit, NoCall
<1>4. call \in [Callers -> Call]
  BY NoCallTyped DEF ClientInit
<1> QED BY <1>2, <1>3, <1>4, ClientConstants DEF ClientInit, ClientInv, ClientTypeOK, Waits

(* The caller's own steps. *)
LEMMA CallTyped ==
    ASSUME ClientInv, NEW c \in Callers
    PROVE  /\ call[c] \in Call
           /\ call = [call EXCEPT ![c] = call[c]]
           /\ ResourceOf(c) \in Resources
           /\ call[c].attempt \in 0..MaxRetries
           /\ call[c].leg \in 0..(MaxPages + 2)
           /\ call[c].timer \in Nat
           /\ (call[c].pc \in Holding) <=> (holder = c)
           /\ rates[ResourceOf(c)] \in Rate /\ rates[ResourceOf(c)].reset \in Nat
           /\ since[ResourceOf(c)] \in Nat
           /\ c # Nobody
<1>1. call[c] \in Call
  BY DEF ClientInv, ClientTypeOK
<1>2. ResourceOf(c) \in Resources
  BY DEF ResourceOf, Resources
<1>3. rates[ResourceOf(c)] \in Rate /\ since[ResourceOf(c)] \in Nat
  BY <1>2 DEF ClientInv, ClientTypeOK
<1>4. rates[ResourceOf(c)].reset \in Nat
  BY <1>3, ClientConstants DEF Rate
<1>5. call = [call EXCEPT ![c] = call[c]]
  BY DEF ClientInv, ClientTypeOK
<1>6. (call[c].pc \in Holding) <=> (holder = c)
  BY DEF ClientInv, ClientTypeOK, Holding
<1> QED BY <1>1, <1>2, <1>3, <1>4, <1>5, <1>6, ClientConstants DEF Call

(* The call returns, or asks for the mutex again. *)
LEMMA CallerLets ==
    ASSUME ClientInv, NEW c \in Callers, NEW x \in Call,
           call' = [call EXCEPT ![c] = x], x.pc \notin Holding,
           rates' \in [Resources -> Rate], since' \in [Resources -> Nat],
           \/ holder # c /\ UNCHANGED <<holder, rates, since>>
           \/ holder = c /\ holder' = Nobody
    PROVE  ClientInv'
<1>1. holder' # c
  BY CallTyped
<1>2. call'[c] = x
  BY DEF ClientInv, ClientTypeOK
<1>3. Waits(c)'
  BY <1>2 DEF Waits, Holding
<1> QED BY <1>1, <1>3, CallerStep

(* The caller waits for the quota or the interval, mutex in hand. *)
LEMMA WaitingBegins ==
    ASSUME ClientInv, NEW c \in Callers, NEW attempt \in 0..MaxRetries,
           WaitBeforeRequest(c, attempt), holder \in {c, Nobody}, holder' = c,
           UNCHANGED <<rates, since>>
    PROVE  ClientInv'
<1> DEFINE r == ResourceOf(c)
           x == [call[c] EXCEPT !.attempt = attempt,
                    !.pc      = IF Exhausted(r) THEN "quota" ELSE "interval",
                    !.timer   = IF Exhausted(r) THEN rates[r].reset ELSE since[r]]
<1>1. call' = [call EXCEPT ![c] = x]
  BY DEF WaitBeforeRequest
<1>2. x \in Call
  BY CallTyped DEF Call
<1>3. call'[c] = x
  BY <1>1 DEF ClientInv, ClientTypeOK
<1>4. x.pc \in Holding /\ x.pc # "retry"
  BY CallTyped DEF Call, Holding
<1>5. ResourceOf(c)' = r
  BY <1>3, CallTyped DEF ResourceOf, Call
<1>6. \A s \in Resources : Exhausted(s)' <=> Exhausted(s)
  BY DEF Exhausted
<1>7. x.pc = "quota" => Exhausted(r) /\ x.timer = rates[r].reset
  BY CallTyped DEF Call
<1>8. x.pc = "interval" => ~Exhausted(r) /\ x.timer = since[r]
  BY CallTyped DEF Call
<1>9. Waits(c)'
  BY <1>3, <1>4, <1>5, <1>6, <1>7, <1>8, CallTyped DEF Waits, Exhausted
<1>10. rates' \in [Resources -> Rate] /\ since' \in [Resources -> Nat]
  BY DEF ClientInv, ClientTypeOK
<1> QED BY <1>1, <1>2, <1>4, <1>9, <1>10, CallerStep

LEMMA RequestBegins ==
    ASSUME ClientInv, NEW c \in Callers, NEW kind \in AllKinds,
           NEW leg \in 0..(MaxPages + 2), NEW cancelled \in BOOLEAN,
           NextRequest(c, kind, leg, cancelled),
           rates' \in [Resources -> Rate], since' \in [Resources -> Nat],
           \/ holder # c /\ UNCHANGED <<holder, rates, since>>
           \/ holder = c /\ holder' = Nobody
    PROVE  ClientInv'
<1> DEFINE pc == IF kind = "activity" THEN "check" ELSE "queued"
           x  == [NoCall EXCEPT !.pc = pc, !.kind = kind, !.leg = leg, !.cancelled = cancelled]
<1>1. call' = [call EXCEPT ![c] = x]
  BY DEF NextRequest
<1>2. pc \in {"check", "queued"}
  OBVIOUS
<1> HIDE DEF pc
<1>4. x \in Call /\ x.pc = pc
  BY <1>2, NoCallTyped DEF Call
<1>5. x.pc \notin Holding
  BY <1>2, <1>4 DEF Holding
<1> QED BY <1>1, <1>4, <1>5, CallerLets

LEMMA CallEnds ==
    ASSUME ClientInv, NEW c \in Callers, EndCall(c),
           rates' \in [Resources -> Rate], since' \in [Resources -> Nat],
           \/ holder # c /\ UNCHANGED <<holder, rates, since>>
           \/ holder = c /\ holder' = Nobody
    PROVE  ClientInv'
<1>1. call' = [call EXCEPT ![c] = NoCall] /\ NoCall.pc \notin Holding
  BY DEF EndCall, NoCall, Holding
<1> QED BY <1>1, NoCallTyped, CallerLets

(* A caller that holds the mutex, asleep or with its request on the way. *)
LEMMA HolderGoes ==
    ASSUME ClientInv, NEW c \in Callers, holder = c, UNCHANGED holder,
           NEW pc \in Holding, NEW timer \in Nat, Go(c, pc, timer),
           rates' \in [Resources -> Rate], since' \in [Resources -> Nat],
           pc # "quota",
           pc = "retry" => call[c].attempt < MaxRetries,
           pc = "interval" => /\ UNCHANGED <<rates, since>>
                              /\ since[ResourceOf(c)] <= timer
                              /\ ~Exhausted(ResourceOf(c))
    PROVE  ClientInv'
<1> DEFINE x == [call[c] EXCEPT !.pc = pc, !.timer = timer]
           r == ResourceOf(c)
<1>1. call' = [call EXCEPT ![c] = x]
  BY DEF Go, ClientInv, ClientTypeOK
<1>2. x \in Call /\ x.pc = pc /\ x.timer = timer /\ x.attempt = call[c].attempt
      /\ x.kind = call[c].kind
  BY CallTyped DEF Call, Holding
<1>3. call'[c] = x
  BY <1>1 DEF ClientInv, ClientTypeOK
<1>4. ResourceOf(c)' = r
  BY <1>2, <1>3 DEF ResourceOf
<1>5. Waits(c)'
  BY <1>2, <1>3, <1>4 DEF Waits, Exhausted
<1> QED BY <1>1, <1>2, <1>5, CallerStep

(***************************************************************************)
(* Every step of the client keeps it.                                      *)
(***************************************************************************)
LEMMA AnswerKeeps ==
    ASSUME ClientInv, NEW c \in Callers, Answer(c)
    PROVE  ClientInv'
<1>1. PICK response \in Responses :
          /\ rates' = [rates EXCEPT ![ResourceOf(c)] = response.rate]
          /\ \/ /\ RetryDelays(response, call[c].attempt) = {}
                /\ holder' = Nobody
                /\ \/ EndCall(c)
                   \/ /\ Continues(call[c], response.status)
                      /\ NextRequest(c, call[c].kind, call[c].leg + 1, call[c].cancelled)
             \/ /\ \E delay \in RetryDelays(response, call[c].attempt) : Go(c, "retry", delay)
                /\ UNCHANGED holder
  BY DEF Answer
<1>2. holder = c
  BY CallTyped DEF Answer, Holding
<1>3. rates' \in [Resources -> Rate]
  BY <1>1, ResponsesTyped DEF Response, ClientInv, ClientTypeOK
<1>4. since' \in [Resources -> Nat]
  BY DEF Answer, ClientInv, ClientTypeOK
<1>5. CASE holder' = Nobody /\ EndCall(c)
  BY <1>2, <1>3, <1>4, <1>5, CallEnds
<1>6. CASE /\ holder' = Nobody /\ Continues(call[c], response.status)
           /\ NextRequest(c, call[c].kind, call[c].leg + 1, call[c].cancelled)
  <2>1. call[c].leg + 1 \in 0..(MaxPages + 2)
    BY <1>6, CallTyped, ClientConstants
       DEF Continues, FollowsRedirect, ReadsReadme, ReadsCommits, ReadsPage
  <2>2. call[c].kind \in AllKinds /\ call[c].cancelled \in BOOLEAN
    BY CallTyped DEF Call
  <2> QED BY <1>2, <1>3, <1>4, <1>6, <2>1, <2>2, RequestBegins
<1>7. CASE /\ \E delay \in RetryDelays(response, call[c].attempt) : Go(c, "retry", delay)
           /\ UNCHANGED holder
  <2>1. PICK delay \in RetryDelays(response, call[c].attempt) : Go(c, "retry", delay)
    BY <1>7
  <2>2. delay \in Nat /\ call[c].attempt < MaxRetries
    BY DelaysTyped, CallTyped
  <2>3. "retry" \in Holding
    BY DEF Holding
  <2> QED BY <1>2, <1>3, <1>4, <1>7, <2>1, <2>2, <2>3, HolderGoes
<1> QED BY <1>1, <1>5, <1>6, <1>7

LEMMA SendKeeps ==
    ASSUME ClientInv, NEW c \in Callers, Send(c)
    PROVE  ClientInv'
<1>1. holder = c
  BY CallTyped DEF Send, Holding
<1>2. IntervalOf(ResourceOf(c)) \in Nat
  BY ClientConstants DEF IntervalOf
<1>3. since' \in [Resources -> Nat] /\ rates' \in [Resources -> Rate]
  BY <1>2 DEF Send, ClientInv, ClientTypeOK
<1>4. CASE GiveUp(c)
  BY <1>1, <1>3, <1>4, CallEnds DEF GiveUp
<1>5. CASE Go(c, "sent", 0) /\ UNCHANGED holder
  <2>1. "sent" \in Holding /\ 0 \in Nat
    BY DEF Holding
  <2> QED BY <1>1, <1>3, <1>5, <2>1, HolderGoes
<1> QED BY <1>4, <1>5 DEF Send

LEMMA QuotaSleptKeeps ==
    ASSUME ClientInv, NEW c \in Callers, QuotaSlept(c)
    PROVE  ClientInv'
<1>1. holder = c
  BY CallTyped DEF QuotaSlept, Holding
<1>2. rates[ResourceOf(c)].reset = 0
  BY CallTyped DEF QuotaSlept, ClientInv, Waits
<1>3. ~Exhausted(ResourceOf(c))
  BY <1>2 DEF Exhausted
<1>4. rates' \in [Resources -> Rate] /\ since' \in [Resources -> Nat]
  BY DEF QuotaSlept, ClientInv, ClientTypeOK
<1>5. "interval" \in Holding /\ since[ResourceOf(c)] \in Nat
  BY CallTyped DEF Holding
<1> QED BY <1>1, <1>3, <1>4, <1>5, HolderGoes DEF QuotaSlept

LEMMA CancelKeeps ==
    ASSUME ClientInv, NEW c \in Callers, CancelCall(c)
    PROVE  ClientInv'
<1> DEFINE x == [call[c] EXCEPT !.cancelled = TRUE]
<1>1. call' = [call EXCEPT ![c] = x]
  BY DEF CancelCall, ClientInv, ClientTypeOK
<1>2. x \in Call /\ x.pc = call[c].pc /\ x.attempt = call[c].attempt
      /\ x.timer = call[c].timer /\ x.kind = call[c].kind
  BY CallTyped DEF Call
<1>3. call'[c] = x
  BY <1>1 DEF ClientInv, ClientTypeOK
<1>4. UNCHANGED <<holder, rates, since>>
  BY DEF CancelCall
<1>5. Waits(c)'
  BY <1>2, <1>3, <1>4 DEF ClientInv, Waits, ResourceOf, Exhausted
<1>6. rates' \in [Resources -> Rate] /\ since' \in [Resources -> Nat]
  BY <1>4 DEF ClientInv, ClientTypeOK
<1>7. x.pc \in Holding <=> holder' = c
  BY <1>2, <1>4, CallTyped
<1> QED BY <1>1, <1>2, <1>4, <1>5, <1>6, <1>7, CallerStep

(* A tick passes for the quotas, the intervals and the sleeps at once. *)
LEMMA LessIsLess ==
    ASSUME NEW n \in Nat
    PROVE  /\ Less(n) \in Nat /\ Less(n) <= n
           /\ \A m \in Nat : n <= m => Less(n) <= Less(m)
BY DEF Less

LEMMA TickKeeps ==
    ASSUME ClientInv, ClientTick
    PROVE  ClientInv'
<1>1. ASSUME NEW r \in Resources
      PROVE  /\ rates[r] \in Rate /\ rates[r].reset \in Nat
             /\ rates'[r].left = rates[r].left /\ rates'[r].reset = Less(rates[r].reset)
             /\ rates'[r] \in Rate
             /\ since[r] \in Nat /\ since'[r] = Less(since[r])
  <2>1. rates[r] \in Rate /\ since[r] \in Nat
    BY DEF ClientInv, ClientTypeOK
  <2>2. rates[r].reset \in 0..MaxWindow
    BY <2>1 DEF Rate
  <2>3. rates'[r] = [rates[r] EXCEPT !.reset = Less(@)] /\ since'[r] = Less(since[r])
    BY DEF ClientTick
  <2>4. Less(rates[r].reset) \in 0..MaxWindow
    BY <2>2, ClientConstants DEF Less
  <2> QED BY <2>1, <2>2, <2>3, <2>4, ClientConstants DEF Rate
<1>2. rates' \in [Resources -> Rate] /\ since' \in [Resources -> Nat]
  BY <1>1, LessIsLess DEF ClientTick
<1>3. ASSUME NEW c \in Callers
      PROVE  /\ call'[c] \in Call /\ call'[c].pc = call[c].pc /\ call'[c].kind = call[c].kind
             /\ call'[c].attempt = call[c].attempt /\ call'[c].timer = Less(call[c].timer)
  <2>1. call'[c] = [call[c] EXCEPT !.timer = Less(@)]
    BY DEF ClientTick
  <2>2. Less(call[c].timer) \in Nat
    BY CallTyped, LessIsLess
  <2> QED BY <2>1, <2>2, CallTyped DEF Call
<1>4. call' \in [Callers -> Call]
  BY <1>3 DEF ClientTick
<1>5. holder' = holder
  BY DEF ClientTick
<1>6. ClientTypeOK'
  BY <1>2, <1>3, <1>4, <1>5 DEF ClientInv, ClientTypeOK
<1>7. ASSUME NEW c \in Callers PROVE Waits(c)'
  <2> DEFINE r == ResourceOf(c)
  <2>1. ResourceOf(c)' = r
    BY <1>3 DEF ResourceOf
  <2>2. r \in Resources /\ call[c].timer \in Nat
    BY CallTyped
  <2> HIDE DEF r
  <2>3. call[c].pc = "quota" => rates'[r].reset <= call'[c].timer
    BY <1>1, <1>3, <2>2, LessIsLess DEF ClientInv, Waits, r
  <2>4. call[c].pc = "interval" => since'[r] <= call'[c].timer /\ ~Exhausted(r)
    BY <1>1, <1>3, <2>2, LessIsLess DEF ClientInv, Waits, r
  <2>5. ~Exhausted(r) => ~(rates'[r].left = "none" /\ rates'[r].reset > 0)
    BY <1>1, <2>2, LessIsLess DEF Exhausted
  <2>6. call[c].pc = "retry" => call[c].attempt < MaxRetries
    BY DEF ClientInv, Waits
  <2> QED BY <1>3, <2>1, <2>3, <2>4, <2>5, <2>6 DEF Waits, Exhausted
<1> QED BY <1>6, <1>7 DEF ClientInv

LEMMA ClientNext_Inv == ClientInv /\ [ClientNext]_clientVars => ClientInv'
<1> SUFFICES ASSUME ClientInv, [ClientNext]_clientVars PROVE ClientInv'
  OBVIOUS
<1>1. rates \in [Resources -> Rate] /\ since \in [Resources -> Nat]
  BY DEF ClientInv, ClientTypeOK
<1>2. ASSUME NEW c \in Callers, NEW kind \in Kinds, BeginCall(c, kind) PROVE ClientInv'
  <2>1. holder # c /\ UNCHANGED <<holder, rates, since>>
    BY <1>2, CallTyped DEF BeginCall, Holding
  <2>2. kind \in AllKinds /\ 1 \in 0..(MaxPages + 2)
    BY ClientConstants
  <2>3. NextRequest(c, kind, 1, FALSE)
    BY <1>2 DEF BeginCall
  <2> QED BY <1>1, <2>1, <2>2, <2>3, RequestBegins
<1>3. ASSUME NEW c \in Callers, Acquire(c) PROVE ClientInv'
  <2>1. 0 \in 0..MaxRetries
    BY ClientConstants
  <2> QED BY <1>3, <2>1, WaitingBegins DEF Acquire
<1>4. ASSUME NEW c \in Callers, CheckHeadroom(c) PROVE ClientInv'
  <2>1. holder # c /\ UNCHANGED <<holder, rates, since>>
    BY <1>4, CallTyped DEF CheckHeadroom, Holding
  <2>2. CASE Go(c, "queued", 0)
    <3> DEFINE x == [call[c] EXCEPT !.pc = "queued", !.timer = 0]
    <3>1. call' = [call EXCEPT ![c] = x]
      BY <2>2 DEF Go, ClientInv, ClientTypeOK
    <3>2. x \in Call /\ x.pc \notin Holding
      BY CallTyped DEF Call, Holding
    <3> QED BY <1>1, <2>1, <3>1, <3>2, CallerLets
  <2>3. CASE EndCall(c)
    BY <1>1, <2>1, <2>3, CallEnds
  <2> QED BY <1>4, <2>2, <2>3 DEF CheckHeadroom
<1>5. ASSUME NEW c \in Callers, NoAnswer(c) PROVE ClientInv'
  <2>1. holder = c
    BY <1>5, CallTyped DEF NoAnswer, Holding
  <2> QED BY <1>1, <1>5, <2>1, CallEnds DEF NoAnswer, GiveUp
<1>6. ASSUME NEW c \in Callers, SleepCancelled(c) PROVE ClientInv'
  <2>1. holder = c
    BY <1>6, CallTyped DEF SleepCancelled, Holding
  <2> QED BY <1>1, <1>6, <2>1, CallEnds DEF SleepCancelled, GiveUp
<1>7. ASSUME NEW c \in Callers, Retry(c) PROVE ClientInv'
  <2>1. holder = c
    BY <1>7, CallTyped DEF Retry, Holding
  <2>2. call[c].attempt < MaxRetries
    BY <1>7 DEF Retry, ClientInv, Waits
  <2>3. call[c].attempt + 1 \in 0..MaxRetries
    BY <2>2, CallTyped, ClientConstants
  <2> QED BY <1>7, <2>1, <2>3, WaitingBegins DEF Retry
<1>8. ASSUME UNCHANGED clientVars PROVE ClientInv'
  BY <1>8 DEF clientVars, ClientInv, ClientTypeOK, Waits, ResourceOf, Exhausted
<1> QED BY <1>2, <1>3, <1>4, <1>5, <1>6, <1>7, <1>8, QuotaSleptKeeps, SendKeeps, AnswerKeeps,
           CancelKeeps, TickKeeps DEF ClientNext, ClientStep

LEMMA ClientInvHolds == ClientInit /\ [][ClientNext]_clientVars => []ClientInv
BY ClientInit_Inv, ClientNext_Inv, PTL

(* Nobody but its holder is past the queue of the client's mutex, and the  *)
(* waits, attempts and legs of a call stay within their bounds (do,        *)
(* waitBeforeRequest and retryDelay of source/github/client.go).           *)
THEOREM ClientTypeCorrect == ClientSpec => []ClientTypeOK
<1>1. ClientInv => ClientTypeOK
  BY DEF ClientInv
<1> QED BY <1>1, ClientInvHolds, PTL DEF ClientSpec

(* No request leaves before the interval after the last one of its         *)
(* resource, nor while the last response says that the quota is used up,   *)
(* whatever the number of callers, of retries and of pages: what the       *)
(* holder of the mutex read before it slept is still true when it sends    *)
(* (Client.do).                                                            *)
THEOREM RequestsAreSpaced == ClientSpec => SpacedRequests
<1>1. ASSUME ClientInv, NEW c \in Callers, Send(c)
      PROVE  since[ResourceOf(c)] = 0 /\ ~Exhausted(ResourceOf(c))
  BY <1>1, CallTyped DEF Send, ClientInv, Waits
<1>2. ClientInv /\ [ClientNext]_clientVars =>
        [\A c \in Callers : Send(c) => since[ResourceOf(c)] = 0 /\ ~Exhausted(ResourceOf(c))]_clientVars
  BY <1>1
<1> QED BY <1>2, ClientInvHolds, PTL DEF ClientSpec, SpacedRequests

(***************************************************************************)
(* The activity cache.                                                     *)
(***************************************************************************)
LEMMA ActivityConstants ==
    /\ Repos \subseteq Nat /\ IsFiniteSet(Repos)
    /\ Limit \in Nat \ {0} /\ PageSize \in Nat \ {0} /\ ActivityPages \in Nat \ {0}
    /\ Window \in Nat \ {0} /\ StaleTicks \in Nat \ {0}
    /\ CallTicks \in Nat /\ MaxPushes \in Nat /\ CallTicks < StaleTicks
    /\ OldAge \in Nat /\ OldAge = Window + CallTicks
BY RepositoryActivityAssumption DEF OldAge

Total(report) == report.success + report.failures + report.skipped

InCall == {"meta", "head", "page", "put"}

(* The commits of the window, and those on the pages before this one. *)
ListedBy(x) == {c.sha : c \in {d \in x.history : InWindow(d, x.age)}}

ReadBy(x) == {sha \in ListedBy(x) :
                 Cardinality(Ahead(sha, ListedBy(x))) < (x.page - 1) * PageSize}

(* What is true of a run under way: its report counts the repositories of  *)
(* its list up to this one, each success left a result in the cache, and   *)
(* what it has seen is what the pages read so far list, each of them full. *)
ReportOf(x) ==
    /\ x.pc \notin {"idle", "done"} =>
          /\ x.index \in 1..(Len(x.plan) + 1)
          /\ x.report.target = Len(x.plan)
          /\ Total(x.report) = x.index - 1
    /\ x.pc \in InCall => x.index <= Len(x.plan)
    /\ x.pc = "done" =>
          /\ x.report.target = Len(x.plan)
          /\ \/ Total(x.report) = Len(x.plan)
             \/ x.failed /\ Total(x.report) = x.index - 1
             \/ x.plan = <<>> /\ x.report.skipped = 1 /\ Total(x.report) = 1

Stored(plan, n, cache) == {i \in 1..n : cache[plan[i]] # NotCached}

Backed(x, cache) ==
    /\ x.pc \notin {"idle", "done"} =>
          x.report.success <= Cardinality(Stored(x.plan, x.index - 1, cache))
    /\ x.pc = "done" => x.report.success <= Cardinality(Stored(x.plan, Len(x.plan), cache))

Grows(from, to) == \A r \in Repos : from[r] # NotCached => to[r] # NotCached

PagesOf(x) ==
    /\ x.pc \in {"next", "meta", "head"} => x.seen = {}
    /\ x.pc = "page" => /\ x.page \in Nat \ {0}
                        /\ x.seen = ReadBy(x)

RunOK(x) == ReportOf(x) /\ PagesOf(x)

ActivityInv ==
    /\ ActivityTypeOK
    /\ \A p \in Runners : RunOK(refresh[p]) /\ Backed(refresh[p], cached)

(* Results come to the cache, and what a run counts of them only grows.    *)
LEMMA StoredGrows ==
    ASSUME NEW plan \in Seq(Repos), NEW m \in Nat, NEW n \in Nat, n <= m, m <= Len(plan),
           NEW from, NEW to, Grows(from, to)
    PROVE  /\ Cardinality(Stored(plan, n, from)) \in Nat
           /\ Cardinality(Stored(plan, m, to)) \in Nat
           /\ IsFiniteSet(Stored(plan, n, from)) /\ IsFiniteSet(Stored(plan, m, to))
           /\ Cardinality(Stored(plan, n, from)) <= Cardinality(Stored(plan, m, to))
<1>1. IsFiniteSet(1..n) /\ IsFiniteSet(1..m)
  BY FS_Interval
<1>2. IsFiniteSet(Stored(plan, n, from)) /\ IsFiniteSet(Stored(plan, m, to))
  BY <1>1, FS_Subset DEF Stored
<1>3. \A i \in 1..n : i \in 1..m /\ plan[i] \in Repos
  OBVIOUS
<1>4. Stored(plan, n, from) \in SUBSET Stored(plan, m, to)
  BY <1>3 DEF Stored, Grows
<1> QED BY <1>2, <1>4, FS_Subset, FS_CardinalityType

LEMMA StoredNext ==
    ASSUME NEW plan \in Seq(Repos), NEW index \in 1..Len(plan),
           NEW from, NEW to, Grows(from, to), to[plan[index]] # NotCached
    PROVE  /\ Cardinality(Stored(plan, index - 1, from)) \in Nat
           /\ Cardinality(Stored(plan, index - 1, from)) + 1 <= Cardinality(Stored(plan, index, to))
<1> DEFINE old == Stored(plan, index - 1, from)
           new == Stored(plan, index, to)
<1>1. index - 1 \in Nat /\ index \in Nat /\ index - 1 <= index /\ index <= Len(plan)
  OBVIOUS
<1>2. Cardinality(old) \in Nat /\ IsFiniteSet(old) /\ IsFiniteSet(new)
  BY <1>1, StoredGrows
<1>3. index \notin old /\ index \in new
  BY DEF Stored
<1>4. \A i \in 1..(index - 1) : i \in 1..index /\ plan[i] \in Repos
  OBVIOUS
<1>5. old \cup {index} \in SUBSET new
  BY <1>3, <1>4 DEF Stored, Grows
<1> HIDE DEF old, new
<1>6. Cardinality(old \cup {index}) = Cardinality(old) + 1
  BY <1>2, <1>3, FS_AddElement
<1>7. Cardinality(old \cup {index}) <= Cardinality(new)
  BY <1>2, <1>5, FS_Subset
<1> QED BY <1>2, <1>6, <1>7 DEF old, new

LEMMA NoRefreshOK ==
    /\ NoReport \in Report /\ NoRefresh \in Refresh /\ RunOK(NoRefresh)
    /\ NoRefresh.pc = "idle" /\ NoRefresh.seen = {} /\ NoRefresh.history = {}
    /\ NoRefresh.report = NoReport /\ \A cache : Backed(NoRefresh, cache)
<1>1. NoReport \in Report
  BY DEF NoReport, Report
<1>2. <<>> \in Seq(Repos) /\ 0 \in 0..CallTicks
  BY ActivityConstants
<1>3. NoRefresh \in Refresh
  BY <1>1, <1>2 DEF NoRefresh, Refresh
<1> QED BY <1>1, <1>3 DEF NoRefresh, RunOK, ReportOf, PagesOf, InCall, Backed

LEMMA BackedStays ==
    ASSUME NEW x \in Refresh, RunOK(x), NEW from, NEW to, Grows(from, to), Backed(x, from)
    PROVE  Backed(x, to)
<1> DEFINE success == x.report.success
           plan == x.plan
           index == x.index
<1>1. plan \in Seq(Repos) /\ success \in Nat /\ index \in Nat /\ Len(plan) \in Nat
  BY DEF Refresh, Report
<1>2. CASE x.pc \notin {"idle", "done"}
  <2>1. index \in 1..(Len(plan) + 1)
    BY <1>2 DEF RunOK, ReportOf
  <2>2. success <= Cardinality(Stored(plan, index - 1, from))
    BY <1>2 DEF Backed
  <2> HIDE DEF success, plan, index
  <2>3. index - 1 \in Nat /\ index - 1 <= Len(plan) /\ index - 1 <= index - 1
    BY <1>1, <2>1
  <2>4. /\ Cardinality(Stored(plan, index - 1, from)) \in Nat
        /\ Cardinality(Stored(plan, index - 1, to)) \in Nat
        /\ Cardinality(Stored(plan, index - 1, from)) <= Cardinality(Stored(plan, index - 1, to))
    BY <1>1, <2>3, StoredGrows
  <2>5. success <= Cardinality(Stored(plan, index - 1, to))
    BY <1>1, <2>2, <2>4
  <2> QED BY <1>2, <2>5 DEF Backed, success, plan, index
<1>3. CASE x.pc = "done"
  <2>1. success <= Cardinality(Stored(plan, Len(plan), from))
    BY <1>3 DEF Backed
  <2> HIDE DEF success, plan, index
  <2>2. /\ Cardinality(Stored(plan, Len(plan), from)) \in Nat
        /\ Cardinality(Stored(plan, Len(plan), to)) \in Nat
        /\ Cardinality(Stored(plan, Len(plan), from)) <= Cardinality(Stored(plan, Len(plan), to))
    BY <1>1, StoredGrows
  <2>3. success <= Cardinality(Stored(plan, Len(plan), to))
    BY <1>1, <2>1, <2>2
  <2> QED BY <1>3, <2>3 DEF Backed, success, plan
<1> QED BY <1>2, <1>3 DEF Backed

(* A step of run p that leaves it in state x. *)
LEMMA RunnerStep ==
    ASSUME ActivityInv, NEW p \in Runners, NEW x \in Refresh, RunOK(x),
           refresh' = [refresh EXCEPT ![p] = x], UNCHANGED <<branch, pushes, monitored, focus>>,
           cached' \in [Repos -> Result \cup {NotCached}],
           Grows(cached, cached'), Backed(x, cached')
    PROVE  ActivityInv'
<1>1. refresh' \in [Runners -> Refresh]
  BY DEF ActivityInv, ActivityTypeOK
<1>2. ActivityTypeOK'
  BY <1>1 DEF ActivityInv, ActivityTypeOK
<1>3. ASSUME NEW q \in Runners PROVE RunOK(refresh'[q]) /\ Backed(refresh'[q], cached')
  <2>1. refresh'[q] = IF q = p THEN x ELSE refresh[q]
    BY DEF ActivityInv, ActivityTypeOK
  <2>2. /\ refresh[q] \in Refresh /\ RunOK(refresh[q]) /\ Backed(refresh[q], cached)
    BY DEF ActivityInv, ActivityTypeOK
  <2>3. Backed(refresh[q], cached')
    BY <2>2, BackedStays
  <2> QED BY <2>1, <2>2, <2>3
<1> QED BY <1>2, <1>3 DEF ActivityInv

LEMMA RunTyped ==
    ASSUME ActivityInv, NEW p \in Runners
    PROVE  /\ refresh[p] \in Refresh /\ RunOK(refresh[p]) /\ Backed(refresh[p], cached)
           /\ cached \in [Repos -> Result \cup {NotCached}]
           /\ refresh[p].report \in Report /\ refresh[p].plan \in Seq(Repos)
           /\ refresh[p].report.success \in Nat
           /\ refresh[p].index \in Nat /\ refresh[p].cancelled \in BOOLEAN
           /\ Len(refresh[p].plan) \in Nat
           /\ refresh[p].pc \in {"idle", "next", "meta", "head", "page", "put", "done"}
           /\ refresh[p].age \in 0..CallTicks /\ refresh[p].seen \in SUBSET (1..MaxPushes)
           /\ refresh[p].history \in SUBSET Commit /\ refresh[p].complete \in BOOLEAN
           /\ refresh[p].page \in Nat
<1>1. refresh[p] \in Refresh
  BY DEF ActivityInv, ActivityTypeOK
<1>2. refresh[p].plan \in Seq(Repos)
  BY <1>1 DEF Refresh
<1>3. Len(refresh[p].plan) \in Nat
  BY <1>2
<1>4. refresh[p].report \in Report /\ refresh[p].report.success \in Nat
  BY <1>1 DEF Refresh, Report
<1> QED BY <1>1, <1>2, <1>3, <1>4 DEF ActivityInv, ActivityTypeOK, Refresh

(***************************************************************************)
(* The list of a run, and the pages of a branch.                           *)
(***************************************************************************)
LEMMA BeforeOrders ==
    ASSUME NEW r \in Repos, NEW s \in Repos, NEW t \in Repos
    PROVE  /\ ~Before(r, r)
           /\ Before(r, s) /\ Before(s, t) => Before(r, t)
           /\ r = s \/ Before(r, s) \/ Before(s, r)
<1> DEFINE rank(x) == (IF x \in focus THEN 2 ELSE 0) + (IF cached[x] = NotCached THEN 1 ELSE 0)
<1>1. \A x, y : Before(x, y) <=> (rank(x) > rank(y) \/ (rank(x) = rank(y) /\ x > y))
  BY DEF Before
<1>2. \A x : rank(x) \in Nat
  OBVIOUS
<1>3. r \in Nat /\ s \in Nat /\ t \in Nat
  BY ActivityConstants
<1> HIDE DEF rank
<1> QED BY <1>1, <1>2, <1>3

LEMMA SmallerOf ==
    ASSUME NEW a \in Nat, NEW b \in Nat
    PROVE  Min({a, b}) \in Nat /\ Min({a, b}) <= a /\ Min({a, b}) <= b
<1>1. {a, b} \in SUBSET Nat /\ {a, b} # {}
  OBVIOUS
<1>2. Min({a, b}) \in {a, b} /\ \A y \in {a, b} : Min({a, b}) <= y
  BY <1>1, MinIsLeast
<1> QED BY <1>2

(* A run's list is a sequence of registered repositories. *)
LEMMA CandidatesTyped ==
    ASSUME NEW among \in Cohorts, NEW force \in BOOLEAN, monitored \subseteq Repos
    PROVE  ActivityCandidates(among, force) \in Seq(Repos)
<1> DEFINE stale    == {r \in among \cap monitored : Stale(r, force)}
           Place(r) == Cardinality({s \in stale : Before(s, r)}) + 1
           size     == Min({Limit, Cardinality(stale)})
           R        == {w \in stale \X stale : Before(w[1], w[2])}
<1>1. stale \in SUBSET Repos /\ IsFiniteSet(stale)
  BY ActivityConstants, FS_Subset
<1>2. Orders(R, stale)
  BY <1>1, BeforeOrders DEF Orders
<1>5. \A x \in stale : Under(x, stale, R) = {s \in stale : Before(s, x)}
  BY DEF Under
<1>6. /\ Cardinality(stale) \in Nat
      /\ \A i \in 0..(Cardinality(stale) - 1) : \E x \in stale : Cardinality(Under(x, stale, R)) = i
  <2> HIDE DEF stale, R
  <2> QED BY <1>1, <1>2, PlacesAreTaken
<1>7. \A i \in 0..(Cardinality(stale) - 1) :
         \E x \in stale : Cardinality({s \in stale : Before(s, x)}) = i
  BY <1>5, <1>6
<1>8. size \in Nat /\ size <= Cardinality(stale)
  <2> HIDE DEF stale
  <2> QED BY <1>6, ActivityConstants, SmallerOf
<1>9. ASSUME NEW i \in 1..size PROVE (CHOOSE r \in stale : Place(r) = i) \in Repos
  <2>1. i - 1 \in 0..(Cardinality(stale) - 1) /\ i \in Nat
    <3> HIDE DEF stale, size
    <3> QED BY <1>8, <1>6
  <2>2. PICK x \in stale : Cardinality({s \in stale : Before(s, x)}) = i - 1
    BY <2>1, <1>7
  <2>3. Place(x) = i
    BY <2>1, <2>2
  <2> HIDE DEF stale, Place, size
  <2> QED BY <2>3, <1>1
<1>10. ActivityCandidates(among, force) = [i \in 1..size |-> CHOOSE r \in stale : Place(r) = i]
  BY DEF ActivityCandidates
<1> HIDE DEF stale, Place, size
<1>11. [i \in 1..size |-> CHOOSE r \in stale : Place(r) = i] \in [1..size -> Repos]
  BY <1>9
<1> QED BY <1>8, <1>10, <1>11

LEMMA NewestFirst ==
    ASSUME NEW list, list \in SUBSET (1..MaxPushes)
    PROVE  /\ Cardinality(list) \in Nat /\ IsFiniteSet(list)
           /\ \A s \in list : Cardinality(Ahead(s, list)) \in 0..(Cardinality(list) - 1)
           /\ \A i \in 0..(Cardinality(list) - 1) :
                 \E s \in list : Cardinality(Ahead(s, list)) = i
<1> DEFINE R == {w \in list \X list : w[1] > w[2]}
<1>1. IsFiniteSet(list)
  <2>1. IsFiniteSet(1..MaxPushes)
    BY ActivityConstants, FS_Interval
  <2> QED BY <2>1, FS_Subset
<1>2. \A x \in list : x \in Int
  BY ActivityConstants
<1>3. Orders(R, list)
  BY <1>2 DEF Orders
<1>4. \A x \in list : Under(x, list, R) = Ahead(x, list)
  BY DEF Ahead, Under
<1>5. /\ Cardinality(list) \in Nat
      /\ \A x \in list : Cardinality(Under(x, list, R)) \in 0..(Cardinality(list) - 1)
      /\ \A i \in 0..(Cardinality(list) - 1) : \E x \in list : Cardinality(Under(x, list, R)) = i
  <2> HIDE DEF R
  <2>1. Cardinality(list) \in Nat
    BY <1>1, <1>3, PlacesAreTaken
  <2>2. \A x \in list : Cardinality(Under(x, list, R)) \in 0..(Cardinality(list) - 1)
    BY <1>1, <1>3, PlacesAreTaken
  <2>3. ASSUME NEW i \in 0..(Cardinality(list) - 1)
        PROVE  \E x \in list : Cardinality(Under(x, list, R)) = i
    <3>1. ASSUME NEW S, IsFiniteSet(S), NEW Q, Orders(Q, S), NEW k \in 0..(Cardinality(S) - 1)
          PROVE  \E x \in S : Cardinality(Under(x, S, Q)) = k
      BY <3>1, PlacesAreTaken
    <3> QED BY <1>1, <1>3, <3>1
  <2> QED BY <2>1, <2>2, <2>3
<1> QED BY <1>1, <1>4, <1>5

(***************************************************************************)
(* Every step of a run keeps it.                                           *)
(***************************************************************************)
LEMMA ReportCounts ==
    ASSUME NEW report \in Report, NEW k \in Nat
    PROVE  /\ Total(report) \in Nat /\ report.target \in Nat
           /\ LET next == [report EXCEPT !.success = @ + 1]
              IN  next \in Report /\ next.target = report.target /\ Total(next) = Total(report) + 1
                  /\ next.success = report.success + 1
           /\ LET next == [report EXCEPT !.failures = @ + 1]
              IN  next \in Report /\ next.target = report.target /\ Total(next) = Total(report) + 1
                  /\ next.success = report.success
           /\ LET next == [report EXCEPT !.skipped = @ + k]
              IN  next \in Report /\ next.target = report.target /\ Total(next) = Total(report) + k
                  /\ next.success = report.success
<1>1. /\ report.target \in Nat /\ report.success \in Nat
      /\ report.failures \in Nat /\ report.skipped \in Nat
  BY DEF Report
<1>2. Total(report) \in Nat
  BY <1>1 DEF Total
<1>3. LET next == [report EXCEPT !.success = @ + 1]
      IN  next \in Report /\ next.target = report.target /\ Total(next) = Total(report) + 1
          /\ next.success = report.success + 1
  BY <1>1 DEF Report, Total
<1>4. LET next == [report EXCEPT !.failures = @ + 1]
      IN  next \in Report /\ next.target = report.target /\ Total(next) = Total(report) + 1
          /\ next.success = report.success
  BY <1>1 DEF Report, Total
<1>5. LET next == [report EXCEPT !.skipped = @ + k]
      IN  next \in Report /\ next.target = report.target /\ Total(next) = Total(report) + k
          /\ next.success = report.success
  BY <1>1 DEF Report, Total
<1> QED BY <1>1, <1>2, <1>3, <1>4, <1>5

LEMMA CachedStays ==
    ASSUME ActivityInv, UNCHANGED <<branch, pushes, monitored, focus, cached>>
    PROVE  /\ UNCHANGED <<branch, pushes, monitored, focus>>
           /\ cached' \in [Repos -> Result \cup {NotCached}]
           /\ cached' = cached /\ Grows(cached, cached')
BY DEF ActivityInv, ActivityTypeOK, Grows

(* A run is done, with a report that counts its whole list, or what came   *)
(* before the error that ended it.                                         *)
LEMMA RunEnds ==
    ASSUME ActivityInv, NEW p \in Runners, NEW report \in Report, NEW failed \in BOOLEAN,
           refresh[p].pc \notin {"idle", "done"},
           report.target = refresh[p].report.target,
           report.success = refresh[p].report.success,
           \/ Total(report) = Len(refresh[p].plan)
           \/ failed /\ Total(report) = refresh[p].index - 1,
           End(p, report, failed),
           UNCHANGED <<branch, pushes, monitored, focus, cached>>
    PROVE  ActivityInv'
<1> DEFINE plan  == refresh[p].plan
           index == refresh[p].index
           x == [NoRefresh EXCEPT !.pc = "done", !.plan = plan, !.index = index,
                                  !.report = report, !.failed = failed]
<1>1. refresh' = [refresh EXCEPT ![p] = x]
  BY DEF End
<1>2. /\ plan \in Seq(Repos) /\ index \in 1..(Len(plan) + 1) /\ Len(plan) \in Nat /\ index \in Nat
      /\ report.target = Len(plan)
  BY RunTyped DEF RunOK, ReportOf
<1>3. /\ report.success \in Nat
      /\ report.success <= Cardinality(Stored(plan, index - 1, cached))
  BY RunTyped DEF Backed
<1>4. Total(report) = Len(plan) \/ (failed /\ Total(report) = index - 1)
  OBVIOUS
<1> HIDE DEF plan, index
<1>5. /\ x \in Refresh /\ x.pc = "done" /\ x.report = report /\ x.plan = plan
      /\ x.index = index /\ x.failed = failed
  BY <1>2, NoRefreshOK DEF Refresh
<1> HIDE DEF x
<1>6. RunOK(x)
  BY <1>2, <1>4, <1>5 DEF RunOK, ReportOf, PagesOf, InCall
<1>7. Grows(cached, cached)
  BY DEF Grows
<1>8. index - 1 \in Nat /\ index - 1 <= Len(plan) /\ Len(plan) <= Len(plan)
  BY <1>2
<1>9. /\ Cardinality(Stored(plan, index - 1, cached)) \in Nat
      /\ Cardinality(Stored(plan, Len(plan), cached)) \in Nat
      /\ Cardinality(Stored(plan, index - 1, cached)) <= Cardinality(Stored(plan, Len(plan), cached))
  BY <1>2, <1>7, <1>8, StoredGrows
<1>10. report.success <= Cardinality(Stored(plan, Len(plan), cached))
  BY <1>3, <1>9
<1>11. Backed(x, cached)
  BY <1>5, <1>10 DEF Backed
<1> QED BY <1>1, <1>5, <1>6, <1>11, RunnerStep, CachedStays

LEMMA RunGoesOn ==
    ASSUME ActivityInv, NEW p \in Runners, NEW report \in Report, Advance(p, report),
           refresh[p].pc \in InCall,
           report.target = refresh[p].report.target,
           Total(report) = Total(refresh[p].report) + 1,
           UNCHANGED <<branch, pushes, monitored, focus>>,
           cached' \in [Repos -> Result \cup {NotCached}], Grows(cached, cached'),
           report.success <= Cardinality(Stored(refresh[p].plan, refresh[p].index, cached'))
    PROVE  ActivityInv'
<1> DEFINE plan  == refresh[p].plan
           index == refresh[p].index
           cancelled == refresh[p].cancelled
           x == [NoRefresh EXCEPT !.pc = "next", !.plan = plan, !.index = index + 1,
                                  !.cancelled = cancelled, !.report = report]
<1>1. refresh' = [refresh EXCEPT ![p] = x]
  BY DEF Advance
<1>2. /\ x \in Refresh /\ x.pc = "next" /\ x.report = report /\ x.plan = plan
      /\ x.index = index + 1 /\ x.seen = {}
  <2>1. plan \in Seq(Repos) /\ index + 1 \in Nat /\ cancelled \in BOOLEAN
    BY RunTyped
  <2> HIDE DEF plan, index, cancelled
  <2> QED BY <2>1, NoRefreshOK DEF Refresh
<1>3. /\ index \in 1..Len(plan) /\ Len(plan) \in Nat
      /\ refresh[p].report.target = Len(plan) /\ Total(refresh[p].report) = index - 1
  BY RunTyped DEF RunOK, ReportOf, InCall
<1>8. report.success <= Cardinality(Stored(plan, index, cached'))
  OBVIOUS
<1> HIDE DEF x, plan, index, cancelled
<1>5. report.target = Len(plan) /\ Total(report) = (index + 1) - 1
  BY <1>3
<1>6. index + 1 \in 1..(Len(plan) + 1) /\ (index + 1) - 1 = index
  BY <1>3
<1>7. RunOK(x)
  BY <1>2, <1>5, <1>6 DEF RunOK, ReportOf, PagesOf, InCall
<1>9. Backed(x, cached')
  BY <1>2, <1>6, <1>8 DEF Backed
<1> QED BY <1>1, <1>2, <1>7, <1>9, RunnerStep

LEMMA NothingStored ==
    ASSUME NEW plan \in Seq(Repos), NEW n \in Nat, n <= Len(plan), NEW cache
    PROVE  0 <= Cardinality(Stored(plan, n, cache))
<1>1. Grows(cache, cache)
  BY DEF Grows
<1>2. Cardinality(Stored(plan, n, cache)) \in Nat
  BY <1>1, StoredGrows
<1> QED BY <1>2

LEMMA BeginKeeps ==
    ASSUME ActivityInv, NEW p \in Runners, NEW plan \in Seq(Repos), Begin(p, plan),
           UNCHANGED <<branch, pushes, monitored, focus, cached>>
    PROVE  ActivityInv'
<1> DEFINE pc == IF plan = <<>> THEN "done" ELSE "next"
           x  == [NoRefresh EXCEPT !.pc = pc, !.plan = plan, !.index = 1,
                                   !.report.target = Len(plan)]
<1>1. refresh' = [refresh EXCEPT ![p] = x]
  BY DEF Begin
<1>2. Len(plan) \in Nat /\ (pc = "next" \/ (pc = "done" /\ Len(plan) = 0))
  OBVIOUS
<1> HIDE DEF pc
<1>3. x \in Refresh /\ x.pc = pc /\ x.plan = plan /\ x.index = 1 /\ x.seen = {}
  BY <1>2, NoRefreshOK DEF Refresh, Report
<1>4. x.report.target = Len(plan) /\ Total(x.report) = 0 /\ x.report.success = 0
  BY NoRefreshOK DEF NoReport, Total, Refresh, Report
<1> HIDE DEF x
<1>5. RunOK(x)
  BY <1>2, <1>3, <1>4 DEF RunOK, ReportOf, PagesOf, InCall
<1>6. 0 <= Cardinality(Stored(plan, Len(plan), cached)) /\ 0 <= Cardinality(Stored(plan, 0, cached))
  BY <1>2, NothingStored
<1>7. Backed(x, cached)
  BY <1>3, <1>4, <1>6 DEF Backed
<1> QED BY <1>1, <1>3, <1>5, <1>7, RunnerStep, CachedStays

LEMMA EndedAtOnceKeeps ==
    ASSUME ActivityInv, NEW p \in Runners, NEW plan \in Seq(Repos), NEW report \in Report,
           NEW failed \in BOOLEAN, EndedAtOnce(p, plan, report, failed),
           report.target = Len(plan), report.success = 0,
           \/ failed /\ Total(report) = 0
           \/ plan = <<>> /\ report.skipped = 1 /\ Total(report) = 1,
           UNCHANGED <<branch, pushes, monitored, focus, cached>>
    PROVE  ActivityInv'
<1> DEFINE x == [NoRefresh EXCEPT !.pc = "done", !.plan = plan, !.index = 1,
                                  !.report = report, !.failed = failed]
<1>1. refresh' = [refresh EXCEPT ![p] = x]
  BY DEF EndedAtOnce
<1>2. /\ x \in Refresh /\ x.pc = "done" /\ x.plan = plan /\ x.index = 1
      /\ x.report = report /\ x.failed = failed
  BY NoRefreshOK DEF Refresh
<1> HIDE DEF x
<1>3. RunOK(x)
  BY <1>2 DEF RunOK, ReportOf, PagesOf, InCall
<1>4. Len(plan) \in Nat
  OBVIOUS
<1>5. Backed(x, cached)
  BY <1>2, <1>4, NothingStored DEF Backed
<1> QED BY <1>1, <1>2, <1>3, <1>5, RunnerStep, CachedStays

LEMMA StartKeeps ==
    ASSUME ActivityInv, NEW p \in Runners, NEW among \in Cohorts, NEW force \in BOOLEAN,
           StartRefresh(p, among, force) \/ StartFails(p, among, force)
    PROVE  ActivityInv'
<1> DEFINE plan == ActivityCandidates(among, force)
<1>1. plan \in Seq(Repos) /\ <<>> \in Seq(Repos) /\ Len(plan) \in Nat /\ Len(<<>>) = 0
  BY CandidatesTyped DEF ActivityInv, ActivityTypeOK
<1>2. NoReport \in Report /\ NoReport.success = 0 /\ NoReport.target = 0 /\ Total(NoReport) = 0
  BY DEF NoReport, Report, Total
<1>3. UNCHANGED <<branch, pushes, monitored, focus, cached>>
  BY DEF StartRefresh, StartFails
<1>4. CASE StartRefresh(p, among, force)
  BY <1>1, <1>3, <1>4, BeginKeeps DEF StartRefresh
<1>5. CASE EndedAtOnce(p, <<>>, NoReport, TRUE)
  BY <1>1, <1>2, <1>3, <1>5, EndedAtOnceKeeps
<1>6. CASE EndedAtOnce(p, plan, [NoReport EXCEPT !.target = Len(plan)], TRUE)
  <2> DEFINE report == [NoReport EXCEPT !.target = Len(plan)]
  <2> HIDE DEF plan
  <2>1. /\ report \in Report /\ report.target = Len(plan) /\ report.success = 0
        /\ Total(report) = 0
    BY <1>1 DEF NoReport, Report, Total
  <2> HIDE DEF report
  <2> QED BY <1>1, <1>3, <1>6, <2>1, EndedAtOnceKeeps DEF report
<1> QED BY <1>4, <1>5, <1>6 DEF StartFails

LEMMA SingleKeeps ==
    ASSUME ActivityInv, NEW p \in Runners, NEW r \in Repos, NEW force \in BOOLEAN,
           StartSingle(p, r, force)
    PROVE  ActivityInv'
<1>1. <<>> \in Seq(Repos) /\ <<r>> \in Seq(Repos) /\ Len(<<>>) = 0
  OBVIOUS
<1>2. NoReport \in Report /\ NoReport.success = 0 /\ NoReport.target = 0 /\ Total(NoReport) = 0
  BY DEF NoReport, Report, Total
<1>3. UNCHANGED <<branch, pushes, monitored, focus, cached>>
  BY DEF StartSingle
<1>4. CASE EndedAtOnce(p, <<>>, NoReport, TRUE)
  BY <1>1, <1>2, <1>3, <1>4, EndedAtOnceKeeps
<1>5. CASE EndedAtOnce(p, <<>>, [NoReport EXCEPT !.skipped = 1], FALSE)
  <2> DEFINE report == [NoReport EXCEPT !.skipped = 1]
  <2>1. /\ report \in Report /\ report.target = 0 /\ report.success = 0 /\ report.skipped = 1
        /\ Total(report) = 1
    BY DEF NoReport, Report, Total
  <2> HIDE DEF report
  <2> QED BY <1>1, <1>3, <1>5, <2>1, EndedAtOnceKeeps DEF report
<1>6. CASE Begin(p, <<r>>)
  BY <1>1, <1>3, <1>6, BeginKeeps
<1> QED BY <1>4, <1>5, <1>6 DEF StartSingle

(* A step that only moves a run's counter, or cancels it. *)
LEMMA RunMoves ==
    ASSUME ActivityInv, NEW p \in Runners, NEW x \in Refresh,
           refresh' = [refresh EXCEPT ![p] = x],
           x.plan = refresh[p].plan, x.index = refresh[p].index, x.report = refresh[p].report,
           x.pc # "idle", refresh[p].pc \notin {"idle", "done"}, x.pc # "done",
           x.pc \in InCall => refresh[p].index <= Len(refresh[p].plan),
           PagesOf(x),
           UNCHANGED <<branch, pushes, monitored, focus, cached>>
    PROVE  ActivityInv'
<1>1. ReportOf(refresh[p])
  BY RunTyped DEF RunOK
<1>2. RunOK(x)
  BY <1>1 DEF RunOK, ReportOf
<1>3. Backed(x, cached)
  BY RunTyped DEF Backed
<1> QED BY <1>2, <1>3, RunnerStep, CachedStays

LEMMA NextKeeps ==
    ASSUME ActivityInv, NEW p \in Runners, NextRepository(p)
    PROVE  ActivityInv'
<1> DEFINE x == refresh[p]
<1>1. /\ x.pc = "next" /\ UNCHANGED <<branch, pushes, monitored, focus, cached>>
      /\ x.report \in Report /\ Left(p) = Len(x.plan) - x.index + 1
  BY RunTyped DEF NextRepository, Left
<1>2. /\ x.report.target = Len(x.plan) /\ Total(x.report) = x.index - 1
      /\ x.index \in 1..(Len(x.plan) + 1) /\ Len(x.plan) \in Nat
  BY <1>1, RunTyped DEF RunOK, ReportOf
<1>3. Left(p) \in Nat /\ (Left(p) > 0 => x.index <= Len(x.plan))
  BY <1>1, <1>2
<1>4. CASE Left(p) = 0 /\ End(p, x.report, FALSE)
  <2>1. Total(x.report) = Len(x.plan)
    BY <1>1, <1>2, <1>4
  <2> QED BY <1>1, <1>4, <2>1, RunEnds
<1>5. CASE End(p, [x.report EXCEPT !.skipped = @ + Left(p)], FALSE)
  <2> DEFINE report == [x.report EXCEPT !.skipped = @ + Left(p)]
  <2>1. /\ report \in Report /\ report.target = x.report.target
        /\ report.success = x.report.success
        /\ Total(report) = Total(x.report) + Left(p)
    BY <1>1, <1>3, ReportCounts
  <2> HIDE DEF report
  <2>2. End(p, report, FALSE)
    BY <1>5 DEF report
  <2>3. Total(report) = Len(x.plan)
    BY <1>1, <1>2, <2>1
  <2> QED BY <1>1, <2>1, <2>2, <2>3, RunEnds
<1>6. CASE Left(p) > 0 /\ refresh' = [refresh EXCEPT ![p].pc = "meta"]
  <2> DEFINE y == [x EXCEPT !.pc = "meta"]
  <2>1. y \in Refresh /\ y.plan = x.plan /\ y.index = x.index /\ y.report = x.report
        /\ y.pc = "meta" /\ y.seen = x.seen
    BY RunTyped DEF Refresh
  <2>2. PagesOf(y)
    BY <1>1, <2>1, RunTyped DEF RunOK, PagesOf
  <2>3. refresh' = [refresh EXCEPT ![p] = y]
    BY <1>6 DEF ActivityInv, ActivityTypeOK
  <2> HIDE DEF y
  <2> QED BY <1>1, <1>3, <1>6, <2>1, <2>2, <2>3, RunMoves
<1> QED BY <1>4, <1>5, <1>6 DEF NextRepository

LEMMA FailKeeps ==
    ASSUME ActivityInv, NEW p \in Runners, FetchFails(p)
    PROVE  ActivityInv'
<1> DEFINE x      == refresh[p]
           failed == [x.report EXCEPT !.failures = @ + 1]
           last   == [failed EXCEPT !.skipped = @ + Left(p) - 1]
<1>1. x.pc \in InCall /\ UNCHANGED <<branch, pushes, monitored, focus, cached>>
  BY DEF FetchFails, InCall
<1>2. /\ failed \in Report /\ failed.target = x.report.target
      /\ failed.success = x.report.success /\ Total(failed) = Total(x.report) + 1
  BY RunTyped, ReportCounts
<1>3. /\ Total(x.report) = x.index - 1 /\ x.index \in 1..Len(x.plan) /\ Len(x.plan) \in Nat
      /\ Left(p) = Len(x.plan) - x.index + 1
  BY <1>1, RunTyped DEF RunOK, ReportOf, InCall, Left
<1>7. Left(p) - 1 \in Nat
  BY <1>3
<1> HIDE DEF failed
<1>4. /\ last \in Report /\ last.target = failed.target /\ last.success = failed.success
      /\ Total(last) = Total(failed) + (Left(p) - 1)
  BY <1>2, <1>7 DEF Report, Total
<1>5. CASE Advance(p, failed)
  <2>1. x.report.success <= Cardinality(Stored(x.plan, x.index, cached))
    <3> DEFINE plan  == x.plan
               index == x.index
    <3>1. plan \in Seq(Repos) /\ index - 1 \in Nat /\ index \in Nat
          /\ index - 1 <= index /\ index <= Len(plan) /\ x.report.success \in Nat
      BY <1>3, RunTyped
    <3>2. x.report.success <= Cardinality(Stored(plan, index - 1, cached))
      BY <1>1, RunTyped DEF Backed, InCall
    <3> HIDE DEF plan, index
    <3>3. Grows(cached, cached)
      BY DEF Grows
    <3>4. /\ Cardinality(Stored(plan, index - 1, cached)) \in Nat
          /\ Cardinality(Stored(plan, index, cached)) \in Nat
          /\ Cardinality(Stored(plan, index - 1, cached)) <= Cardinality(Stored(plan, index, cached))
      BY <3>1, <3>3, StoredGrows
    <3>5. x.report.success <= Cardinality(Stored(plan, index, cached))
      BY <3>1, <3>2, <3>4
    <3> QED BY <3>5 DEF plan, index
  <2>2. /\ failed.success <= Cardinality(Stored(x.plan, x.index, cached'))
        /\ Grows(cached, cached') /\ UNCHANGED <<branch, pushes, monitored, focus>>
        /\ cached' \in [Repos -> Result \cup {NotCached}]
    BY <1>1, <1>2, <2>1, CachedStays
  <2> QED BY <1>1, <1>2, <1>5, <2>2, RunGoesOn
<1>6. CASE End(p, last, FALSE)
  <2> HIDE DEF last, x
  <2>1. Total(last) = Len(x.plan) /\ last.target = x.report.target /\ last.success = x.report.success
    BY <1>2, <1>3, <1>4
  <2>2. x.pc \notin {"idle", "done"}
    BY <1>1 DEF InCall
  <2> QED BY <1>1, <1>4, <1>6, <2>1, <2>2, RunEnds DEF x
<1> QED BY <1>5, <1>6 DEF FetchFails, failed

LEMMA StoreKeeps ==
    ASSUME ActivityInv, NEW p \in Runners, StoreResult(p)
    PROVE  ActivityInv'
<1> DEFINE x == refresh[p]
           r == Current(p)
           report == [x.report EXCEPT !.success = @ + 1]
           row == [age |-> x.age, commits |-> Cardinality(x.seen), complete |-> x.complete]
<1>1. x.pc \in InCall /\ Advance(p, report) /\ UNCHANGED <<branch, pushes, monitored, focus>>
  BY DEF StoreResult, InCall
<1>2. /\ report \in Report /\ report.target = x.report.target
      /\ report.success = x.report.success + 1 /\ Total(report) = Total(x.report) + 1
  BY RunTyped, ReportCounts
<1>3. x.index \in 1..Len(x.plan)
  BY <1>1, RunTyped DEF RunOK, ReportOf, InCall
<1>4. r \in Repos
  BY <1>3, RunTyped DEF Current
<1>5. row \in Result
  <2>1. Cardinality(x.seen) \in Nat
    BY RunTyped, NewestFirst
  <2>2. x.age \in 0..StaleTicks
    BY RunTyped, ActivityConstants
  <2> QED BY <2>1, <2>2, RunTyped DEF Result
<1>6. cached' = cached \/ cached' = [cached EXCEPT ![r] = row]
  BY DEF StoreResult
<1>7. cached' \in [Repos -> Result \cup {NotCached}]
  <2> HIDE DEF row, r
  <2> QED BY <1>4, <1>5, <1>6, RunTyped
<1>8. row # NotCached
  <2>1. row.age # -1
    BY RunTyped, ActivityConstants
  <2> QED BY <2>1 DEF NotCached
<1>9. Grows(cached, cached') /\ cached'[r] # NotCached
  <2> HIDE DEF row, r, x
  <2>1. cached \in [Repos -> Result \cup {NotCached}]
    BY RunTyped
  <2>2. CASE IsNewer(x, r)
    <3>1. cached' = [cached EXCEPT ![r] = row]
      BY <2>2 DEF StoreResult, x, r, row
    <3> QED BY <1>4, <1>8, <2>1, <3>1 DEF Grows
  <2>3. CASE ~IsNewer(x, r)
    <3>1. cached' = cached /\ cached[r] # NotCached
      BY <2>3 DEF StoreResult, IsNewer, x, r
    <3> QED BY <3>1 DEF Grows
  <2> QED BY <2>2, <2>3
<1>10. report.success <= Cardinality(Stored(x.plan, x.index, cached'))
  <2> DEFINE plan  == x.plan
             index == x.index
             known == Cardinality(Stored(plan, index - 1, cached))
  <2>1. plan \in Seq(Repos) /\ index \in 1..Len(plan) /\ r = plan[index]
    BY <1>3, RunTyped DEF Current
  <2>2. x.report.success <= known /\ x.report.success \in Nat
    BY <1>1, RunTyped DEF Backed, InCall
  <2> HIDE DEF plan, index, r
  <2>3. known \in Nat /\ known + 1 <= Cardinality(Stored(plan, index, cached'))
    BY <1>9, <2>1, StoredNext
  <2>4. Cardinality(Stored(plan, index, cached')) \in Nat
    <3>1. index \in Nat /\ index <= index /\ index <= Len(plan) /\ Grows(cached', cached')
      BY <2>1 DEF Grows
    <3> QED BY <2>1, <3>1, StoredGrows
  <2> HIDE DEF known
  <2>5. x.report.success + 1 <= Cardinality(Stored(plan, index, cached'))
    BY <2>2, <2>3, <2>4
  <2> QED BY <1>2, <2>5 DEF plan, index
<1> HIDE DEF report
<1> QED BY <1>1, <1>2, <1>7, <1>9, <1>10, RunGoesOn

LEMMA StoreFailsKeeps ==
    ASSUME ActivityInv, NEW p \in Runners, StoreFails(p)
    PROVE  ActivityInv'
<1>1. /\ refresh[p].pc \notin {"idle", "done"} /\ End(p, refresh[p].report, TRUE)
      /\ UNCHANGED <<branch, pushes, monitored, focus, cached>>
  BY DEF StoreFails
<1>2. refresh[p].report \in Report /\ Total(refresh[p].report) = refresh[p].index - 1
  BY <1>1, RunTyped DEF RunOK, ReportOf
<1> QED BY <1>1, <1>2, RunEnds

LEMMA ReadRepositoryKeeps ==
    ASSUME ActivityInv, NEW p \in Runners, ReadRepository(p)
    PROVE  ActivityInv'
<1> DEFINE x == refresh[p]
           y == [x EXCEPT !.pc = "head"]
<1>1. x.pc = "meta" /\ UNCHANGED <<branch, pushes, monitored, focus, cached>>
  BY DEF ReadRepository, Answers
<1>2. refresh' = [refresh EXCEPT ![p] = y]
  BY DEF ReadRepository, ActivityInv, ActivityTypeOK
<1>3. y \in Refresh /\ y.plan = x.plan /\ y.index = x.index /\ y.report = x.report
      /\ y.pc = "head" /\ y.seen = x.seen
  BY RunTyped DEF Refresh
<1>4. PagesOf(y) /\ x.index <= Len(x.plan)
  BY <1>1, <1>3, RunTyped DEF RunOK, PagesOf, ReportOf, InCall
<1> HIDE DEF y
<1> QED BY <1>1, <1>2, <1>3, <1>4, RunMoves

LEMMA ReadHeadKeeps ==
    ASSUME ActivityInv, NEW p \in Runners, ReadHead(p)
    PROVE  ActivityInv'
<1> DEFINE x == refresh[p]
           r == Current(p)
<1>1. x.pc = "head" /\ UNCHANGED <<branch, pushes, monitored, focus, cached>>
  BY DEF ReadHead, Answers
<1>2. x.seen = {} /\ x.index \in 1..Len(x.plan) /\ x.index <= Len(x.plan)
  BY <1>1, RunTyped DEF RunOK, PagesOf, ReportOf, InCall
<1>3. r \in Repos
  BY <1>2, RunTyped DEF Current
<1>4. branch[r] \in SUBSET Commit
  BY <1>3 DEF ActivityInv, ActivityTypeOK
<1>5. CASE refresh' = [refresh EXCEPT ![p] = [@ EXCEPT !.pc = "put", !.complete = TRUE, !.age = 0]]
  <2> DEFINE y == [x EXCEPT !.pc = "put", !.complete = TRUE, !.age = 0]
  <2>1. 0 \in 0..CallTicks
    BY ActivityConstants
  <2>2. y \in Refresh /\ y.plan = x.plan /\ y.index = x.index /\ y.report = x.report
        /\ y.pc = "put"
    BY <2>1, RunTyped DEF Refresh
  <2>3. refresh' = [refresh EXCEPT ![p] = y]
    BY <1>5
  <2> HIDE DEF y
  <2>4. PagesOf(y)
    BY <2>2 DEF PagesOf
  <2> QED BY <1>1, <1>2, <2>2, <2>3, <2>4, RunMoves
<1>6. ASSUME NEW head \in Heads(r, x.age),
             refresh' = [refresh EXCEPT ![p] = [@ EXCEPT
                        !.pc = "page", !.page = 1, !.history = LedToBy(head, branch[r])]]
      PROVE  ActivityInv'
  <2> DEFINE history == LedToBy(head, branch[r])
             y == [x EXCEPT !.pc = "page", !.page = 1, !.history = history]
  <2>1. history \in SUBSET Commit
    BY <1>4 DEF LedToBy
  <2>2. refresh' = [refresh EXCEPT ![p] = y]
    BY <1>6
  <2> HIDE DEF history
  <2>3. y \in Refresh /\ y.plan = x.plan /\ y.index = x.index /\ y.report = x.report
        /\ y.pc = "page" /\ y.page = 1 /\ y.seen = x.seen /\ y.history = history /\ y.age = x.age
    BY <2>1, RunTyped DEF Refresh
  <2> HIDE DEF y
  <2>4. ReadBy(y) = {}
    <3>1. ListedBy(y) \in SUBSET (1..MaxPushes)
      BY <2>1, <2>3 DEF ListedBy, Commit
    <3>2. \A s \in ListedBy(y) : Cardinality(Ahead(s, ListedBy(y))) \in Nat
      BY <3>1, NewestFirst
    <3>3. (y.page - 1) * PageSize = 0
      BY <2>3, ActivityConstants
    <3> QED BY <3>2, <3>3 DEF ReadBy
  <2>5. PagesOf(y)
    BY <1>2, <2>3, <2>4 DEF PagesOf
  <2> QED BY <1>1, <1>2, <2>2, <2>3, <2>5, RunMoves
<1> QED BY <1>5, <1>6 DEF ReadHead

(* What a run has seen after a page: the newest commits of the window, as  *)
(* many as fill the pages read.                                            *)
LEMMA PageIsRead ==
    ASSUME ActivityInv, NEW p \in Runners, refresh[p].pc = "page"
    PROVE  /\ Listed(p) \in SUBSET (1..MaxPushes)
           /\ refresh[p].page \in Nat \ {0}
           /\ refresh[p].page * PageSize \in Nat \ {0}
           /\ refresh[p].seen \cup OnPage(Listed(p), refresh[p].page)
                = {s \in Listed(p) : Cardinality(Ahead(s, Listed(p))) < refresh[p].page * PageSize}
<1> DEFINE x == refresh[p]
           list == Listed(p)
           k == x.page
<1>1. list = ListedBy(x)
  BY DEF Listed, ListedBy
<1>2. list \in SUBSET (1..MaxPushes)
  BY RunTyped DEF Listed, Commit
<1>3. k \in Nat \ {0} /\ x.seen = ReadBy(x)
  BY RunTyped DEF RunOK, PagesOf
<1>4. x.seen = {s \in list : Cardinality(Ahead(s, list)) < (k - 1) * PageSize}
  BY <1>1, <1>3 DEF ReadBy
<1> HIDE DEF list, k
<1>5. PageSize \in Nat \ {0}
  BY ActivityConstants
<1>6. k * PageSize = (k - 1) * PageSize + PageSize /\ (k - 1) * PageSize \in Nat
  BY <1>3, <1>5
<1>7. \A s \in list : Cardinality(Ahead(s, list)) \in Nat
  <2>1. /\ Cardinality(list) \in Nat
        /\ \A s \in list : Cardinality(Ahead(s, list)) \in 0..(Cardinality(list) - 1)
    BY <1>2, NewestFirst
  <2> QED BY <2>1
<1> DEFINE from == (k - 1) * PageSize
           to == k * PageSize
<1>8. from \in Nat /\ to = from + PageSize /\ to \in Nat \ {0}
  BY <1>5, <1>6
<1>9. OnPage(list, k) = {s \in list : Cardinality(Ahead(s, list)) \in from..(to - 1)}
  BY DEF OnPage
<1>10. x.seen = {s \in list : Cardinality(Ahead(s, list)) < from}
  BY <1>4
<1> HIDE DEF from, to
<1>11. x.seen \cup OnPage(list, k) = {s \in list : Cardinality(Ahead(s, list)) < to}
  BY <1>5, <1>7, <1>8, <1>9, <1>10
<1> QED BY <1>2, <1>3, <1>8, <1>11 DEF list, k, to

LEMMA ReadPageKeeps ==
    ASSUME ActivityInv, NEW p \in Runners, ReadPage(p)
    PROVE  ActivityInv'
<1> DEFINE x == refresh[p]
           list == Listed(p)
           more == HasNext(list, x.page)
           seen == x.seen \cup OnPage(list, x.page)
<1>1. x.pc = "page" /\ UNCHANGED <<branch, pushes, monitored, focus, cached>>
  BY DEF ReadPage, Answers
<1>2. x.index <= Len(x.plan)
  BY <1>1, RunTyped DEF RunOK, ReportOf, InCall
<1>3. seen = {s \in list : Cardinality(Ahead(s, list)) < x.page * PageSize}
      /\ list \in SUBSET (1..MaxPushes) /\ x.page \in Nat \ {0}
  BY <1>1, PageIsRead
<1>4. seen \in SUBSET (1..MaxPushes)
  BY <1>3
<1>5. list = ListedBy(x)
  BY DEF Listed, ListedBy
<1>7. CASE refresh' = [refresh EXCEPT ![p] = [x EXCEPT !.seen = seen, !.page = @ + 1]]
  <2> HIDE DEF seen
  <2> DEFINE next == x.page + 1
             y == [x EXCEPT !.seen = seen, !.page = next]
  <2>0. next \in Nat /\ next = x.page + 1
    BY <1>3
  <2> HIDE DEF next
  <2>1. y \in Refresh /\ y.plan = x.plan /\ y.index = x.index /\ y.report = x.report
        /\ y.pc = "page" /\ y.page = next /\ y.seen = seen /\ y.history = x.history /\ y.age = x.age
    BY <1>1, <1>4, <2>0, RunTyped DEF Refresh
  <2>2. refresh' = [refresh EXCEPT ![p] = y]
    BY <1>7 DEF next
  <2> HIDE DEF y
  <2>3. ListedBy(y) = list
    BY <1>5, <2>1 DEF ListedBy
  <2>4. y.page - 1 = x.page
    BY <1>3, <2>1, <2>0
  <2>5. ReadBy(y) = seen
    BY <1>3, <2>3, <2>4 DEF ReadBy
  <2>6. PagesOf(y)
    BY <1>3, <2>1, <2>5, <2>0 DEF PagesOf
  <2> QED BY <1>1, <1>2, <2>1, <2>2, <2>6, RunMoves
<1>8. CASE refresh' = [refresh EXCEPT ![p] =
                         [x EXCEPT !.seen = seen, !.pc = "put", !.complete = ~more, !.age = 0]]
  <2> DEFINE complete == ~more
             y == [x EXCEPT !.seen = seen, !.pc = "put", !.complete = complete, !.age = 0]
  <2>0. complete \in BOOLEAN
    BY DEF HasNext
  <2>1. 0 \in 0..CallTicks
    BY ActivityConstants
  <2> HIDE DEF seen, complete
  <2>2. y \in Refresh /\ y.plan = x.plan /\ y.index = x.index /\ y.report = x.report
        /\ y.pc = "put"
    BY <1>4, <2>0, <2>1, RunTyped DEF Refresh
  <2>3. refresh' = [refresh EXCEPT ![p] = y]
    BY <1>8 DEF complete
  <2> HIDE DEF y
  <2>4. PagesOf(y)
    BY <2>2 DEF PagesOf
  <2> QED BY <1>1, <1>2, <2>2, <2>3, <2>4, RunMoves
<1> QED BY <1>7, <1>8 DEF ReadPage

LEMMA RunStops ==
    ASSUME ActivityInv, NEW p \in Runners, AbortRefresh(p) \/ PrintReport(p)
    PROVE  ActivityInv'
BY NoRefreshOK, RunnerStep, CachedStays DEF AbortRefresh, PrintReport

LEMMA CancelRefreshKeeps ==
    ASSUME ActivityInv, NEW p \in Runners, CancelRefresh(p)
    PROVE  ActivityInv'
<1> DEFINE x == refresh[p]
           y == [x EXCEPT !.cancelled = TRUE]
<1>1. x.pc \notin {"idle", "done"} /\ UNCHANGED <<branch, pushes, monitored, focus, cached>>
  BY DEF CancelRefresh
<1>2. refresh' = [refresh EXCEPT ![p] = y]
  BY DEF CancelRefresh, ActivityInv, ActivityTypeOK
<1>3. y \in Refresh /\ y.plan = x.plan /\ y.index = x.index /\ y.report = x.report
      /\ y.pc = x.pc /\ y.seen = x.seen /\ y.page = x.page /\ y.history = x.history /\ y.age = x.age
  BY RunTyped DEF Refresh
<1> HIDE DEF y
<1>4. ReadBy(y) = ReadBy(x)
  BY <1>3 DEF ReadBy, ListedBy
<1>5. PagesOf(y)
  BY <1>3, <1>4, RunTyped DEF RunOK, PagesOf
<1>6. x.pc \in InCall => x.index <= Len(x.plan)
  BY RunTyped DEF RunOK, ReportOf
<1> QED BY <1>1, <1>2, <1>3, <1>5, <1>6, RunMoves

(***************************************************************************)
(* GitHub, the watch commands and time.                                    *)
(***************************************************************************)
LEMMA PushKeeps ==
    ASSUME ActivityInv, NEW r \in Repos, Push(r)
    PROVE  ActivityInv'
<1>1. PICK age \in {-1, 0, Window}, base \in {branch[r], Replaced(branch[r])} :
          branch' = [branch EXCEPT ![r] = base \cup {[sha |-> pushes', age |-> age]}]
  BY DEF Push
<1>2. pushes' \in 1..MaxPushes /\ pushes' \in 0..MaxPushes
  BY ActivityConstants DEF Push, ActivityInv, ActivityTypeOK
<1>3. age \in -1..OldAge
  BY ActivityConstants
<1>4. base \in SUBSET Commit
  BY DEF Replaced, ActivityInv, ActivityTypeOK
<1>5. [sha |-> pushes', age |-> age] \in Commit
  BY <1>2, <1>3 DEF Commit
<1>6. branch' \in [Repos -> SUBSET Commit]
  BY <1>1, <1>4, <1>5 DEF ActivityInv, ActivityTypeOK
<1> QED BY <1>2, <1>6 DEF Push, ActivityInv, ActivityTypeOK

(* Commits and the cutoff of a call age together: the window stays. *)
LEMMA AgedTyped ==
    ASSUME NEW c \in Commit
    PROVE  /\ [c EXCEPT !.age = Min({@ + 1, OldAge})] \in Commit
           /\ \A age \in 0..(CallTicks - 1) :
                 InWindow([c EXCEPT !.age = Min({@ + 1, OldAge})], age + 1) <=> InWindow(c, age)
<1> DEFINE next == Min({c.age + 1, OldAge})
<1>1. c.age \in -1..OldAge /\ c.sha \in 1..MaxPushes
  BY DEF Commit
<1>2. c.age + 1 \in Nat /\ OldAge \in Nat
  BY <1>1, ActivityConstants
<1>3. next = IF c.age = OldAge THEN OldAge ELSE c.age + 1
  <2>1. {c.age + 1, OldAge} \in SUBSET Nat /\ {c.age + 1, OldAge} # {}
    BY <1>2
  <2>2. next \in {c.age + 1, OldAge} /\ \A y \in {c.age + 1, OldAge} : next <= y
    BY <2>1, MinIsLeast
  <2> HIDE DEF next
  <2> QED BY <2>2, <1>1, <1>2
<1>4. next \in -1..OldAge
  <2> HIDE DEF next
  <2> QED BY <1>1, <1>2, <1>3
<1> DEFINE d == [c EXCEPT !.age = next]
<1>5. d \in Commit /\ d.age = next
  <2> HIDE DEF next
  <2> QED BY <1>4 DEF Commit
<1>6. \A age \in 0..(CallTicks - 1) :
         (d.age - (age + 1) \in 0..(Window - 1)) <=> (c.age - age \in 0..(Window - 1))
  <2> HIDE DEF next, d
  <2> QED BY <1>1, <1>2, <1>3, <1>5, ActivityConstants
<1> QED BY <1>5, <1>6 DEF InWindow

LEMMA AgedList ==
    ASSUME NEW history \in SUBSET Commit, NEW age \in 0..(CallTicks - 1)
    PROVE  /\ Aged(history) \in SUBSET Commit
           /\ {c.sha : c \in {d \in Aged(history) : InWindow(d, age + 1)}}
                = {c.sha : c \in {d \in history : InWindow(d, age)}}
<1> DEFINE Older(c) == [c EXCEPT !.age = Min({@ + 1, OldAge})]
<1>1. \A c \in history : /\ Older(c) \in Commit /\ Older(c).sha = c.sha
                         /\ InWindow(Older(c), age + 1) <=> InWindow(c, age)
  <2> SUFFICES ASSUME NEW c \in history
               PROVE  /\ Older(c) \in Commit /\ Older(c).sha = c.sha
                      /\ InWindow(Older(c), age + 1) <=> InWindow(c, age)
    OBVIOUS
  <2>1. Older(c).sha = c.sha
    BY DEF Commit
  <2> QED BY <2>1, AgedTyped
<1>2. Aged(history) = {Older(c) : c \in history}
  BY DEF Aged
<1> HIDE DEF Older
<1> QED BY <1>1, <1>2

LEMMA AgeTickKeeps ==
    ASSUME ActivityInv, AgeTick
    PROVE  ActivityInv'
<1>1. ASSUME NEW c \in Commit PROVE [c EXCEPT !.age = Min({@ + 1, OldAge})] \in Commit
  BY AgedTyped
<1>2. branch' \in [Repos -> SUBSET Commit]
  BY <1>1 DEF AgeTick, Aged, ActivityInv, ActivityTypeOK
<1>3. cached' \in [Repos -> Result \cup {NotCached}]
  <2>1. ASSUME NEW r \in Repos, cached[r] # NotCached
        PROVE  [cached[r] EXCEPT !.age = Min({@ + 1, StaleTicks})] \in Result
    <3>1. cached[r] \in Result
      BY <2>1 DEF ActivityInv, ActivityTypeOK
    <3>2. cached[r].age + 1 \in Nat /\ StaleTicks \in Nat
      BY <3>1, ActivityConstants DEF Result
    <3>3. Min({cached[r].age + 1, StaleTicks}) \in 0..StaleTicks
      BY <3>2, SmallerOf
    <3> QED BY <3>1, <3>3 DEF Result
  <2> QED BY <2>1 DEF AgeTick
<1>7. Grows(cached, cached')
  <2> SUFFICES ASSUME NEW r \in Repos, cached[r] # NotCached PROVE cached'[r] # NotCached
    BY DEF Grows
  <2> DEFINE age == Min({cached[r].age + 1, StaleTicks})
  <2>1. cached[r] \in Result
    BY DEF ActivityInv, ActivityTypeOK
  <2>2. cached[r].age + 1 \in Nat /\ StaleTicks \in Nat
    BY <2>1, ActivityConstants DEF Result
  <2>3. age \in Nat
    BY <2>2, SmallerOf
  <2>4. cached'[r] = [cached[r] EXCEPT !.age = age]
    BY DEF AgeTick
  <2> HIDE DEF age
  <2>5. cached'[r].age = age
    BY <2>1, <2>4 DEF Result
  <2>6. NotCached.age = -1
    BY DEF NotCached
  <2> QED BY <2>3, <2>5, <2>6
<1>4. ASSUME NEW p \in Runners
      PROVE  /\ refresh'[p] \in Refresh /\ RunOK(refresh'[p])
             /\ Backed(refresh'[p], cached')
  <2> DEFINE x == refresh[p]
             age == x.age + 1
             history == Aged(x.history)
             y == [x EXCEPT !.age = age, !.history = history]
  <2>1. CASE x.pc \in {"idle", "next", "done"}
    <3>1. refresh'[p] = x
      BY <2>1 DEF AgeTick
    <3>2. x \in Refresh /\ RunOK(x) /\ Backed(x, cached)
      BY RunTyped
    <3> QED BY <1>7, <3>1, <3>2, BackedStays
  <2>2. CASE x.pc \notin {"idle", "next", "done"}
    <3>1. refresh'[p] = y
      BY <2>2 DEF AgeTick
    <3>2. x.age \in 0..(CallTicks - 1)
      <4>1. x.age < CallTicks
        BY <2>2 DEF AgeTick
      <4>2. x.age \in 0..CallTicks
        BY RunTyped
      <4> QED BY <4>1, <4>2, ActivityConstants
    <3>3. age \in 0..CallTicks /\ history \in SUBSET Commit
      BY <3>2, RunTyped, ActivityConstants, AgedList
    <3>4. {c.sha : c \in {d \in history : InWindow(d, age)}} = ListedBy(x)
      BY <3>2, RunTyped, AgedList DEF ListedBy
    <3> HIDE DEF age, history
    <3>5. /\ y \in Refresh /\ y.plan = x.plan /\ y.index = x.index /\ y.report = x.report
          /\ y.pc = x.pc /\ y.seen = x.seen /\ y.page = x.page /\ y.history = history /\ y.age = age
          /\ y.failed = x.failed
      BY <3>3, RunTyped DEF Refresh
    <3> HIDE DEF y
    <3>6. ReadBy(y) = ReadBy(x)
      BY <3>4, <3>5 DEF ReadBy, ListedBy
    <3>7. RunOK(y)
      BY <3>5, <3>6, RunTyped DEF RunOK, ReportOf, PagesOf
    <3>8. Backed(y, cached)
      BY <3>5, RunTyped DEF Backed
    <3>9. Backed(y, cached')
      BY <1>7, <3>5, <3>7, <3>8, BackedStays
    <3> QED BY <3>1, <3>5, <3>7, <3>9
  <2> QED BY <2>1, <2>2
<1>5. refresh' \in [Runners -> Refresh]
  BY <1>4 DEF AgeTick
<1>6. ActivityTypeOK'
  BY <1>2, <1>3, <1>5 DEF AgeTick, ActivityInv, ActivityTypeOK
<1> QED BY <1>4, <1>6 DEF ActivityInv

LEMMA ActivityInit_Inv == ActivityInit => ActivityInv
<1> SUFFICES ASSUME ActivityInit PROVE ActivityInv
  OBVIOUS
<1>1. 0 \in 0..MaxPushes
  BY ActivityConstants
<1> QED BY <1>1, NoRefreshOK DEF ActivityInit, ActivityInv, ActivityTypeOK

LEMMA WatchKeeps ==
    ASSUME ActivityInv, NEW r \in Repos, Monitor(r) \/ Follow(r)
    PROVE  ActivityInv'
<1>1. /\ monitored' \subseteq Repos /\ focus' \subseteq Repos
      /\ UNCHANGED <<branch, pushes, cached, refresh>>
  BY DEF Monitor, Follow, ActivityInv, ActivityTypeOK
<1> QED BY <1>1 DEF ActivityInv, ActivityTypeOK

LEMMA ActivityNext_Inv == ActivityInv /\ [ActivityNext]_activityVars => ActivityInv'
<1> SUFFICES ASSUME ActivityInv, [ActivityNext]_activityVars PROVE ActivityInv'
  OBVIOUS
<1>1. ASSUME NEW p \in Runners, RefreshStep(p) \/ AbortRefresh(p) \/ CancelRefresh(p)
      PROVE  ActivityInv'
  BY <1>1, NextKeeps, FailKeeps, StoreKeeps, StoreFailsKeeps, ReadRepositoryKeeps, ReadHeadKeeps, ReadPageKeeps,
     RunStops, CancelRefreshKeeps DEF RefreshStep, CallStep
<1>3. ASSUME UNCHANGED activityVars PROVE ActivityInv'
  BY <1>3 DEF activityVars, ActivityInv, ActivityTypeOK
<1> QED BY <1>1, <1>3, StartKeeps, SingleKeeps, PushKeeps, WatchKeeps, AgeTickKeeps DEF ActivityNext

LEMMA ActivityInvHolds == ActivityInit /\ [][ActivityNext]_activityVars => []ActivityInv
BY ActivityInit_Inv, ActivityNext_Inv, PTL

(* The report of every run that ends, for any list and any number of       *)
(* processes: it counts each repository of its list once, or each one      *)
(* before the error of the store or of the configuration that ended it, or *)
(* the single repository whose result was fresh; and no success is counted *)
(* without a result in the cache (RefreshActivity).                        *)
THEOREM ReportsAddUp == ActivitySpec => []ReportAddsUp
<1>1. ASSUME ActivityInv, NEW p \in Runners, refresh[p].pc = "done"
      PROVE  LET x       == refresh[p]
                 counted == x.report.success + x.report.failures + x.report.skipped
             IN  /\ x.report.target = Len(x.plan)
                 /\ \/ counted = Len(x.plan)
                    \/ x.failed /\ counted = x.index - 1
                    \/ x.plan = <<>> /\ x.report.skipped = 1 /\ counted = 1
                 /\ x.report.success <=
                       Cardinality({i \in DOMAIN x.plan : cached[x.plan[i]] # NotCached})
  <2> DEFINE x == refresh[p]
  <2>1. ReportOf(x)
    BY <1>1, RunTyped DEF RunOK
  <2>2. x.report.success <= Cardinality(Stored(x.plan, Len(x.plan), cached))
    BY <1>1, RunTyped DEF Backed
  <2>3. DOMAIN x.plan = 1..Len(x.plan)
    BY <1>1, RunTyped
  <2>4. Stored(x.plan, Len(x.plan), cached) = {i \in DOMAIN x.plan : cached[x.plan[i]] # NotCached}
    BY <2>3 DEF Stored
  <2> QED BY <1>1, <2>1, <2>2, <2>4 DEF ReportOf, Total
<1>2. ActivityInv => ReportAddsUp
  BY <1>1 DEF ReportAddsUp
<1> QED BY <1>2, ActivityInvHolds, PTL DEF ActivitySpec

(* Whatever is pushed between two pages, a complete result counts every    *)
(* commit of the window on the pinned history, and one that is cut off     *)
(* counts some of them, but not all, for any page size and number of       *)
(* pages (FetchActivity).                                                  *)
THEOREM WindowsAreCountedWhole == ActivitySpec => CountsAreWhole
<1> DEFINE Whole(p) ==
      LET x      == refresh[p]
          window == {c.sha : c \in {d \in x.history : InWindow(d, x.age)}}
      IN  IF refresh'[p].complete THEN refresh'[p].seen = window
          ELSE refresh'[p].seen \subseteq window /\ refresh'[p].seen \notin {{}, window}
<1>1. ASSUME ActivityInv, NEW p \in Runners, ReadPage(p), refresh'[p].pc = "put"
      PROVE  Whole(p)
  <2> DEFINE x == refresh[p]
             list == Listed(p)
             seen == x.seen \cup OnPage(list, x.page)
             more == HasNext(list, x.page)
             read == x.page * PageSize
  <2>1. x.pc = "page" /\ x \in Refresh
    BY <1>1, RunTyped DEF ReadPage, Answers
  <2>2. /\ list \in SUBSET (1..MaxPushes) /\ read \in Nat \ {0}
        /\ seen = {s \in list : Cardinality(Ahead(s, list)) < read}
    BY <1>1, <2>1, PageIsRead
  <2>3. refresh'[p].seen = seen /\ refresh'[p].complete = ~more
    <3>1. refresh'[p] \in {[x EXCEPT !.seen = seen, !.page = @ + 1],
                           [x EXCEPT !.seen = seen, !.pc = "put", !.complete = ~more, !.age = 0]}
      BY <1>1 DEF ReadPage, ActivityInv, ActivityTypeOK
    <3>2. [x EXCEPT !.seen = seen, !.page = @ + 1].pc = "page"
      BY <2>1 DEF Refresh
    <3>3. refresh'[p] = [x EXCEPT !.seen = seen, !.pc = "put", !.complete = ~more, !.age = 0]
      BY <1>1, <3>1, <3>2
    <3> HIDE DEF seen, more
    <3> QED BY <2>1, <3>3 DEF Refresh
  <2>4. list = {c.sha : c \in {d \in x.history : InWindow(d, x.age)}}
    BY DEF Listed
  <2>5. more <=> Cardinality(list) > read
    BY DEF HasNext
  <2> HIDE DEF list, seen, more, read
  <2>6. /\ Cardinality(list) \in Nat
        /\ \A s \in list : Cardinality(Ahead(s, list)) \in 0..(Cardinality(list) - 1)
        /\ \A i \in 0..(Cardinality(list) - 1) : \E s \in list : Cardinality(Ahead(s, list)) = i
    BY <2>2, NewestFirst
  <2>7. ~more => seen = list
    <3>1. ASSUME ~more, NEW s \in list PROVE Cardinality(Ahead(s, list)) < read
      <4>1. Cardinality(Ahead(s, list)) \in 0..(Cardinality(list) - 1)
        BY <2>6
      <4>2. Cardinality(list) <= read
        BY <3>1, <2>2, <2>5, <2>6
      <4> QED BY <4>1, <4>2, <2>2, <2>6
    <3> QED BY <3>1, <2>2
  <2>8. more => seen \subseteq list /\ seen # {} /\ seen # list
    <3> SUFFICES ASSUME more PROVE seen \subseteq list /\ seen # {} /\ seen # list
      OBVIOUS
    <3>1. 0 \in 0..(Cardinality(list) - 1) /\ read \in 0..(Cardinality(list) - 1)
      BY <2>2, <2>5, <2>6
    <3>2. PICK first \in list : Cardinality(Ahead(first, list)) = 0
      BY <3>1, <2>6
    <3>3. PICK next \in list : Cardinality(Ahead(next, list)) = read
      BY <3>1, <2>6
    <3>4. first \in seen
      BY <2>2, <3>2
    <3>5. next \notin seen
      BY <2>2, <3>3
    <3> QED BY <2>2, <3>4, <3>5
  <2> QED BY <2>3, <2>4, <2>7, <2>8
<1>2. ActivityInv /\ [ActivityNext]_activityVars =>
        [\A p \in Runners : (ReadPage(p) /\ refresh'[p].pc = "put") => Whole(p)]_activityVars
  BY <1>1
<1> QED BY <1>2, ActivityInvHolds, PTL DEF ActivitySpec, CountsAreWhole

(* A stored result is never cleared, nor replaced by one fetched earlier,  *)
(* however many processes fetch the same repository                        *)
(* (PutRepositoryActivity).                                                *)
THEOREM CacheOnlyMovesForward == ActivitySpec => CacheMovesForward
<1>1. ASSUME ActivityInv, [ActivityNext]_activityVars, ~AgeTick, NEW r \in Repos, cached[r] # NotCached
      PROVE  cached'[r].age \in 0..cached[r].age
  <2>1. cached[r].age \in Nat
    BY <1>1 DEF ActivityInv, ActivityTypeOK, Result
  <2>2. CASE cached' = cached
    BY <2>1, <2>2
  <2>3. ASSUME NEW p \in Runners, StoreResult(p) PROVE cached'[r].age \in 0..cached[r].age
    <3>1. refresh[p].age \in Nat
      BY <1>1, RunTyped
    <3>2. CASE r = Current(p) /\ IsNewer(refresh[p], r)
      <4>1. cached'[r].age = refresh[p].age
        BY <2>3, <3>2, <1>1 DEF StoreResult, ActivityInv, ActivityTypeOK
      <4>2. refresh[p].age < cached[r].age
        BY <1>1, <3>2 DEF IsNewer
      <4> QED BY <2>1, <3>1, <4>1, <4>2
    <3>3. CASE ~(r = Current(p) /\ IsNewer(refresh[p], r))
      <4>1. cached'[r] = cached[r]
        BY <2>3, <3>3, <1>1 DEF StoreResult, ActivityInv, ActivityTypeOK
      <4> QED BY <2>1, <4>1
    <3> QED BY <3>2, <3>3
  <2>4. ASSUME NEW p \in Runners,
               \/ \E among \in Cohorts, force \in BOOLEAN :
                     StartRefresh(p, among, force) \/ StartFails(p, among, force)
               \/ \E s \in Repos, force \in BOOLEAN : StartSingle(p, s, force)
               \/ NextRepository(p) \/ CallStep(p) \/ FetchFails(p)
               \/ StoreFails(p) \/ PrintReport(p)
               \/ AbortRefresh(p) \/ CancelRefresh(p)
        PROVE  cached' = cached
    BY <2>4 DEF StartRefresh, StartFails, StartSingle, NextRepository, CallStep, ReadRepository,
                ReadHead, ReadPage, FetchFails, StoreFails, PrintReport, AbortRefresh, CancelRefresh
  <2>5. ASSUME NEW s \in Repos, Push(s) \/ Monitor(s) \/ Follow(s) PROVE cached' = cached
    BY <2>5 DEF Push, Monitor, Follow
  <2>6. ASSUME UNCHANGED activityVars PROVE cached' = cached
    BY <2>6 DEF activityVars
  <2> QED BY <1>1, <2>2, <2>3, <2>4, <2>5, <2>6 DEF ActivityNext, RefreshStep
<1>2. ActivityInv /\ [ActivityNext]_activityVars =>
        [AgeTick \/ \A r \in Repos : cached[r] # NotCached =>
           cached'[r].age \in 0..cached[r].age]_activityVars
  BY <1>1
<1> QED BY <1>2, ActivityInvHolds, PTL DEF ActivitySpec, CacheMovesForward

(***************************************************************************)
(* The client and the cache beside each other.                             *)
(***************************************************************************)
(* The state of both has its type: what the client knows of the quota and  *)
(* of its callers (client.go), and what a run of RefreshActivity holds,    *)
(* its list of registered repositories included.                           *)
THEOREM CollectorTypeCorrect == CollectorSpec => []CollectorTypeOK
<1>1. CollectorInit => ClientInv /\ ActivityInv
  BY ClientInit_Inv, ActivityInit_Inv DEF CollectorInit
<1>2. ClientInv /\ ActivityInv /\ [CollectorNext]_<<clientVars, activityVars, part>>
        => ClientInv' /\ ActivityInv'
  <2>1. [CollectorNext]_<<clientVars, activityVars, part>>
          => [ClientNext]_clientVars /\ [ActivityNext]_activityVars
    <3>1. ASSUME NEW p \in Runners, StartRefresh(p, Repos, FALSE) PROVE ActivityNext
      <4>1. Repos \in Cohorts
        BY DEF Cohorts
      <4>2. \E among \in Cohorts, force \in BOOLEAN : StartRefresh(p, among, force)
        BY <3>1, <4>1
      <4> QED BY <4>2 DEF ActivityNext
    <3>2. ASSUME NEW p \in Runners, RefreshStep(p) \/ AbortRefresh(p) PROVE ActivityNext
      BY <3>2 DEF ActivityNext
    <3>3. ASSUME NEW r \in Repos, Follow(r) PROVE ActivityNext
      BY <3>3 DEF ActivityNext
    <3>4. Turns => ActivityNext
      BY <3>1, <3>2, <3>3 DEF Turns, ActivityNext
    <3> QED BY <3>4 DEF CollectorNext, ClientStepOf, ActivityStep
  <2> QED BY <2>1, ClientNext_Inv, ActivityNext_Inv
<1>3. ClientInv /\ ActivityInv => CollectorTypeOK
  BY DEF ClientInv, ActivityInv, CollectorTypeOK
<1> QED BY <1>1, <1>2, <1>3, PTL DEF CollectorSpec
=============================================================================
