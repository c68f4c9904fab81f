--------------------------- MODULE Routing_proofs ---------------------------
(***************************************************************************)
(* The two sides of smart routing, which share no state: the breaker of a  *)
(* channel under any number of concurrent callers, for every window,       *)
(* threshold and duration, and the requests that fall back over channels   *)
(* while breakers, cache and database change around them.                  *)
(*                                                                         *)
(* With the memory cache enabled no request goes twice to a channel; with  *)
(* or without it, retries are bounded and a relayed request is answered    *)
(* once.  The argument is about one request: nothing another request or    *)
(* the environment does changes its record.                                *)
(***************************************************************************)
EXTENDS ChannelHealth, SmartRelay, SetLemmas, SequenceTheorems, TLAPS

-----------------------------------------------------------------------------
(* The health of a channel.                                                *)

\* What the proofs need of `call`: it has an entry for every caller.
CallIsFunction == call = [c \in Caller |-> call[c]]

\* The window's sums are those of SetLemmas.
LEMMA WindowSum ==
  ASSUME NEW f, NEW S
  PROVE  Window!SumFunctionOnSet(f, S) = SumFunctionOnSet(f, S)
  BY DEF Window!SumFunctionOnSet, Window!FoldFunctionOnSet, Window!MapThenFoldSet,
         SumFunctionOnSet, FoldFunctionOnSet, MapThenFoldSet

\* A ring that has counted nothing has no requests.
LEMMA NoRequests ==
  ASSUME NEW ring, Window!UsedIn(ring) = {}
  PROVE  Window!Requests(ring) = 0
  BY WindowSum, SumOfNothing DEF Window!Requests

\* The metrics of a ring are naturals.
LEMMA MetricsAreNaturals ==
  ASSUME NEW ring \in [Window!Age -> Window!Bucket]
  PROVE  Window!MetricsOf(ring) \in Metrics
  <1> DEFINE used == Window!UsedIn(ring)
  <1>1. IsFiniteSet(used) /\ used \subseteq Window!Age
    <2>1. IsFiniteSet(0 .. BucketCount - 1)
      BY HealthAssumption, FS_Interval DEF Window!WindowAssumption
    <2> QED BY <2>1, FS_Subset DEF Window!UsedIn, Window!Age
  <1>2. ASSUME NEW f, \A d \in Window!Age : f[d] \in Nat
        PROVE  Window!SumFunctionOnSet(f, used) \in Nat
    BY <1>1, <1>2, WindowSum, SumOfNaturals
  <1>3. \A d \in Window!Age : /\ ring[d].requests \in Nat /\ ring[d].errors \in Nat
                              /\ ring[d].timeouts \in Nat
    BY DEF Window!Bucket
  <1>4. Window!Requests(ring) \in Nat
    BY <1>2, <1>3 DEF Window!Requests
  <1>5. Window!Errors(ring) \in Nat
    BY <1>2, <1>3 DEF Window!Errors
  <1>6. Window!Timeouts(ring) \in Nat
    BY <1>2, <1>3 DEF Window!Timeouts
  <1> QED BY <1>4, <1>5, <1>6 DEF Window!MetricsOf, Metrics

\* The metrics depend on the buckets alone.
LEMMA MetricsUnchanged ==
  ASSUME buckets' = buckets
  PROVE  Window!GetMetrics' = Window!GetMetrics
  BY DEF Window!GetMetrics

\* Each step of a call hands the evidence on to the next step, and only a record
\* changes the window, so an unhealthy window always has a call left to see it.
LEMMA NoticedStep ==
  CallIsFunction /\ UnhealthyIsNoticed /\ [Next]_vars
    => CallIsFunction' /\ UnhealthyIsNoticed'
  <1> SUFFICES ASSUME CallIsFunction, UnhealthyIsNoticed, [Next]_vars
               PROVE  CallIsFunction' /\ UnhealthyIsNoticed'
    OBVIOUS
  <1>1. ASSUME NEW c \in Caller, NEW outcome \in Window!Outcome, RecordInWindow(c, outcome)
        PROVE  CallIsFunction' /\ UnhealthyIsNoticed'
    <2>1. call' = [call EXCEPT ![c] = [Idle EXCEPT !.pc = "tell", !.outcome = outcome]]
      BY <1>1 DEF RecordInWindow
    <2>2. CallIsFunction' /\ call'[c].pc = "tell"
      BY <2>1 DEF CallIsFunction, Idle
    <2>3. QED BY <2>2 DEF UnhealthyIsNoticed, WillOpen
  <1>2. ASSUME NEW c \in Caller, TellCircuit(c)
        PROVE  CallIsFunction' /\ UnhealthyIsNoticed'
    <2>1. call' = [call EXCEPT ![c] = [Idle EXCEPT !.pc = "read"]]
      BY <1>2 DEF TellCircuit
    <2>2. CallIsFunction' /\ call'[c].pc = "read"
      BY <2>1 DEF CallIsFunction, Idle
    <2>3. QED BY <2>2 DEF UnhealthyIsNoticed, WillOpen
  <1>3. ASSUME NEW c \in Caller, ReadMetrics(c)
        PROVE  CallIsFunction' /\ UnhealthyIsNoticed'
    <2>1. /\ call' = [call EXCEPT ![c] = [Idle EXCEPT !.pc = "check",
                                                      !.metrics = Window!GetMetrics]]
          /\ buckets' = buckets
      BY <1>3 DEF ReadMetrics, windowVars
    <2>2. /\ CallIsFunction'
          /\ call'[c].pc = "check" /\ call'[c].metrics = Window!GetMetrics
      BY <2>1 DEF CallIsFunction, Idle
    <2>3. Window!GetMetrics' = Window!GetMetrics
      BY <2>1, MetricsUnchanged
    <2>4. Circuit!Unhealthy(Window!GetMetrics)' => WillOpen(c)'
      BY <2>2, <2>3 DEF WillOpen, Circuit!Unhealthy
    <2>5. QED BY <2>2, <2>4 DEF UnhealthyIsNoticed
  <1>4. ASSUME NEW c \in Caller, CheckCircuit(c)
        PROVE  CallIsFunction' /\ UnhealthyIsNoticed'
    <2>1. /\ call' = [call EXCEPT ![c] = Idle]
          /\ buckets' = buckets
          /\ call[c].pc = "check"
          /\ Circuit!CheckMetrics(call[c].metrics)
      BY <1>4 DEF CheckCircuit, windowVars
    <2>2. CallIsFunction' /\ \A d \in Caller \ {c} : call'[d] = call[d]
      BY <2>1 DEF CallIsFunction
    <2>3. Window!GetMetrics' = Window!GetMetrics
      BY <2>1, MetricsUnchanged
    <2>4. SUFFICES ASSUME state' = "closed", Circuit!Unhealthy(Window!GetMetrics)'
                   PROVE  \E d \in Caller : WillOpen(d)'
      BY <2>2 DEF UnhealthyIsNoticed
    <2>5. state = "closed" /\ ~Circuit!Unhealthy(call[c].metrics)
      BY <2>1, <2>4 DEF Circuit!CheckMetrics, Circuit!Open, Circuit!breakerVars
    <2>6. Circuit!Unhealthy(Window!GetMetrics)
      BY <2>3, <2>4 DEF Circuit!Unhealthy
    <2>7. PICK d \in Caller : WillOpen(d)
      BY <2>5, <2>6 DEF UnhealthyIsNoticed
    <2>8. d # c
      BY <2>1, <2>5, <2>7 DEF WillOpen
    <2>9. WillOpen(d)'
      BY <2>2, <2>7, <2>8 DEF WillOpen, Circuit!Unhealthy
    <2>10. QED BY <2>9
  <1>5. CASE Tick \/ UNCHANGED vars
    <2>1. call' = call /\ buckets' = buckets /\ state' = state
      BY <1>5 DEF Tick, Window!Tick, Window!windowVars, breakerVars, vars
    <2>2. Window!GetMetrics' = Window!GetMetrics
      BY <2>1, MetricsUnchanged
    <2>3. QED BY <2>1, <2>2 DEF CallIsFunction, UnhealthyIsNoticed, WillOpen, Circuit!Unhealthy
  <1>6. QED BY <1>1, <1>2, <1>3, <1>4, <1>5 DEF Next

\* However the calls of RecordRequestHealth interleave, none loses the evidence that
\* must open the breaker.
THEOREM EvidenceIsNoticed == Spec => []UnhealthyIsNoticed
  <1>1. Init => CallIsFunction /\ UnhealthyIsNoticed
    <2>1. ASSUME Init PROVE ~Circuit!Unhealthy(Window!GetMetrics)
      <3>1. Window!UsedIn(buckets) = {}
        BY <2>1 DEF Init, Window!Init, Window!UsedIn, Window!EmptyBucket
      <3>2. Window!GetMetrics.requests = 0
        BY <3>1, NoRequests DEF Window!GetMetrics, Window!MetricsOf
      <3>3. QED BY <3>2, HealthAssumption DEF Circuit!Unhealthy, Circuit!BreakerAssumption
    <2>2. QED BY <2>1 DEF Init, CallIsFunction, UnhealthyIsNoticed
  <1>2. QED BY <1>1, NoticedStep, PTL DEF Spec

\* When no call of RecordRequestHealth is in progress, a closed breaker has a window
\* that does not ask for it to open.
THEOREM QuietBreakerIsRight == Spec => []QuietClosedIsHealthy
  <1>1. UnhealthyIsNoticed => QuietClosedIsHealthy
    BY DEF UnhealthyIsNoticed, QuietClosedIsHealthy, WillOpen
  <1>2. QED BY <1>1, EvidenceIsNoticed, PTL

-----------------------------------------------------------------------------

\* The breaker's variables: its types, and no probe counted unless it is half-open.
BreakerInv ==
    /\ clock \in Nat
    /\ Circuit!TypeOK
    /\ state # "half_open" => halfOpenSuccesses = 0

\* What a step does to the breaker, whichever caller takes it.
BreakerStep ==
    \/ Window!Tick /\ UNCHANGED breakerVars
    \/ Circuit!RecordSuccess /\ UNCHANGED clock
    \/ Circuit!RecordFailure /\ UNCHANGED clock
    \/ Circuit!Open /\ state = "closed" /\ UNCHANGED clock
    \/ UNCHANGED <<clock, breakerVars>>

\* Every step is one of them.
LEMMA StepsOfTheBreaker == [Next]_vars => BreakerStep
  <1> SUFFICES ASSUME [Next]_vars
               PROVE  BreakerStep
    OBVIOUS
  <1>1. CASE Tick
    BY <1>1 DEF Tick, BreakerStep
  <1>2. ASSUME NEW c \in Caller, NEW outcome \in Window!Outcome, RecordInWindow(c, outcome)
        PROVE  BreakerStep
    BY <1>2 DEF RecordInWindow, BreakerStep
  <1>3. ASSUME NEW c \in Caller, TellCircuit(c)
        PROVE  BreakerStep
    BY <1>3 DEF TellCircuit, BreakerStep
  <1>4. ASSUME NEW c \in Caller, ReadMetrics(c)
        PROVE  BreakerStep
    BY <1>4 DEF ReadMetrics, BreakerStep
  <1>5. ASSUME NEW c \in Caller, CheckCircuit(c)
        PROVE  BreakerStep
    BY <1>5 DEF CheckCircuit, Circuit!CheckMetrics, Circuit!breakerVars, breakerVars,
                BreakerStep
  <1>6. CASE UNCHANGED vars
    BY <1>6 DEF vars, breakerVars, BreakerStep
  <1>7. QED BY <1>1, <1>2, <1>3, <1>4, <1>5, <1>6 DEF Next

\* They all keep the invariant.
LEMMA BreakerInvStep == BreakerInv /\ BreakerStep => BreakerInv'
  <1> SUFFICES ASSUME BreakerInv, BreakerStep
               PROVE  BreakerInv'
    OBVIOUS
  <1> USE HealthAssumption DEF BreakerInv, Circuit!TypeOK, Circuit!CircuitState,
                               Circuit!BreakerAssumption
  <1>1. CASE Window!Tick /\ UNCHANGED breakerVars
    BY <1>1 DEF Window!Tick, breakerVars
  <1>2. CASE Circuit!RecordSuccess /\ UNCHANGED clock
    BY <1>2 DEF Circuit!RecordSuccess, Circuit!breakerVars
  <1>3. CASE Circuit!RecordFailure /\ UNCHANGED clock
    BY <1>3 DEF Circuit!RecordFailure, Circuit!Open, Circuit!breakerVars
  <1>4. CASE Circuit!Open /\ state = "closed" /\ UNCHANGED clock
    BY <1>4 DEF Circuit!Open
  <1>5. CASE UNCHANGED <<clock, breakerVars>>
    BY <1>5 DEF breakerVars
  <1>6. QED BY <1>1, <1>2, <1>3, <1>4, <1>5 DEF BreakerStep

\* The breaker's variables keep their types, and only a half-open breaker counts probes
\* (RecordSuccess, RecordFailure and CheckMetrics of health.go).
THEOREM BreakerInvariant == Spec => []BreakerInv
  <1>1. Init => BreakerInv
    BY HealthAssumption DEF Init, Window!Init, Circuit!Init, BreakerInv, Circuit!TypeOK,
                            Circuit!CircuitState, Circuit!BreakerAssumption
  <1>2. QED BY <1>1, StepsOfTheBreaker, BreakerInvStep, PTL DEF Spec

\* Every step of a breaker is a step of the machine of BreakerSpec, or none.
LEMMA BreakerSimulation == BreakerInv /\ BreakerStep => [Reported!Next]_(Reported!vars)
  <1> SUFFICES ASSUME BreakerInv, BreakerStep
               PROVE  Reported!Next \/ UNCHANGED Reported!vars
    OBVIOUS
  <1> USE HealthAssumption DEF BreakerInv, Circuit!TypeOK, Circuit!CircuitState,
          Circuit!BreakerAssumption, Circuit!GetState, Circuit!OpenDurationElapsed
  <1>1. CASE Window!Tick /\ UNCHANGED breakerVars
    <2>1. Reported!Wait
      BY <1>1 DEF Window!Tick, breakerVars, Reported!Wait
    <2>2. QED BY <2>1 DEF Reported!Next
  <1>2. CASE Circuit!RecordSuccess /\ UNCHANGED clock
    <2>1. CASE state = "half_open" /\ halfOpenSuccesses + 1 >= HalfOpenMaxReqs
      <3>1. Reported!LastProbePasses
        BY <1>2, <2>1 DEF Circuit!RecordSuccess, Reported!LastProbePasses
      <3>2. QED BY <3>1 DEF Reported!Next
    <2>2. CASE state = "half_open" /\ halfOpenSuccesses + 1 < HalfOpenMaxReqs
      <3>1. Reported!ProbePasses
        BY <1>2, <2>2 DEF Circuit!RecordSuccess, Reported!ProbePasses
      <3>2. QED BY <3>1 DEF Reported!Next
    <2>3. CASE state = "open" /\ Circuit!OpenDurationElapsed
      <3>1. Reported!ProbePasses
        BY <1>2, <2>3 DEF Circuit!RecordSuccess, Reported!ProbePasses
      <3>2. QED BY <3>1 DEF Reported!Next
    <2>4. CASE state = "closed" \/ (state = "open" /\ ~Circuit!OpenDurationElapsed)
      BY <1>2, <2>4 DEF Circuit!RecordSuccess, Circuit!breakerVars, Reported!vars
    <2>5. QED BY <2>1, <2>2, <2>3, <2>4
  <1>3. CASE Circuit!RecordFailure /\ UNCHANGED clock
    <2>1. CASE state = "half_open"
      <3>1. Reported!Trip
        BY <1>3, <2>1 DEF Circuit!RecordFailure, Circuit!Open, Reported!Trip
      <3>2. QED BY <3>1 DEF Reported!Next
    <2>2. CASE state # "half_open"
      BY <1>3, <2>2 DEF Circuit!RecordFailure, Circuit!breakerVars, Reported!vars
    <2>3. QED BY <2>1, <2>2
  <1>4. CASE Circuit!Open /\ state = "closed" /\ UNCHANGED clock
    <2>1. Reported!Trip
      BY <1>4 DEF Circuit!Open, Reported!Trip
    <2>2. QED BY <2>1 DEF Reported!Next
  <1>5. CASE UNCHANGED <<clock, breakerVars>>
    BY <1>5 DEF breakerVars, Reported!vars
  <1>6. QED BY <1>1, <1>2, <1>3, <1>4, <1>5 DEF BreakerStep

\* The state callers read (GetState of health.go) moves as BreakerSpec says.
THEOREM BreakerRefinement == Spec => ImplementsBreakerSpec
  <1>1. Init => Reported!Init
    BY DEF Init, Window!Init, Circuit!Init, Reported!Init, Circuit!GetState
  <1>2. QED BY <1>1, StepsOfTheBreaker, BreakerInvariant, BreakerSimulation, PTL
            DEF Spec, ImplementsBreakerSpec, Reported!Spec

-----------------------------------------------------------------------------
(* Types.                                                                  *)

\* Whole bucket durations go by in whole numbers.
LEMMA TicksAreNatural ==
  ASSUME Window!TypeOK
  PROVE  Window!Ticks \in Nat
  <1>1. clock - lastTick \in Nat /\ BucketDuration \in Nat \ {0}
    BY HealthAssumption DEF Window!TypeOK, Window!WindowAssumption
  <1>2. ASSUME NEW n \in Nat, NEW b \in Nat \ {0} PROVE n \div b \in Nat
    OBVIOUS
  <1> QED BY <1>1, <1>2 DEF Window!Ticks

\* Recording a request keeps the window's types.
LEMMA RecordKeepsWindow ==
  ASSUME Window!TypeOK, NEW outcome \in Window!Outcome, Window!Record(outcome), UNCHANGED clock
  PROVE  Window!TypeOK'
  <1>1. 0 \in Window!Age /\ Window!EmptyBucket \in Window!Bucket
    BY HealthAssumption DEF Window!WindowAssumption, Window!Age, Window!EmptyBucket, Window!Bucket
  <1>2. Window!Ticks \in Nat
    BY TicksAreNatural
  <1>3. \A d \in Window!Age : /\ d < Window!Ticks \/ d >= Window!Ticks
                              /\ d >= Window!Ticks => d - Window!Ticks \in Window!Age
    BY <1>2, HealthAssumption DEF Window!WindowAssumption, Window!Age
  <1>4. Window!Advanced \in [Window!Age -> Window!Bucket]
    BY <1>1, <1>3 DEF Window!Advanced, Window!TypeOK
  <1>5. Window!Counted(Window!Advanced[0], outcome) \in Window!Bucket
    BY <1>1, <1>4 DEF Window!Counted, Window!One, Window!Bucket, Window!TypeOK
  <1>6. buckets' \in [Window!Age -> Window!Bucket]
    BY <1>1, <1>4, <1>5 DEF Window!Record
  <1>7. lastTick' \in 0 .. clock'
    BY DEF Window!Record, Window!AdvancedTick, Window!TypeOK
  <1> QED BY <1>6, <1>7 DEF Window!TypeOK

Calls == [Caller -> [pc : {"idle", "tell", "read", "check"}, outcome : Window!Outcome,
                     metrics : Metrics]]

LEMMA CallsStep ==
  ASSUME Window!TypeOK, call \in Calls, [Next]_vars
  PROVE  call' \in Calls
  <1>1. /\ Idle \in [pc : {"idle", "tell", "read", "check"}, outcome : Window!Outcome,
                     metrics : Metrics]
        /\ Window!GetMetrics \in Metrics
    BY MetricsAreNaturals DEF Idle, NoMetrics, Metrics, Window!Outcome, Window!GetMetrics,
       Window!TypeOK
  <1>2. ASSUME NEW c \in Caller, NEW outcome \in Window!Outcome, RecordInWindow(c, outcome)
        PROVE  call' \in Calls
    BY <1>1, <1>2 DEF RecordInWindow, Calls
  <1>3. ASSUME NEW c \in Caller, TellCircuit(c) PROVE call' \in Calls
    BY <1>1, <1>3 DEF TellCircuit, Calls
  <1>4. ASSUME NEW c \in Caller, ReadMetrics(c) PROVE call' \in Calls
    BY <1>1, <1>4 DEF ReadMetrics, Calls
  <1>5. ASSUME NEW c \in Caller, CheckCircuit(c) PROVE call' \in Calls
    BY <1>1, <1>5 DEF CheckCircuit, Calls
  <1>6. CASE Tick \/ UNCHANGED vars
    BY <1>6 DEF Tick, vars
  <1> QED BY <1>2, <1>3, <1>4, <1>5, <1>6 DEF Next

LEMMA TypesStep == TypeOK /\ BreakerInv' /\ [Next]_vars => TypeOK'
  <1> SUFFICES ASSUME TypeOK, BreakerInv', [Next]_vars PROVE TypeOK'
    OBVIOUS
  <1>1. Window!TypeOK /\ call \in Calls /\ freshFailure \in BOOLEAN
    BY DEF TypeOK, Calls
  <1>2. call' \in Calls
    BY <1>1, CallsStep
  <1>3. Window!TypeOK'
    <2>1. CASE Tick
      BY <1>1, <2>1 DEF Tick, Window!Tick, Window!windowVars, Window!TypeOK
    <2>2. CASE UNCHANGED <<clock, windowVars>>
      BY <1>1, <2>2 DEF windowVars, Window!TypeOK
    <2>3. ASSUME NEW c \in Caller, NEW outcome \in Window!Outcome, RecordInWindow(c, outcome)
          PROVE  Window!TypeOK'
      BY <1>1, <2>3, RecordKeepsWindow DEF RecordInWindow
    <2>4. ASSUME NEW c \in Caller, TellCircuit(c) \/ ReadMetrics(c) \/ CheckCircuit(c)
          PROVE  UNCHANGED <<clock, windowVars>>
      BY <2>4 DEF TellCircuit, ReadMetrics, CheckCircuit
    <2>5. UNCHANGED vars => UNCHANGED <<clock, windowVars>>
      BY DEF vars, windowVars
    <2> QED BY <2>1, <2>2, <2>3, <2>4, <2>5 DEF Next
  <1>4. freshFailure' \in BOOLEAN
    <2>1. ASSUME NEW c \in Caller PROVE
             /\ \A outcome \in Window!Outcome :
                    RecordInWindow(c, outcome) => freshFailure' \in BOOLEAN
             /\ TellCircuit(c) => freshFailure' \in BOOLEAN
             /\ ReadMetrics(c) \/ CheckCircuit(c) => freshFailure' = freshFailure
      BY DEF RecordInWindow, TellCircuit, ReadMetrics, CheckCircuit
    <2>2. Tick \/ UNCHANGED vars => freshFailure' = freshFailure
      BY DEF Tick, vars
    <2> QED BY <1>1, <2>1, <2>2 DEF Next
  <1>5. Circuit!TypeOK'
    BY DEF BreakerInv
  <1> QED BY <1>2, <1>3, <1>4, <1>5 DEF TypeOK, Calls

\* The window, the breaker and the calls in progress keep their types, the metrics a call
\* carries from one step to another among them (RecordRequestHealth of health.go).
THEOREM HealthTypeCorrect == Spec => []TypeOK
  <1>1. Init => TypeOK
    <2> SUFFICES ASSUME Init PROVE TypeOK
      OBVIOUS
    <2>1. Window!TypeOK
      BY HealthAssumption DEF Init, Window!Init, Window!TypeOK, Window!Bucket,
         Window!EmptyBucket, Window!WindowAssumption
    <2>2. Circuit!TypeOK
      BY HealthAssumption DEF Init, Window!Init, Circuit!Init, Circuit!TypeOK,
         Circuit!CircuitState, Circuit!BreakerAssumption
    <2>3. call \in Calls
      BY DEF Init, Calls, Idle, NoMetrics, Metrics, Window!Outcome
    <2> QED BY <2>1, <2>2, <2>3 DEF Init, TypeOK, Calls
  <1> QED BY <1>1, TypesStep, BreakerInvariant, PTL DEF Spec

-----------------------------------------------------------------------------
(* The relay of a request.                                                 *)

\* The record of a request.
RequestType ==
    [pc : {"new", "attempt", "failed", "done"}, kind : Kind \cup {"relay"},
     specific : BOOLEAN, channel : Channel \cup {<<>>}, tried : SUBSET Channel,
     attempts : Seq(Channel), left : Nat, written : Seq({"upstream", "error"})]

\* The channels attempted are the tried ones, and there is none twice.
TriedInv(q) ==
    /\ \A i \in DOMAIN q.attempts : q.attempts[i] \in q.tried
    /\ \A i, j \in DOMAIN q.attempts : q.attempts[i] = q.attempts[j] => i = j

\* How the attempts and the retries left add up.
RetryInv(q) ==
    /\ q.pc = "new" => q.attempts = <<>>
    /\ q.pc = "attempt" =>
        \/ Len(q.attempts) = 1
        \/ ~q.specific /\ q.left > 0 /\ Len(q.attempts) + q.left = 2 + RetryLimit(q.kind)
    /\ q.pc = "failed" =>
        \/ Len(q.attempts) = 1 /\ q.left = 0
        \/ ~q.specific /\ Len(q.attempts) + q.left = 1 + RetryLimit(q.kind)
    /\ Len(q.attempts) <= IF q.specific THEN 1 ELSE 1 + RetryLimit(q.kind)

\* A relayed request that is not done has been sent nothing.
AnswerInv(q) ==
    /\ q.pc = "new" => q.written = <<>>
    /\ q.kind = "relay" => Len(q.written) = IF q.pc = "done" THEN 1 ELSE 0

RelayInv ==
    /\ cached \subseteq Channel
    /\ enabled \subseteq Channel
    /\ memoryCacheEnabled \in BOOLEAN
    /\ req \in [Request -> RequestType]
    /\ \A r \in Request : RetryInv(req[r]) /\ AnswerInv(req[r])

OnceInv == memoryCacheEnabled => \A r \in Request : TriedInv(req[r])

\* A retry limit is a natural number, whichever handler asks.
LEMMA RetryLimitNat == \A kind : RetryLimit(kind) \in Nat
BY RelayAssumption DEF RetryLimit, RelayAssumption

\* A selection returns channels of the cache or of the database.
LEMMA SelectionsAreChannels ==
    ASSUME RelayInv, NEW r \in Request
    PROVE  Selections(r) \subseteq Channel
BY DEF RelayInv, Selections, Select, SelectFromCache, SelectFromDatabase, Candidates, Viable,
       TopTier, FirstOf

\* From the memory cache it never returns an excluded one.
LEMMA SelectionsAreUntried ==
    ASSUME memoryCacheEnabled, NEW r \in Request
    PROVE  Selections(r) \cap req[r].tried = {}
BY DEF Selections, Select, SelectFromCache, Candidates, Viable, FirstOf

\* The initial states satisfy both invariants.
LEMMA RelayInvInit == RelayInit => RelayInv /\ OnceInv
<1> SUFFICES ASSUME RelayInit PROVE RelayInv /\ OnceInv
  OBVIOUS
<1>1. New \in RequestType
  BY DEF New, RequestType
<1>2. RetryInv(New) /\ AnswerInv(New) /\ TriedInv(New)
  BY RetryLimitNat DEF New, RetryInv, AnswerInv, TriedInv
<1> QED BY <1>1, <1>2 DEF RelayInit, RelayInv, OnceInv

\* A new attempt on channel c, as Arrive and Retry make it, appends c to the attempts.
LEMMA Attempted ==
    ASSUME NEW s \in Seq(Channel), NEW c \in Channel
    PROVE  /\ Append(s, c) \in Seq(Channel)
           /\ Len(Append(s, c)) = Len(s) + 1
           /\ \A i \in DOMAIN Append(s, c) :
                \/ i \in DOMAIN s /\ Append(s, c)[i] = s[i]
                \/ i = Len(s) + 1 /\ Append(s, c)[i] = c
  OBVIOUS

\* What is sent to a client grows by one entry.
LEMMA Sent ==
    ASSUME NEW s \in Seq({"upstream", "error"}), NEW e \in {"upstream", "error"}
    PROVE  Append(s, e) \in Seq({"upstream", "error"}) /\ Len(Append(s, e)) = Len(s) + 1
  OBVIOUS

\* The record Succeed and GiveUp give it.
LEMMA DoneRecord ==
    ASSUME NEW q \in RequestType, NEW written
    PROVE  [q EXCEPT !.pc = "done", !.written = written]
           = [pc |-> "done", kind |-> q.kind, specific |-> q.specific, channel |-> q.channel,
              tried |-> q.tried, attempts |-> q.attempts, left |-> q.left, written |-> written]
<1> SUFFICES ASSUME NEW p, p = [q EXCEPT !.pc = "done", !.written = written]
             PROVE  p = [pc |-> "done", kind |-> q.kind, specific |-> q.specific, channel |-> q.channel,
              tried |-> q.tried, attempts |-> q.attempts, left |-> q.left, written |-> written]
  OBVIOUS
<1> QED BY DEF RequestType

\* The record Fail gives it.
LEMMA FailRecord ==
    ASSUME NEW q \in RequestType, NEW left, NEW written
    PROVE  [q EXCEPT !.pc = "failed", !.left = left, !.written = written]
           = [pc |-> "failed", kind |-> q.kind, specific |-> q.specific, channel |-> q.channel,
              tried |-> q.tried, attempts |-> q.attempts, left |-> left, written |-> written]
<1> SUFFICES ASSUME NEW p, p = [q EXCEPT !.pc = "failed", !.left = left, !.written = written]
             PROVE  p = [pc |-> "failed", kind |-> q.kind, specific |-> q.specific, channel |-> q.channel,
              tried |-> q.tried, attempts |-> q.attempts, left |-> left, written |-> written]
  OBVIOUS
<1> QED BY DEF RequestType

\* The record Retry gives it.
LEMMA RetryRecord ==
    ASSUME NEW q \in RequestType, NEW c
    PROVE  [q EXCEPT !.pc = "attempt", !.channel = c, !.tried = q.tried \cup {c},
                     !.attempts = Append(q.attempts, c)]
           = [pc |-> "attempt", kind |-> q.kind, specific |-> q.specific, channel |-> c,
              tried |-> q.tried \cup {c}, attempts |-> Append(q.attempts, c), left |-> q.left, written |-> q.written]
<1> SUFFICES ASSUME NEW p, p = [q EXCEPT !.pc = "attempt", !.channel = c, !.tried = q.tried \cup {c},
                     !.attempts = Append(q.attempts, c)]
             PROVE  p = [pc |-> "attempt", kind |-> q.kind, specific |-> q.specific, channel |-> c,
              tried |-> q.tried \cup {c}, attempts |-> Append(q.attempts, c), left |-> q.left, written |-> q.written]
  OBVIOUS
<1> QED BY DEF RequestType

\* Every step of a request gives it a well-formed record with its counts right.
LEMMA ServeKeepsRecord ==
    ASSUME RelayInv, NEW r \in Request, Serve(r)
    PROVE  \E p \in RequestType :
            req' = [req EXCEPT ![r] = p] /\ RetryInv(p) /\ AnswerInv(p)
<1> DEFINE q == req[r]
<1>0. q \in RequestType /\ RetryInv(q) /\ AnswerInv(q)
  BY DEF RelayInv
<1>b. q \in RequestType
  BY <1>0
<1>a. /\ q.attempts \in Seq(Channel) /\ q.left \in Nat /\ q.written \in Seq({"upstream", "error"})
      /\ q.specific \in BOOLEAN /\ q.tried \subseteq Channel /\ RetryLimit(q.kind) \in Nat
      /\ q.kind \in Kind \cup {"relay"} /\ q.channel \in Channel \cup {<<>>}
      /\ Len(q.attempts) \in Nat
  BY <1>0, RetryLimitNat, LenProperties DEF RequestType
<1>1. CASE Arrive(r)
  <2>1. PICK kind \in Kind, specific \in BOOLEAN, c \in cached \cup enabled :
          req' = [req EXCEPT ![r] =
                    [@ EXCEPT !.pc = "attempt", !.kind = kind, !.specific = specific,
                              !.channel = c, !.tried = {c}, !.attempts = <<c>>]]
    BY <1>1 DEF Arrive
  <2> DEFINE p == [pc |-> "attempt", kind |-> kind, specific |-> specific, channel |-> c,
                   tried |-> {c}, attempts |-> <<c>>, left |-> q.left, written |-> q.written]
  <2>2. c \in Channel /\ q.pc = "new"
    BY <1>1 DEF Arrive, RelayInv
  <2>3. p = [q EXCEPT !.pc = "attempt", !.kind = kind, !.specific = specific,
                      !.channel = c, !.tried = {c}, !.attempts = <<c>>]
    <3> SUFFICES ASSUME NEW x, x = [q EXCEPT !.pc = "attempt", !.kind = kind,
                        !.specific = specific, !.channel = c, !.tried = {c}, !.attempts = <<c>>]
                 PROVE  x = p
      OBVIOUS
    <3> QED BY <1>b DEF RequestType
  <2>4. req' = [req EXCEPT ![r] = p]
    BY <2>1, <2>3
  <2>5. p \in RequestType
    BY <2>2, <1>a DEF RequestType
  <2>6. RetryInv(p)
    BY RetryLimitNat DEF RetryInv
  <2>7. AnswerInv(p)
    BY <2>2, <1>0 DEF AnswerInv
  <2> QED BY <2>4, <2>5, <2>6, <2>7
<1>2. CASE Succeed(r)
  <2> DEFINE p == [pc |-> "done", kind |-> q.kind, specific |-> q.specific,
                   channel |-> q.channel, tried |-> q.tried, attempts |-> q.attempts,
                   left |-> q.left, written |-> Append(q.written, "upstream")]
  <2>1. p = [q EXCEPT !.pc = "done", !.written = Append(q.written, "upstream")]
    BY <1>b, DoneRecord
  <2>2. req' = [req EXCEPT ![r] = p] /\ q.pc = "attempt"
    BY <1>2, <2>1 DEF Succeed
  <2>3. Append(q.written, "upstream") \in Seq({"upstream", "error"})
        /\ Len(Append(q.written, "upstream")) = Len(q.written) + 1
    BY <1>a, Sent
  <2>4. p \in RequestType
    BY <2>3, <1>a DEF RequestType
  <2>5. RetryInv(p)
    BY <2>2, <1>0, <1>a DEF RetryInv
  <2>6. AnswerInv(p)
    BY <2>2, <2>3, <1>0 DEF AnswerInv
  <2> QED BY <2>2, <2>4, <2>5, <2>6
<1>3. ASSUME NEW failure \in Failure, Fail(r, failure)
      PROVE  \E p \in RequestType :
                req' = [req EXCEPT ![r] = p] /\ RetryInv(p) /\ AnswerInv(p)
  <2> DEFINE left == IF ~(Len(q.attempts) = 1) THEN q.left - 1
                     ELSE IF ShouldRetry(q.specific, failure) THEN RetryLimit(q.kind) ELSE 0
             written == WrittenAfterFailure(q, failure)
             p == [pc |-> "failed", kind |-> q.kind, specific |-> q.specific,
                   channel |-> q.channel, tried |-> q.tried, attempts |-> q.attempts,
                   left |-> left, written |-> written]
  <2>1. p = [q EXCEPT !.pc = "failed", !.left = left, !.written = written]
    BY <1>b, FailRecord
  <2>2. req' = [req EXCEPT ![r] = p] /\ q.pc = "attempt"
    BY <1>3, <2>1 DEF Fail
  <2>3. \/ Len(q.attempts) = 1
        \/ ~q.specific /\ q.left > 0 /\ Len(q.attempts) + q.left = 2 + RetryLimit(q.kind)
    BY <2>2, <1>0 DEF RetryInv
  <2>4. left \in Nat
    BY <2>3, <1>a
  <2>5. written \in Seq({"upstream", "error"}) /\ (q.kind = "relay" => written = q.written)
    BY <1>a, Sent DEF WrittenAfterFailure
  <2>6. p \in RequestType
    BY <2>4, <2>5, <1>a DEF RequestType
  <2>7. RetryInv(p)
    <3>1. Len(q.attempts) <= IF q.specific THEN 1 ELSE 1 + RetryLimit(q.kind)
      BY <1>0 DEF RetryInv
    <3>2. \/ Len(q.attempts) = 1 /\ left = 0
          \/ ~q.specific /\ Len(q.attempts) + left = 1 + RetryLimit(q.kind)
      <4>1. CASE Len(q.attempts) = 1
        BY <4>1, <1>a DEF ShouldRetry
      <4>2. CASE ~(Len(q.attempts) = 1)
        <5>1. left = q.left - 1
          BY <4>2
        <5> QED BY SMTT(60), <4>2, <5>1, <2>3, <1>a
      <4> QED BY <4>1, <4>2
    <3> QED BY <3>1, <3>2 DEF RetryInv
  <2>8. AnswerInv(p)
    BY <2>2, <2>5, <1>0 DEF AnswerInv
  <2> QED BY <2>2, <2>6, <2>7, <2>8
<1>4. CASE Retry(r)
  <2>1. PICK c \in Selections(r) :
          req' = [req EXCEPT ![r] =
                    [@ EXCEPT !.pc = "attempt", !.channel = c,
                              !.tried = req[r].tried \cup {c},
                              !.attempts = Append(req[r].attempts, c)]]
    BY <1>4 DEF Retry
  <2> DEFINE p == [pc |-> "attempt", kind |-> q.kind, specific |-> q.specific, channel |-> c,
                   tried |-> q.tried \cup {c}, attempts |-> Append(q.attempts, c),
                   left |-> q.left, written |-> q.written]
  <2>2. c \in Channel /\ q.pc = "failed" /\ q.left > 0
    BY <1>4, SelectionsAreChannels DEF Retry
  <2>3. p = [q EXCEPT !.pc = "attempt", !.channel = c, !.tried = q.tried \cup {c},
                      !.attempts = Append(q.attempts, c)]
    BY <1>b, RetryRecord
  <2>4. req' = [req EXCEPT ![r] = p]
    BY <2>1, <2>3
  <2>5. Append(q.attempts, c) \in Seq(Channel)
        /\ Len(Append(q.attempts, c)) = Len(q.attempts) + 1
    BY <1>a, <2>2, Attempted
  <2>6. p \in RequestType
    BY <2>2, <2>5, <1>a DEF RequestType
  <2>7. RetryInv(p)
    <3>1. ~q.specific /\ Len(q.attempts) + q.left = 1 + RetryLimit(q.kind)
      BY <2>2, <1>0, <1>a DEF RetryInv
    <3> QED BY SMTT(60), <3>1, <2>2, <2>5, <1>a DEF RetryInv
  <2>8. AnswerInv(p)
    BY <2>2, <1>0 DEF AnswerInv
  <2> QED BY <2>4, <2>6, <2>7, <2>8
<1>5. CASE GiveUp(r)
  <2> DEFINE p == [pc |-> "done", kind |-> q.kind, specific |-> q.specific,
                   channel |-> q.channel, tried |-> q.tried, attempts |-> q.attempts,
                   left |-> q.left, written |-> Append(q.written, "error")]
  <2>1. p = [q EXCEPT !.pc = "done", !.written = Append(q.written, "error")]
    BY <1>b, DoneRecord
  <2>2. req' = [req EXCEPT ![r] = p] /\ q.pc = "failed"
    BY <1>5, <2>1 DEF GiveUp
  <2>3. Append(q.written, "error") \in Seq({"upstream", "error"})
        /\ Len(Append(q.written, "error")) = Len(q.written) + 1
    BY <1>a, Sent
  <2>4. p \in RequestType
    BY <2>3, <1>a DEF RequestType
  <2>5. RetryInv(p)
    BY <2>2, <1>0, <1>a DEF RetryInv
  <2>6. AnswerInv(p)
    BY <2>2, <2>3, <1>0 DEF AnswerInv
  <2> QED BY <2>2, <2>4, <2>5, <2>6
<1> QED BY <1>1, <1>2, <1>3, <1>4, <1>5 DEF Serve

\* What happens around the requests leaves them alone.
LEMMA AroundRequests ==
    ASSUME RelayInv, [RelayNext]_relayVars, ~ \E r \in Request : Serve(r)
    PROVE  /\ req' = req /\ cached' \subseteq Channel /\ enabled' \subseteq Channel
           /\ memoryCacheEnabled' = memoryCacheEnabled
<1>1. CASE UNCHANGED relayVars
  BY <1>1 DEF relayVars, RelayInv
<1>2. CASE SyncCache
  BY <1>2 DEF SyncCache, RelayInv
<1>3. ASSUME NEW c \in Channel, ProcessError(c) \/ BreakerMoves(c) \/ EnableChannel(c)
      PROVE  /\ req' = req /\ cached' \subseteq Channel /\ enabled' \subseteq Channel
             /\ memoryCacheEnabled' = memoryCacheEnabled
  BY SMTT(60), <1>3 DEF ProcessError, BreakerMoves, EnableChannel, RelayInv
<1> QED BY <1>1, <1>2, <1>3 DEF RelayNext

\* A request's own steps change neither the cache nor the database.
LEMMA ServeLeavesChannels ==
    ASSUME NEW r \in Request, Serve(r)
    PROVE  /\ cached' = cached /\ enabled' = enabled /\ memoryCacheEnabled' = memoryCacheEnabled
           /\ level' = level
BY DEF Serve, Arrive, Succeed, Fail, Retry, GiveUp

\* Every step keeps the records well-formed and their counts right.
LEMMA RelayInvStep == RelayInv /\ [RelayNext]_relayVars => RelayInv'
<1> SUFFICES ASSUME RelayInv, [RelayNext]_relayVars PROVE RelayInv'
  OBVIOUS
<1>1. CASE \E r \in Request : Serve(r)
  <2>1. PICK r \in Request : Serve(r)
    BY <1>1
  <2>2. PICK p \in RequestType : req' = [req EXCEPT ![r] = p] /\ RetryInv(p) /\ AnswerInv(p)
    BY <2>1, ServeKeepsRecord
  <2>3. req' \in [Request -> RequestType]
    BY <2>2 DEF RelayInv
  <2>4. ASSUME NEW s \in Request
        PROVE  RetryInv(req'[s]) /\ AnswerInv(req'[s])
    <3>1. req'[s] = IF s = r THEN p ELSE req[s]
      BY <2>2 DEF RelayInv
    <3> QED BY <3>1, <2>2 DEF RelayInv
  <2>5. cached' = cached /\ enabled' = enabled /\ memoryCacheEnabled' = memoryCacheEnabled
    BY <2>1, ServeLeavesChannels
  <2> QED BY <2>3, <2>4, <2>5 DEF RelayInv
<1>2. CASE ~ \E r \in Request : Serve(r)
  BY <1>2, AroundRequests DEF RelayInv
<1> QED BY <1>1, <1>2

\* A step of a request keeps its attempts distinct and all of them tried.
LEMMA ServeKeepsTried ==
    ASSUME memoryCacheEnabled, RelayInv, OnceInv, NEW r \in Request, Serve(r)
    PROVE  TriedInv(req'[r])
<1> DEFINE q == req[r]
<1>0. q \in RequestType /\ TriedInv(q) /\ q.attempts \in Seq(Channel)
      /\ req \in [Request -> RequestType]
  BY DEF RelayInv, OnceInv, RequestType
<1>1. CASE Arrive(r)
  <2>1. PICK c : req'[r].attempts = <<c>> /\ req'[r].tried = {c}
    BY <1>0, <1>1 DEF Arrive, RequestType
  <2> QED BY <2>1 DEF TriedInv
<1>2. CASE Succeed(r) \/ GiveUp(r) \/ \E failure \in Failure : Fail(r, failure)
  <2>1. req'[r].attempts = q.attempts /\ req'[r].tried = q.tried
    <3>1. CASE Succeed(r)
      BY <1>0, <3>1 DEF Succeed, RequestType
    <3>2. CASE GiveUp(r)
      BY <1>0, <3>2 DEF GiveUp, RequestType
    <3>3. ASSUME NEW failure \in Failure, Fail(r, failure)
          PROVE  req'[r].attempts = q.attempts /\ req'[r].tried = q.tried
      BY <1>0, <3>3 DEF Fail, RequestType
    <3> QED BY <1>2, <3>1, <3>2, <3>3
  <2> QED BY <2>1, <1>0 DEF TriedInv
<1>3. CASE Retry(r)
  <2>1. PICK c \in Selections(r) :
          req'[r].attempts = Append(q.attempts, c) /\ req'[r].tried = q.tried \cup {c}
    BY <1>0, <1>3 DEF Retry, RequestType
  <2>2. c \in Channel /\ c \notin q.tried
    BY SelectionsAreChannels, SelectionsAreUntried
  <2>3. \A i \in DOMAIN Append(q.attempts, c) :
            \/ i \in DOMAIN q.attempts /\ Append(q.attempts, c)[i] = q.attempts[i]
            \/ i = Len(q.attempts) + 1 /\ Append(q.attempts, c)[i] = c
    BY <1>0, <2>2, Attempted
  <2> QED BY <1>0, <2>1, <2>2, <2>3 DEF TriedInv
<1> QED BY <1>1, <1>2, <1>3 DEF Serve

\* With the cache enabled every step keeps every request's attempts distinct.
LEMMA OnceStep == RelayInv /\ OnceInv /\ [RelayNext]_relayVars => OnceInv'
<1> SUFFICES ASSUME RelayInv, OnceInv, [RelayNext]_relayVars, memoryCacheEnabled'
             PROVE  \A r \in Request : TriedInv(req'[r])
  BY DEF OnceInv
<1>1. CASE \E r \in Request : Serve(r)
  <2>1. PICK r \in Request : Serve(r)
    BY <1>1
  <2>2. PICK p \in RequestType : req' = [req EXCEPT ![r] = p]
    BY <2>1, ServeKeepsRecord
  <2>3. \A s \in Request : s # r => req'[s] = req[s]
    BY <2>2 DEF RelayInv
  <2>4. memoryCacheEnabled
    BY <2>1, ServeLeavesChannels
  <2>5. TriedInv(req'[r])
    BY <2>1, <2>4, ServeKeepsTried
  <2>6. \A s \in Request : TriedInv(req[s])
    BY <2>4 DEF OnceInv
  <2>7. ASSUME NEW s \in Request
        PROVE  TriedInv(req'[s])
    BY <2>3, <2>5, <2>6
  <2> QED BY <2>7
<1>2. CASE ~ \E r \in Request : Serve(r)
  <2>1. req' = req /\ memoryCacheEnabled' = memoryCacheEnabled
    BY <1>2, AroundRequests
  <2>2. memoryCacheEnabled
    BY <2>1
  <2>3. \A r \in Request : TriedInv(req[r])
    BY <2>2 DEF OnceInv
  <2> QED BY <2>1, <2>3
<1> QED BY <1>1, <1>2

\* The invariant the theorems rest on.
THEOREM RelayInvariant == RelaySpec => []RelayInv
<1>1. RelayInit => RelayInv
  BY RelayInvInit
<1> QED BY <1>1, RelayInvStep, PTL DEF RelaySpec

LevelsInv == level \in [Channel -> Level]

LEMMA LevelsStep == LevelsInv /\ [RelayNext]_relayVars => LevelsInv'
<1> SUFFICES ASSUME LevelsInv, [RelayNext]_relayVars PROVE LevelsInv'
  OBVIOUS
<1>1. ASSUME NEW c \in Channel, BreakerMoves(c) PROVE LevelsInv'
  BY <1>1 DEF BreakerMoves, LevelsInv
<1>2. ASSUME NEW c \in Channel, ProcessError(c) \/ EnableChannel(c) PROVE level' = level
  BY <1>2 DEF ProcessError, EnableChannel
<1>3. ASSUME NEW r \in Request, Serve(r) PROVE level' = level
  BY <1>3, ServeLeavesChannels
<1>4. (SyncCache => level' = level) /\ (UNCHANGED relayVars => level' = level)
  BY DEF SyncCache, relayVars
<1> QED BY <1>1, <1>2, <1>3, <1>4 DEF RelayNext, LevelsInv

\* Channels and requests keep their types: a selection, whatever it finds, gives a request one of
\* the channels there are (Relay, RelayPassthrough, SyncChannelCache).
THEOREM RelayTypeCorrect == RelaySpec => []RelayTypeOK
<1>1. RelayInit => LevelsInv
  BY DEF RelayInit, Level, LevelsInv
<1>2. RelayInv /\ LevelsInv => RelayTypeOK
  BY DEF RelayInv, RequestType, LevelsInv, RelayTypeOK
<1> QED BY <1>1, <1>2, LevelsStep, RelayInvariant, PTL DEF RelaySpec

\* The retries of a request are bounded, and a token bound to a channel gets none
\* (Relay and RelayPassthrough count down, shouldRetry refuses), for every RetryTimes and
\* any channels, with the memory cache or without.
THEOREM RetriesAreBounded == RelaySpec => []AttemptsBounded
<1>1. RelayInv => AttemptsBounded
  BY DEF RelayInv, RetryInv, AttemptsBounded
<1> QED BY <1>1, RelayInvariant, PTL

\* A relayed request is answered once, by a success or by the last error.
THEOREM AnsweredOnce == RelaySpec => []RelayAnswersOnce
<1>1. RelayInv => RelayAnswersOnce
  BY DEF RelayInv, AnswerInv, RelayAnswersOnce
<1> QED BY <1>1, RelayInvariant, PTL

\* With the memory cache enabled the exclusion of tried channels works: no request goes
\* twice to a channel, whatever becomes of the cache and of the channels' health.
THEOREM NoChannelIsTriedTwice == RelaySpec => []NoChannelTwice
<1>1. RelayInit => OnceInv
  BY RelayInvInit
<1>2. RelayInv /\ OnceInv /\ [RelayNext]_relayVars => OnceInv'
  BY OnceStep
<1>3. OnceInv => NoChannelTwice
  BY DEF OnceInv, TriedInv, NoChannelTwice
<1> QED BY <1>1, <1>2, <1>3, RelayInvariant, PTL DEF RelaySpec

\* A retry goes to one of the channels selected.
LEMMA RetryIsAChoice ==
    ASSUME RelayInv, NEW r \in Request, Retry(r)
    PROVE  req'[r].channel \in Selections(r)
<1>1. req[r] \in RequestType
  BY DEF RelayInv
<1> QED BY <1>1 DEF Retry, RelayInv, RequestType

\* A selection from the cache that holds an open channel was the last resort.
LEMMA OpenChoice ==
    ASSUME memoryCacheEnabled, NEW r \in Request, NEW x \in Selections(r), level[x] = "open"
    PROVE  \A c \in cached \ req[r].tried : level[c] = "open"
<1> DEFINE tried == req[r].tried
<1>1. x \notin Candidates(cached, tried, level)
  BY DEF Candidates, Viable
<1>2. Candidates(cached, tried, level) = {}
  BY <1>1 DEF Selections, Select, SelectFromCache
<1>3. Viable(TopTier(cached), tried, level) = {}
      /\ Viable(cached \ TopTier(cached), tried, level) = {}
  BY <1>2 DEF Candidates
<1> QED BY <1>3 DEF Viable

\* A selection from the cache stays in the top tier when that has a fit channel.
LEMMA TopChoice ==
    ASSUME memoryCacheEnabled, NEW r \in Request, NEW x \in Selections(r),
           Viable(TopTier(cached), req[r].tried, level) # {}
    PROVE  x \in TopTier(cached)
<1>1. Selections(r) = Viable(TopTier(cached), req[r].tried, level)
  BY DEF Selections, Select, SelectFromCache, Candidates
<1> QED BY <1>1 DEF Viable

\* With the memory cache enabled a retry goes to an open channel only when every cached
\* channel not yet tried is open.
THEOREM OpenIsLastResort == RelaySpec => OpenOnlyAsLastResort
<1>1. ASSUME RelayInv, memoryCacheEnabled, NEW r \in Request, Retry(r), level[req'[r].channel] = "open"
      PROVE  \A c \in cached \ req[r].tried : level[c] = "open"
  BY <1>1, RetryIsAChoice, OpenChoice
<1>2. RelayInv /\ [RelayNext]_relayVars =>
        [\A r \in Request :
            memoryCacheEnabled /\ Retry(r) /\ level[req'[r].channel] = "open" =>
                \A c \in cached \ req[r].tried : level[c] = "open"]_relayVars
  BY <1>1
<1> QED BY <1>2, RelayInvariant, PTL DEF RelaySpec, OpenOnlyAsLastResort

\* With the memory cache enabled a fit, untried channel of the highest priority is never
\* passed over for one of a lower priority.
THEOREM TopTierIsFirst == RelaySpec => TopTierFirst
<1>1. ASSUME RelayInv, memoryCacheEnabled, NEW r \in Request, Retry(r),
             Viable(TopTier(cached), req[r].tried, level) # {}
      PROVE  req'[r].channel \in TopTier(cached)
  BY <1>1, RetryIsAChoice, TopChoice
<1>2. RelayInv /\ [RelayNext]_relayVars =>
        [\A r \in Request :
            memoryCacheEnabled /\ Retry(r) /\ Viable(TopTier(cached), req[r].tried, level) # {} =>
                req'[r].channel \in TopTier(cached)]_relayVars
  BY <1>1
<1> QED BY <1>2, RelayInvariant, PTL DEF RelaySpec, TopTierFirst

=============================================================================
