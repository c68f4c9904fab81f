--------------------------- MODULE CircuitBreaker ---------------------------
(***************************************************************************)
(* The breaker of one relay channel: CircuitBreaker of                     *)
(* backend/custom/monitor/health.go.  Each action runs under the breaker's *)
(* mutex, so it is one step.                                               *)
(***************************************************************************)
EXTENDS Integers

CONSTANTS
    OpenDuration,                    \* how long a breaker stays open (60s)
    HalfOpenMaxReqs,                 \* successes that close it (3)
    MinRequests,                     \* requests before the error rate counts (10)
    ThresholdNum, ThresholdDen       \* the error rate that opens it (0.5)

\* With HalfOpenMaxReqs = 1 the code would leave a breaker half-open after its only
\* probe; the one configuration it ships, DefaultCircuitConfig, asks for 3.
BreakerAssumption ==
    /\ OpenDuration \in Nat \ {0}
    /\ HalfOpenMaxReqs \in Nat \ {0, 1}
    /\ MinRequests \in Nat \ {0}
    /\ ThresholdNum \in Nat
    /\ ThresholdDen \in Nat \ {0}

VARIABLES
    clock,              \* time.Now()
    state,              \* the stored state
    openedAt,           \* when it last opened
    halfOpenSuccesses   \* probes that succeeded since it became half-open

breakerVars == <<state, openedAt, halfOpenSuccesses>>

CircuitState == {"closed", "open", "half_open"}

Init ==
    /\ state = "closed"
    /\ openedAt = 0
    /\ halfOpenSuccesses = 0

OpenDurationElapsed == clock - openedAt >= OpenDuration

\* The state callers see: an open breaker whose time is up is reported half-open, and
\* its stored state changes only when a success is recorded.
GetState ==
    IF state = "open" /\ OpenDurationElapsed THEN "half_open" ELSE state

Open ==
    /\ state' = "open"
    /\ openedAt' = clock
    /\ halfOpenSuccesses' = 0

\* Mutant: a success makes an open breaker half-open whatever the time.
RecordSuccessTooEarly ==
    \/ /\ state = "half_open"
       /\ halfOpenSuccesses' = (halfOpenSuccesses + 1) % HalfOpenMaxReqs
       /\ state' = IF halfOpenSuccesses + 1 >= HalfOpenMaxReqs THEN "closed" ELSE state
       /\ UNCHANGED openedAt
    \/ /\ state = "open"
       /\ state' = "half_open"
       /\ halfOpenSuccesses' = 1
       /\ UNCHANGED openedAt
    \/ state = "closed" /\ UNCHANGED breakerVars

\* Mutant: the count of probes is kept when the breaker closes.
RecordSuccessKeepsCount ==
    \/ /\ state = "half_open"
       /\ halfOpenSuccesses' = halfOpenSuccesses + 1
       /\ state' = IF halfOpenSuccesses' >= HalfOpenMaxReqs THEN "closed" ELSE state
       /\ UNCHANGED openedAt
    \/ /\ state = "open" /\ OpenDurationElapsed
       /\ state' = "half_open"
       /\ halfOpenSuccesses' = 1
       /\ UNCHANGED openedAt
    \/ /\ state = "closed" \/ (state = "open" /\ ~OpenDurationElapsed)
       /\ UNCHANGED breakerVars

RecordSuccess ==
    \/ /\ state = "half_open"
       /\ halfOpenSuccesses + 1 >= HalfOpenMaxReqs
       /\ state' = "closed"
       /\ halfOpenSuccesses' = 0
       /\ UNCHANGED openedAt
    \/ /\ state = "half_open"
       /\ halfOpenSuccesses + 1 < HalfOpenMaxReqs
       /\ halfOpenSuccesses' = halfOpenSuccesses + 1
       /\ UNCHANGED <<state, openedAt>>
    \/ /\ state = "open" /\ OpenDurationElapsed
       /\ state' = "half_open"
       /\ halfOpenSuccesses' = 1
       /\ UNCHANGED openedAt
    \/ /\ state = "closed" \/ (state = "open" /\ ~OpenDurationElapsed)
       /\ UNCHANGED breakerVars

\* Only the stored state is looked at: while the breaker is reported half-open but
\* still stored as open, a failure changes nothing.
RecordFailure ==
    \/ state = "half_open" /\ Open
    \/ state # "half_open" /\ UNCHANGED breakerVars

\* The metrics a closed breaker opens on.
Unhealthy(metrics) ==
    /\ metrics.requests >= MinRequests
    /\ metrics.errors * ThresholdDen >= metrics.requests * ThresholdNum

\* Mutant: one request too many is asked for.
CheckMetricsAbove(metrics) ==
    IF state = "closed" /\ Unhealthy(metrics) /\ metrics.requests > MinRequests
    THEN Open ELSE UNCHANGED breakerVars

CheckMetrics(metrics) ==
    \/ state = "closed" /\ Unhealthy(metrics) /\ Open
    \/ ~(state = "closed" /\ Unhealthy(metrics)) /\ UNCHANGED breakerVars

TypeOK ==
    /\ state \in CircuitState
    /\ openedAt \in 0 .. clock
    /\ halfOpenSuccesses \in 0 .. HalfOpenMaxReqs - 1
=============================================================================
