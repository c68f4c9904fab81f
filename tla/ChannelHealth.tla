--------------------------- MODULE ChannelHealth ---------------------------
(***************************************************************************)
(* The health of one relay channel: its window and its breaker, fed by     *)
(* concurrent calls of RecordRequestHealth                                 *)
(* (backend/custom/monitor/health.go).  A call takes the window's lock and *)
(* the breaker's lock twice each, one after the other and never together,  *)
(* so calls of different relay requests interleave between its four steps. *)
(***************************************************************************)
EXTENDS Integers

CONSTANTS
    Caller,                          \* relay goroutines that report on the channel
    BucketCount, BucketDuration,
    OpenDuration, HalfOpenMaxReqs, MinRequests, ThresholdNum, ThresholdDen,
    MaxClock, MaxPerBucket           \* bounds

VARIABLES
    clock, buckets, lastTick,                \* the window
    state, openedAt, halfOpenSuccesses,      \* the breaker
    call,                                    \* where each caller stands
    freshFailure     \* history: a failure was recorded since the breaker last closed

Window == INSTANCE SlidingWindow
Circuit == INSTANCE CircuitBreaker

windowVars == <<buckets, lastTick>>
breakerVars == <<state, openedAt, halfOpenSuccesses>>
vars == <<clock, buckets, lastTick, state, openedAt, halfOpenSuccesses, call, freshFailure>>

ASSUME HealthAssumption == Window!WindowAssumption /\ Circuit!BreakerAssumption

NoMetrics == [requests |-> 0, errors |-> 0, timeouts |-> 0]
Idle == [pc |-> "idle", outcome |-> "ok", metrics |-> NoMetrics]

Init ==
    /\ Window!Init
    /\ Circuit!Init
    /\ call = [c \in Caller |-> Idle]
    /\ freshFailure = FALSE

-----------------------------------------------------------------------------
(* RecordRequestHealth, step by step.                                      *)

\* h.window.Record(...)
RecordInWindow(c, outcome) ==
    /\ call[c].pc = "idle"
    /\ Window!Record(outcome)
    /\ call' = [call EXCEPT ![c] = [Idle EXCEPT !.pc = "tell", !.outcome = outcome]]
    /\ freshFailure' = (freshFailure \/ Window!Failed(outcome))
    /\ UNCHANGED <<clock, breakerVars>>

\* h.circuit.RecordFailure() or h.circuit.RecordSuccess()
TellCircuit(c) ==
    /\ call[c].pc = "tell"
    /\ \/ Window!Failed(call[c].outcome) /\ Circuit!RecordFailure
       \/ ~Window!Failed(call[c].outcome) /\ Circuit!RecordSuccess
    /\ call' = [call EXCEPT ![c] = [Idle EXCEPT !.pc = "read"]]
    /\ freshFailure' = (freshFailure /\ ~(state # "closed" /\ state' = "closed"))
    /\ UNCHANGED <<clock, windowVars>>

\* metrics := h.window.GetMetrics()
ReadMetrics(c) ==
    /\ call[c].pc = "read"
    /\ call' = [call EXCEPT ![c] = [Idle EXCEPT !.pc = "check",
                                                !.metrics = Window!GetMetrics]]
    /\ UNCHANGED <<clock, windowVars, breakerVars, freshFailure>>

\* h.circuit.CheckMetrics(metrics): the metrics may be older than the breaker's state.
CheckCircuit(c) ==
    /\ call[c].pc = "check"
    /\ Circuit!CheckMetrics(call[c].metrics)
    /\ call' = [call EXCEPT ![c] = Idle]
    /\ UNCHANGED <<clock, windowVars, freshFailure>>

Tick ==
    /\ Window!Tick
    /\ UNCHANGED <<breakerVars, call, freshFailure>>

Next ==
    \/ Tick
    \/ \E c \in Caller :
        \/ \E outcome \in Window!Outcome : RecordInWindow(c, outcome)
        \/ TellCircuit(c)
        \/ ReadMetrics(c)
        \/ CheckCircuit(c)

Spec == Init /\ [][Next]_vars

-----------------------------------------------------------------------------
(* Properties.                                                             *)

Metrics == [requests : Nat, errors : Nat, timeouts : Nat]

TypeOK ==
    /\ Window!TypeOK
    /\ Circuit!TypeOK
    /\ call \in [Caller -> [pc : {"idle", "tell", "read", "check"},
                            outcome : Window!Outcome,
                            metrics : Metrics]]
    /\ freshFailure \in BOOLEAN

\* The caller c will yet look at the window, or has seen it unhealthy.
WillOpen(c) ==
    \/ call[c].pc \in {"tell", "read"}
    \/ call[c].pc = "check" /\ Circuit!Unhealthy(call[c].metrics)

\* However the steps of concurrent calls interleave, none of them loses the evidence:
\* a breaker that is closed over an unhealthy window has a call in progress that will
\* see it.
UnhealthyIsNoticed ==
    state = "closed" /\ Circuit!Unhealthy(Window!GetMetrics) => \E c \in Caller : WillOpen(c)

\* So when no call is in progress, a closed breaker has a healthy window.
QuietClosedIsHealthy ==
    (\A c \in Caller : call[c].pc = "idle") /\ state = "closed" =>
        ~Circuit!Unhealthy(Window!GetMetrics)

\* The reported state moves as the design's machine does: half-open only after the
\* breaker was open for OpenDuration, closed only by HalfOpenMaxReqs probes in a row.
Reported == INSTANCE BreakerSpec WITH
    Probes <- HalfOpenMaxReqs, level <- Circuit!GetState,
    since <- openedAt, passed <- halfOpenSuccesses

ImplementsBreakerSpec == Reported!Spec

\* health.go says of RecordFailure "any failure in half-open -> open again", and the
\* design that a failed probe restarts the open time: a failure reported to a half-open
\* breaker leaves it open.
FailedProbeReopens ==
    [][\A c \in Caller :
        call[c].pc = "tell" /\ Window!Failed(call[c].outcome) /\ call'[c] # call[c]
            /\ Circuit!GetState = "half_open" => Circuit!GetState' = "open"]_vars

\* The design closes a breaker when its probes succeed, "HalfOpen guarantees a path to
\* recovery": a breaker does not leave closed again unless something fails in between.
RecoveryNeedsNewFailureToUndo ==
    [][state = "closed" /\ state' = "open" => freshFailure]_vars
=============================================================================
