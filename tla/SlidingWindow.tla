--------------------------- MODULE SlidingWindow ---------------------------
(***************************************************************************)
(* The ring of request counters a relay channel keeps: SlidingWindow of    *)
(* backend/custom/monitor/health.go.                                       *)
(*                                                                         *)
(* The code indexes the ring by `current` and clears the bucket it moves   *)
(* to.  Nothing reads an index, so a bucket is named here by its age: 0 is *)
(* the bucket being written, d the one that was current d moves ago.       *)
(* Latencies feed the health score only and are left out.                  *)
(***************************************************************************)
EXTENDS Integers, Functions

CONSTANTS
    BucketCount,     \* buckets in the ring (10 in the code)
    BucketDuration,  \* clock units per bucket (30s in the code)
    MaxClock,        \* bound: the clock stops here
    MaxPerBucket     \* bound: requests counted by one bucket

ASSUME WindowAssumption ==
    /\ BucketCount \in Nat \ {0}
    /\ BucketDuration \in Nat \ {0}
    /\ MaxClock \in Nat
    /\ MaxPerBucket \in Nat

VARIABLES
    clock,      \* time.Now()
    buckets,    \* buckets[d]: what the bucket of age d has counted
    lastTick    \* the time of the last move

windowVars == <<buckets, lastTick>>
vars == <<clock, buckets, lastTick>>

Age == 0 .. BucketCount - 1

\* What the relay reports of a request: relay.go passes isTimeout only with isError.
Outcome == {"ok", "error", "timeout"}
Failed(outcome) == outcome # "ok"

\* `first` and `last` are history: the times of a bucket's oldest and newest entries.
Bucket == [requests : Nat, errors : Nat, timeouts : Nat, first : Nat, last : Nat]
EmptyBucket == [requests |-> 0, errors |-> 0, timeouts |-> 0, first |-> 0, last |-> 0]

Init ==
    /\ clock = 0
    /\ buckets = [d \in Age |-> EmptyBucket]
    /\ lastTick = clock

-----------------------------------------------------------------------------

\* Whole bucket durations since the last move.
Ticks == (clock - lastTick) \div BucketDuration

\* Mutant: the bucket in use is cleared by every move.
AdvancedPastCurrent ==
    [d \in Age |-> IF d <= Ticks THEN EmptyBucket ELSE buckets[d - Ticks]]

\* Mutant: however long ago the last move was, the ring moves by one bucket.
AdvancedByOne ==
    [d \in Age |-> IF Ticks = 0 THEN buckets[d]
                   ELSE IF d = 0 THEN EmptyBucket ELSE buckets[d - 1]]

\* The ring after advance(): every bucket ages by Ticks, and those that reach
\* BucketCount are cleared.
Advanced ==
    [d \in Age |-> IF d < Ticks THEN EmptyBucket ELSE buckets[d - Ticks]]

\* Mutant: lastTick is rounded up to the end of the bucket.
AdvancedTickRoundedUp ==
    IF Ticks > 0 THEN lastTick + (Ticks + 1) * BucketDuration ELSE lastTick

\* advance() sets lastTick to now, not to the end of the last whole bucket.
AdvancedTick == IF Ticks > 0 THEN clock ELSE lastTick

One(condition) == IF condition THEN 1 ELSE 0

Counted(b, outcome) ==
    [requests |-> b.requests + 1,
     errors   |-> b.errors + One(Failed(outcome)),
     timeouts |-> b.timeouts + One(outcome = "timeout"),
     first    |-> IF b.requests = 0 THEN clock ELSE b.first,
     last     |-> clock]

Record(outcome) ==
    /\ Advanced[0].requests < MaxPerBucket
    /\ buckets' = [Advanced EXCEPT ![0] = Counted(Advanced[0], outcome)]
    /\ lastTick' = AdvancedTick

\* The buckets of a ring that have counted something.
UsedIn(ring) == {d \in Age : ring[d].requests > 0}

\* The sums over a ring's buckets; the unused ones add nothing.
Requests(ring) == SumFunctionOnSet([d \in Age |-> ring[d].requests], UsedIn(ring))
Errors(ring) == SumFunctionOnSet([d \in Age |-> ring[d].errors], UsedIn(ring))
Timeouts(ring) == SumFunctionOnSet([d \in Age |-> ring[d].timeouts], UsedIn(ring))

MetricsOf(ring) ==
    [requests |-> Requests(ring), errors |-> Errors(ring), timeouts |-> Timeouts(ring)]

\* GetMetrics() sums the buckets as they stand: it never advances the ring.
GetMetrics == MetricsOf(buckets)

Tick ==
    /\ clock < MaxClock
    /\ clock' = clock + 1
    /\ UNCHANGED windowVars

Next ==
    \/ Tick
    \/ \E outcome \in Outcome : Record(outcome) /\ UNCHANGED clock

Spec == Init /\ [][Next]_vars

-----------------------------------------------------------------------------

TypeOK ==
    /\ clock \in Nat
    /\ buckets \in [Age -> Bucket]
    /\ lastTick \in 0 .. clock

Used == UsedIn(buckets)

\* No entry is kept much past the window: when a request is recorded, every entry
\* then counted is younger than twice the ring's length less one bucket.  The slack
\* over BucketCount * BucketDuration ("始终保持最近 N 分钟的数据", the design says in
\* docs/architecture/T-008-provider-health-check-design.md) is what advance() loses by
\* restarting lastTick at now.
KeepsNothingOlder ==
    [][buckets' # buckets =>
        \A d \in Used' :
            clock - buckets'[d].first < 2 * (BucketCount * BucketDuration) - BucketDuration]_vars

\* The newest entry of bucket d is in no bucket after the step.
Dropped(d) ==
    \A e \in Used' : ~ buckets[d].last \in buckets'[e].first .. buckets'[e].last

\* No entry is dropped early: a bucket that recording a request throws away holds
\* only entries older than all the ring's buckets but one.
ForgetsNothingRecent ==
    [][\A d \in Used :
        Dropped(d) => clock - buckets[d].last > (BucketCount - 1) * BucketDuration]_vars

\* The bounds of both properties, bucket by bucket: the inductive invariant.
BucketSpans ==
    \A d \in Used :
        /\ lastTick - buckets[d].first <= 2 * (d * BucketDuration)
        /\ d = 0 => buckets[d].last < lastTick + BucketDuration
        /\ d > 0 => lastTick - buckets[d].last > (d - 1) * BucketDuration
        /\ buckets[d].first <= buckets[d].last
        /\ buckets[d].last <= clock
=============================================================================
