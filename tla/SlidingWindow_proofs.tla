----------------------- MODULE SlidingWindow_proofs -----------------------
(***************************************************************************)
(* What the window keeps and what it forgets, for every number of buckets, *)
(* bucket duration and bound.                                              *)
(***************************************************************************)
EXTENDS SlidingWindow, TLAPS

\* advance() counts the whole bucket durations gone by: it is never wrong by a bucket.
LEMMA TicksBounds ==
  ASSUME TypeOK
  PROVE  /\ Ticks \in Nat
         /\ Ticks * BucketDuration <= clock - lastTick
         /\ clock - lastTick < Ticks * BucketDuration + BucketDuration
  <1>1. clock - lastTick \in Nat
    BY DEF TypeOK
  <1>2. BucketDuration \in Nat \ {0}
    BY WindowAssumption
  <1>3. ASSUME NEW n \in Nat, NEW b \in Nat \ {0}
        PROVE  /\ n \div b \in Nat
               /\ (n \div b) * b <= n
               /\ n < (n \div b) * b + b
    OBVIOUS
  <1>4. QED BY <1>1, <1>2, <1>3 DEF Ticks

\* The products of the bounds, where the prover needs them.
LEMMA BucketSums ==
  ASSUME NEW d \in Nat, NEW k \in Nat, NEW e \in Nat, e = d + k, NEW b \in Nat
  PROVE  /\ d * b \in Nat /\ k * b \in Nat
         /\ e * b = d * b + k * b
         /\ (e - 1) * b = d * b + k * b - b
         /\ (d - 1) * b = d * b - b
         /\ k > 0 => b <= k * b
  <1>1. d * b \in Nat /\ k * b \in Nat
    OBVIOUS
  <1>2. e * b = d * b + k * b
    OBVIOUS
  <1>3. (e - 1) * b = d * b + k * b - b
    OBVIOUS
  <1>4. (d - 1) * b = d * b - b
    OBVIOUS
  <1>5. CASE k > 0
    <2>1. (k - 1) * b \in Nat
      BY <1>5
    <2>2. k * b = (k - 1) * b + b
      OBVIOUS
    <2>3. QED BY <1>1, <1>2, <1>3, <1>4, <2>1, <2>2
  <1>6. QED BY <1>1, <1>2, <1>3, <1>4, <1>5

\* Recording a request and letting time pass keep the variables in their types.
LEMMA TypeStep == TypeOK /\ [Next]_vars => TypeOK'
  <1> SUFFICES ASSUME TypeOK, [Next]_vars
               PROVE  TypeOK'
    OBVIOUS
  <1>1. CASE Tick
    BY <1>1 DEF Tick, windowVars, TypeOK
  <1>2. ASSUME NEW outcome \in Outcome, Record(outcome), UNCHANGED clock
        PROVE  TypeOK'
    <2>1. 0 \in Age /\ EmptyBucket \in Bucket
      BY WindowAssumption DEF Age, EmptyBucket, Bucket
    <2>2. Ticks \in Nat
      BY TicksBounds
    <2>3. \A d \in Age : /\ d < Ticks \/ d >= Ticks
                         /\ d >= Ticks => d - Ticks \in Age
      BY <2>2, WindowAssumption DEF Age
    <2>4. Advanced \in [Age -> Bucket]
      BY <2>1, <2>3 DEF Advanced, TypeOK
    <2>5. Counted(Advanced[0], outcome) \in Bucket
      BY <2>1, <2>4 DEF Counted, One, Bucket, TypeOK
    <2>6. buckets' \in [Age -> Bucket]
      BY <1>2, <2>1, <2>4, <2>5 DEF Record
    <2>7. lastTick' \in 0 .. clock'
      BY <1>2 DEF Record, AdvancedTick, TypeOK
    <2>8. QED BY <1>2, <2>6, <2>7 DEF TypeOK
  <1>3. CASE UNCHANGED vars
    BY <1>3 DEF vars, TypeOK
  <1>4. QED BY <1>1, <1>2, <1>3 DEF Next

\* The variables keep their types (SlidingWindow of health.go).
THEOREM TypeCorrect == Spec => []TypeOK
  <1>1. Init => TypeOK
    BY WindowAssumption DEF Init, TypeOK, Bucket, EmptyBucket
  <1>2. QED BY <1>1, TypeStep, PTL DEF Spec

-----------------------------------------------------------------------------

\* A bucket of age e after advance() is empty or is the bucket that had age
\* e - Ticks, and recording adds to the first of them.
LEMMA AfterRecord ==
  ASSUME TypeOK, NEW outcome \in Outcome, Record(outcome), NEW e \in Age,
         buckets'[e].requests > 0
  PROVE  \/ /\ e = 0
            /\ buckets'[e].first = clock
            /\ buckets'[e].last = clock
         \/ /\ e - Ticks \in Used
            /\ buckets'[e].first = buckets[e - Ticks].first
            /\ buckets'[e].last = IF e = 0 THEN clock ELSE buckets[e - Ticks].last
  <1>1. Ticks \in Nat
    BY TicksBounds
  <1>2. Advanced[e] = IF e < Ticks THEN EmptyBucket ELSE buckets[e - Ticks]
    BY DEF Advanced
  <1>3. 0 \in Age
    BY WindowAssumption DEF Age
  <1>4. buckets'[e] = IF e = 0 THEN Counted(Advanced[e], outcome) ELSE Advanced[e]
    BY <1>3 DEF Record, Advanced
  <1>5. CASE e < Ticks
    BY <1>2, <1>4, <1>5 DEF EmptyBucket, Counted
  <1>6. CASE ~(e < Ticks)
    <2>1. e - Ticks \in Age
      BY <1>1, <1>6, WindowAssumption DEF Age
    <2>2. buckets[e - Ticks].requests \in Nat
      BY <2>1 DEF TypeOK, Bucket
    <2>3. CASE buckets[e - Ticks].requests = 0
      BY <1>2, <1>4, <1>6, <2>3 DEF Counted
    <2>4. CASE buckets[e - Ticks].requests > 0
      BY <1>2, <1>4, <1>6, <2>1, <2>4 DEF Counted, Used, UsedIn
    <2>5. QED BY <2>2, <2>3, <2>4
  <1>7. QED BY <1>5, <1>6


\* Where a move leaves the times of a used bucket.
LEMMA SpansMove ==
  ASSUME TypeOK, BucketSpans, Ticks > 0, NEW e \in Nat, e - Ticks \in Used
  PROVE  /\ clock - buckets[e - Ticks].first <= 2 * (e * BucketDuration)
         /\ clock - buckets[e - Ticks].last > (e - 1) * BucketDuration
  <1> DEFINE b == BucketDuration
             k == Ticks
             d == e - Ticks
  <1>1. k \in Nat
    BY TicksBounds
  <1>2. /\ b \in Nat /\ d \in Nat /\ clock \in Int /\ lastTick \in Int
        /\ buckets[d].first \in Int /\ buckets[d].last \in Int
    BY SMTT(60), WindowAssumption DEF Used, UsedIn, Age, TypeOK, Bucket
  <1>3. k * b <= clock - lastTick /\ clock - lastTick < k * b + b
    BY TicksBounds
  <1>4. e = d + k
    BY <1>1, <1>2
  <1>5. /\ d * b \in Nat /\ k * b \in Nat
        /\ e * b = d * b + k * b
        /\ (e - 1) * b = d * b + k * b - b
        /\ (d - 1) * b = d * b - b
        /\ b <= k * b
    <2> HIDE DEF b, d
    <2>1. QED BY <1>1, <1>2, <1>4, BucketSums
  <1>6. lastTick - buckets[d].first <= 2 * (d * b)
    BY DEF BucketSpans
  <1>7. /\ d = 0 => buckets[d].last < lastTick + b
        /\ d > 0 => lastTick - buckets[d].last > (d - 1) * b
    BY DEF BucketSpans
  <1>8. k * b \in Nat /\ (e - 1) * b \in Int /\ (d = 0 => d * b = 0)
    BY <1>1, <1>2
  <1> DEFINE db == d * b
             kb == k * b
             eb == (e - 1) * b
  <1> HIDE DEF k, b, d, db, kb, eb
  <1>9. /\ db \in Nat /\ kb \in Nat /\ eb = db + kb - b
        /\ kb <= clock - lastTick
        /\ d = 0 => buckets[d].last < lastTick + b /\ db = 0
        /\ d > 0 => lastTick - buckets[d].last > db - b
    BY <1>3, <1>5, <1>7, <1>8 DEF db, kb, eb
  <1>10. clock - buckets[d].first <= 2 * (e * b)
    BY <1>1, <1>2, <1>3, <1>5, <1>6
  <1>11. clock - buckets[d].last > (e - 1) * b
    <2>1. clock - buckets[d].last > eb
      BY <1>2, <1>9
    <2>2. QED BY <2>1 DEF eb
  <1>12. QED BY <1>10, <1>11 DEF k, b, d

\* Recording a request keeps the spans.
LEMMA SpansRecorded ==
  ASSUME TypeOK, BucketSpans, NEW outcome \in Outcome, Record(outcome), clock' = clock
  PROVE  BucketSpans'
  <1> SUFFICES ASSUME NEW e \in Used'
               PROVE  /\ lastTick' - buckets'[e].first <= 2 * (e * BucketDuration)
                      /\ e = 0 => buckets'[e].last < lastTick' + BucketDuration
                      /\ e > 0 => lastTick' - buckets'[e].last > (e - 1) * BucketDuration
                      /\ buckets'[e].first <= buckets'[e].last
                      /\ buckets'[e].last <= clock'
    BY DEF BucketSpans
  <1>1. /\ Ticks \in Nat /\ e \in Age /\ e \in Nat /\ BucketDuration \in Nat \ {0}
        /\ clock \in Nat /\ lastTick \in Nat /\ lastTick <= clock
        /\ buckets'[e].requests > 0
    BY TicksBounds, WindowAssumption DEF Used, UsedIn, Age, TypeOK
  <1>2. lastTick' = IF Ticks > 0 THEN clock ELSE lastTick
    BY DEF Record, AdvancedTick
  <1>3. Ticks = 0 => clock < lastTick + BucketDuration
    BY <1>1, TicksBounds
  <1>4. CASE e = 0 /\ buckets'[e].first = clock /\ buckets'[e].last = clock
    <2>1. e * BucketDuration = 0
      BY <1>1, <1>4
    <2>2. QED BY <1>1, <1>2, <1>3, <1>4, <2>1
  <1>5. CASE /\ e - Ticks \in Used
             /\ buckets'[e].first = buckets[e - Ticks].first
             /\ buckets'[e].last = IF e = 0 THEN clock ELSE buckets[e - Ticks].last
    <2>1. /\ buckets[e - Ticks].first \in Nat /\ buckets[e - Ticks].last \in Nat
          /\ buckets[e - Ticks].first <= buckets[e - Ticks].last
          /\ buckets[e - Ticks].last <= clock
      BY <1>5 DEF BucketSpans, Used, UsedIn, TypeOK, Bucket
    <2>2. CASE Ticks = 0
      <3>1. e - Ticks = e
        BY <1>1, <2>2
      <3>2. /\ lastTick - buckets[e].first <= 2 * (e * BucketDuration)
            /\ e > 0 => lastTick - buckets[e].last > (e - 1) * BucketDuration
        BY <1>5, <3>1 DEF BucketSpans
      <3>3. /\ lastTick' = lastTick /\ clock < lastTick + BucketDuration
            /\ buckets'[e].first = buckets[e].first
            /\ buckets'[e].last = IF e = 0 THEN clock ELSE buckets[e].last
            /\ buckets[e].first <= buckets[e].last
            /\ buckets[e].last <= clock
            /\ buckets[e].first \in Nat /\ buckets[e].last \in Nat
        BY <1>2, <1>3, <1>5, <2>1, <2>2, <3>1
      <3>4. CASE e = 0
        BY <1>1, <3>2, <3>3, <3>4
      <3>5. CASE e > 0
        BY <3>2, <3>3, <3>5
      <3>6. QED BY <1>1, <3>4, <3>5
    <2>3. CASE Ticks > 0
      <3>1. (e - Ticks) + Ticks = e /\ e > 0
        BY <1>1, <1>5, <2>3 DEF Used, UsedIn, Age
      <3>3. /\ clock - buckets[e - Ticks].first <= 2 * (e * BucketDuration)
            /\ clock - buckets[e - Ticks].last > (e - 1) * BucketDuration
        BY <1>1, <1>5, <2>3, SpansMove
      <3>4. QED BY <1>1, <1>2, <1>5, <2>1, <2>3, <3>1, <3>3
    <2>4. QED BY <1>1, <2>2, <2>3
  <1>6. QED BY <1>1, <1>4, <1>5, AfterRecord

\* Every step keeps the spans.
LEMMA SpansStep == TypeOK /\ BucketSpans /\ [Next]_vars => BucketSpans'
  <1> SUFFICES ASSUME TypeOK, BucketSpans, [Next]_vars
               PROVE  BucketSpans'
    OBVIOUS
  <1>1. CASE Tick
    <2>1. /\ buckets' = buckets /\ lastTick' = lastTick
          /\ clock \in Nat /\ clock' = clock + 1
      BY <1>1 DEF Tick, windowVars, TypeOK
    <2>2. \A d \in Used : buckets[d].last \in Nat
      BY DEF Used, UsedIn, TypeOK, Bucket
    <2>3. QED BY <2>1, <2>2 DEF BucketSpans, Used, UsedIn
  <1>2. ASSUME NEW outcome \in Outcome, Record(outcome), UNCHANGED clock
        PROVE  BucketSpans'
    BY <1>2, SpansRecorded
  <1>3. CASE UNCHANGED vars
    BY <1>3 DEF vars, BucketSpans, Used, UsedIn
  <1>4. QED BY <1>1, <1>2, <1>3 DEF Next

\* Every used bucket's oldest and newest entries stay within their spans.
THEOREM SpansHold == Spec => []BucketSpans
  <1>1. Init => BucketSpans
    BY DEF Init, BucketSpans, Used, UsedIn, EmptyBucket
  <1>2. QED BY <1>1, SpansStep, TypeCorrect, PTL DEF Spec

-----------------------------------------------------------------------------

\* Products grow with their first factor.
LEMMA ProductGrows ==
  ASSUME NEW m \in Int, NEW n \in Int, m <= n, NEW b \in Nat
  PROVE  m * b <= n * b
  <1>1. n - m \in Nat
    OBVIOUS
  <1>2. (n - m) * b \in Nat
    BY <1>1
  <1>3. n * b = (n - m) * b + m * b
    OBVIOUS
  <1>4. m * b \in Int /\ n * b \in Int
    OBVIOUS
  <1>5. QED BY <1>2, <1>3, <1>4

\* What a recorded request is counted with is younger than twice the ring, less a
\* bucket (advance() and Record of health.go).
THEOREM NothingOlderIsKept == Spec => KeepsNothingOlder
  <1> DEFINE Young == \A d \in Used' :
        clock - buckets'[d].first < 2 * (BucketCount * BucketDuration) - BucketDuration
  <1>1. TypeOK /\ BucketSpans /\ BucketSpans' /\ TypeOK' /\ [Next]_vars
          => [buckets' # buckets => Young]_vars
    <2> SUFFICES ASSUME TypeOK, BucketSpans', TypeOK', [Next]_vars, buckets' # buckets,
                        NEW d \in Used'
                 PROVE  clock - buckets'[d].first
                          < 2 * (BucketCount * BucketDuration) - BucketDuration
      OBVIOUS
    <2>1. PICK outcome \in Outcome : Record(outcome) /\ UNCHANGED clock
      BY DEF Next, Tick, vars, windowVars
    <2> DEFINE b == BucketDuration
    <2>2. /\ d \in Nat /\ d <= BucketCount - 1 /\ BucketCount \in Nat /\ b \in Nat \ {0}
          /\ buckets'[d].first \in Nat /\ lastTick' \in Nat /\ clock \in Nat
      BY <2>1, WindowAssumption DEF Used, UsedIn, Age, TypeOK, Bucket
    <2>3. clock - lastTick' < b
      <3>1. Ticks \in Nat /\ (Ticks = 0 => clock - lastTick < b)
        BY <2>2, TicksBounds
      <3>2. lastTick' = IF Ticks > 0 THEN clock ELSE lastTick
        BY <2>1 DEF Record, AdvancedTick
      <3>3. QED BY <2>2, <3>1, <3>2
    <2>4. lastTick' - buckets'[d].first <= 2 * (d * b)
      BY DEF BucketSpans
    <2>5. d * b <= (BucketCount - 1) * b
      BY <2>2, ProductGrows
    <2>6. (BucketCount - 1) * b = BucketCount * b - b
      BY <2>2
    <2> DEFINE db == d * b
               ring == BucketCount * b
    <2>7. db \in Nat /\ ring \in Nat
      BY <2>2
    <2>8. db <= ring - b
      BY <2>5, <2>6
    <2>9. lastTick' - buckets'[d].first <= 2 * db
      BY <2>4
    <2> DEFINE oldest == buckets'[d].first
               tick == lastTick'
    <2>10. /\ oldest \in Nat /\ tick \in Nat /\ clock \in Nat /\ b \in Nat
           /\ clock - tick < b /\ tick - oldest <= 2 * db
      BY <2>2, <2>3, <2>9
    <2> HIDE DEF b, db, ring, oldest, tick
    <2>11. clock - oldest < 2 * ring - b
      BY <2>7, <2>8, <2>10
    <2>12. QED BY <2>11 DEF ring, b, oldest
  <1>2. QED BY <1>1, TypeCorrect, SpansHold, PTL DEF Spec, KeepsNothingOlder

\* What a recorded request makes the window forget is older than all the buckets but
\* one (advance() and Record of health.go).
THEOREM NothingRecentIsForgotten == Spec => ForgetsNothingRecent
  <1> DEFINE Old == \A d \in Used :
        Dropped(d) => clock - buckets[d].last > (BucketCount - 1) * BucketDuration
  <1>1. TypeOK /\ BucketSpans /\ [Next]_vars => [Old]_vars
    <2> SUFFICES ASSUME TypeOK, BucketSpans, [Next]_vars, NEW d \in Used, Dropped(d)
                 PROVE  clock - buckets[d].last > (BucketCount - 1) * BucketDuration
      OBVIOUS
    <2>1. /\ buckets[d].first \in Nat /\ buckets[d].last \in Nat /\ clock \in Nat
          /\ buckets[d].first <= buckets[d].last /\ buckets[d].last <= clock
          /\ d \in Age /\ d \in Nat /\ d <= BucketCount - 1 /\ buckets[d].requests > 0
          /\ Ticks \in Nat /\ BucketCount \in Nat
      <3>1. Ticks \in Nat
        BY TicksBounds
      <3>2. QED BY SMTT(60), <3>1, WindowAssumption
            DEF BucketSpans, Used, UsedIn, Age, TypeOK, Bucket
    <2>2. buckets' # buckets
      BY <2>1 DEF Dropped, Used, UsedIn
    <2>3. PICK outcome \in Outcome : Record(outcome) /\ UNCHANGED clock
      BY <2>2 DEF Next, Tick, vars, windowVars
    <2> DEFINE e == d + Ticks
    <2>4. e \in Nat /\ e - Ticks = d
      BY <2>1
    <2>5. e >= BucketCount
      <3> SUFFICES ASSUME e < BucketCount
                   PROVE  FALSE
        BY <2>1, <2>4
      <3>1. e \in Age /\ ~(e < Ticks)
        BY <2>1 DEF Age
      <3>2. Advanced[e] = buckets[d]
        BY <2>4, <3>1 DEF Advanced
      <3>3. 0 \in Age
        BY WindowAssumption DEF Age
      <3>4. buckets'[e] = IF e = 0 THEN Counted(buckets[d], outcome) ELSE buckets[d]
        BY <2>3, <3>1, <3>2, <3>3 DEF Record, Advanced
      <3>5. e \in Used'
        BY <2>1, <3>1, <3>4 DEF Used, UsedIn, Counted, TypeOK, Bucket
      <3>6. /\ buckets'[e].first = buckets[d].first
            /\ buckets'[e].last = IF e = 0 THEN clock ELSE buckets[d].last
        BY <2>1, <3>4 DEF Counted
      <3>7. buckets[d].last \in buckets'[e].first .. buckets'[e].last
        <4>1. buckets[d].last \in buckets[d].first .. buckets[d].last
          BY <2>1
        <4>2. buckets[d].last \in buckets[d].first .. clock
          BY <2>1
        <4>3. QED BY <3>6, <4>1, <4>2
      <3>8. QED BY <3>5, <3>7 DEF Dropped
    <2>6. Ticks > 0
      BY <2>1, <2>5
    <2>7. clock - buckets[e - Ticks].last > (e - 1) * BucketDuration
      BY <2>4, <2>6, SpansMove
    <2>8. clock - buckets[d].last > (e - 1) * BucketDuration
      BY <2>4, <2>7
    <2>9. (BucketCount - 1) * BucketDuration <= (e - 1) * BucketDuration
      <3>1. BucketCount - 1 <= e - 1 /\ BucketCount - 1 \in Int /\ e - 1 \in Int
        BY <2>1, <2>4, <2>5
      <3> HIDE DEF e
      <3>2. QED BY <3>1, ProductGrows, WindowAssumption
    <2> DEFINE x == (e - 1) * BucketDuration
               y == (BucketCount - 1) * BucketDuration
    <2>10. x \in Int /\ y \in Int
      BY <2>1, <2>4, WindowAssumption
    <2>11. clock - buckets[d].last > x /\ y <= x
      BY <2>8, <2>9
    <2> HIDE DEF x, y
    <2>12. clock - buckets[d].last > y
      BY <2>1, <2>10, <2>11
    <2>13. QED BY <2>12 DEF y
  <1>2. QED BY <1>1, TypeCorrect, SpansHold, PTL DEF Spec, ForgetsNothingRecent

=============================================================================
