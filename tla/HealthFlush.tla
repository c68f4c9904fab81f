---------------------------- MODULE HealthFlush ----------------------------
(***************************************************************************)
(* Hourly health rows: backend/src/model/channel_health.go.  Every node    *)
(* counts requests and disables in a cache behind a lock; its flusher      *)
(* swaps the cache for an empty one under the lock and then merges what it *)
(* took into the table, one query at a time and with no transaction.       *)
(*                                                                         *)
(* Left out: channel names and types, timeout_count, which is counted like *)
(* error_count, and avg_latency_ms and error_rate, which every write       *)
(* derives from the counts.                                                *)
(***************************************************************************)
EXTENDS Integers, FiniteSets, FiniteSetsExt, Functions

CONSTANTS
    Node,           \* the processes that serve requests
    Channel,
    Latency,        \* the latencies a request may have
    MaxRecords,     \* bound: requests and disables recorded in all
    MaxHour,        \* bound on the clock
    Retention,      \* hours a row is kept: 30 days
    CleanupEvery,   \* flushes between two cleanups: 60 / intervalMinutes
    BatchSize,      \* rows a cleanup deletes at most: 1000
    MaxFailures,    \* bound on failed queries
    MaxCrashes      \* bound on crashes

ASSUME FlushAssumption ==
    /\ IsFiniteSet(Node)
    /\ Latency \subseteq Nat
    /\ {MaxRecords, MaxHour, MaxFailures, MaxCrashes} \subseteq Nat
    /\ {Retention, CleanupEvery, BatchSize} \subseteq Nat \ {0}

VARIABLES
    cache,      \* healthCache of each node: a snapshot for some channels
    flusher,    \* the flusher of each node
    table,      \* channel_healths: a row for each id in use
    hour,       \* the clock, in hours
    recorded,   \* history: what was recorded of each channel so far
    lost,       \* history: what failed writes and crashes took of it
    stale,      \* history: a row was written that had changed since it was read
    expired,    \* history: rows deleted by a cleanup
    failures,
    crashes

vars == <<cache, flusher, table, hour, recorded, lost, stale, expired, failures, crashes>>
history == <<recorded, lost, stale, expired>>
faults == <<failures, crashes>>

Nothing == [requests |-> 0, errors |-> 0, successes |-> 0, disables |-> 0,
            total |-> 0, max |-> 0, min |-> 0]

Counter == {"requests", "errors", "successes", "disables", "total"}

Empty == [c \in {} |-> Nothing]

\* A row and an id that stand for "record not found".
NoRow == [id |-> 0]

Init ==
    /\ cache = [n \in Node |-> Empty]
    /\ flusher = [n \in Node |-> [pc |-> "sleep", work |-> Empty, hour |-> 0,
                                  channel |-> CHOOSE c \in Channel : TRUE,
                                  found |-> NoRow, flushes |-> 0]]
    /\ table = [id \in {} |-> Nothing]
    /\ hour = 0
    /\ recorded = [c \in Channel |-> [requests |-> 0, errors |-> 0, successes |-> 0,
                                      disables |-> 0, total |-> 0, latencies |-> {}]]
    /\ lost = [c \in Channel |-> [k \in Counter |-> 0]]
    /\ stale = FALSE
    /\ expired = {}
    /\ failures = 0
    /\ crashes = 0

-----------------------------------------------------------------------------
(* Recording.                                                              *)

\* Mutant: 0 is taken for a latency.
LowerOfBoth(old, new) == IF new < old THEN new ELSE old

\* A minimum of 0 stands for "none yet".
LowerOf(old, new) == IF new < old \/ old = 0 THEN new ELSE old

\* A snapshot after one more request.
Counted(snap, latency, isError) ==
    [snap EXCEPT !.requests = @ + 1,
                 !.total = @ + latency,
                 !.max = Max({@, latency}),
                 !.min = LowerOf(@, latency),
                 !.errors = IF isError THEN @ + 1 ELSE @,
                 !.successes = IF isError THEN @ ELSE @ + 1]

\* The snapshot of a channel, new when the cache has none; a new one starts with the
\* latency of its first request as its minimum, which Counted then leaves.
SnapshotOf(n, c) == IF c \in DOMAIN cache[n] THEN cache[n][c] ELSE Nothing

Set(f, x, y) == [z \in DOMAIN f \cup {x} |-> IF z = x THEN y ELSE f[z]]

Records ==
    SumFunctionOnSet([c \in Channel |-> recorded[c].requests + recorded[c].disables], Channel)

RecordChannelRequest(n, c, latency, isError) ==
    /\ Records < MaxRecords
    /\ cache' = [cache EXCEPT ![n] = Set(@, c, Counted(SnapshotOf(n, c), latency, isError))]
    /\ recorded' = [recorded EXCEPT
            ![c].requests = @ + 1,
            ![c].total = @ + latency,
            ![c].errors = @ + (IF isError THEN 1 ELSE 0),
            ![c].successes = @ + (IF isError THEN 0 ELSE 1),
            ![c].latencies = @ \cup {latency}]
    /\ UNCHANGED <<flusher, table, hour, lost, stale, expired, faults>>

\* A disable with no request before it makes a snapshot of its own.
RecordChannelDisable(n, c) ==
    /\ Records < MaxRecords
    /\ cache' = [cache EXCEPT ![n] = Set(@, c, [SnapshotOf(n, c) EXCEPT !.disables = @ + 1])]
    /\ recorded' = [recorded EXCEPT ![c].disables = @ + 1]
    /\ UNCHANGED <<flusher, table, hour, lost, stale, expired, faults>>

-----------------------------------------------------------------------------
(* The flusher of a node.                                                  *)

\* Mutant: the ticker is not reset when a cleanup is due.
FlushedKeepsTicker(f) ==
    [f EXCEPT !.pc = IF f.flushes + 1 >= CleanupEvery THEN "cleanup" ELSE "sleep",
              !.flushes = @ + 1]

\* Where RunHealthDataFlusher goes after a flush.
Flushed(f) ==
    IF f.flushes + 1 >= CleanupEvery
    THEN [f EXCEPT !.pc = "cleanup", !.flushes = 0]
    ELSE [f EXCEPT !.pc = "sleep", !.flushes = @ + 1]

\* Mutant: the cache is flushed but not replaced.
TakeCacheLeavesIt(n) ==
    /\ flusher[n].pc = "sleep"
    /\ flusher' = [flusher EXCEPT ![n] =
                    IF cache[n] = Empty THEN Flushed(@)
                    ELSE [@ EXCEPT !.pc = "find", !.work = cache[n], !.hour = hour]]
    /\ UNCHANGED <<cache, table, hour, history, faults>>

\* The flusher wakes up, takes the cache and reads the clock.
TakeCache(n) ==
    /\ flusher[n].pc = "sleep"
    /\ cache' = [cache EXCEPT ![n] = Empty]
    /\ flusher' = [flusher EXCEPT ![n] =
                    IF cache[n] = Empty THEN Flushed(@)
                    ELSE [@ EXCEPT !.pc = "find", !.work = cache[n], !.hour = hour]]
    /\ UNCHANGED <<table, hour, history, faults>>

\* Mutant: the row is looked up by the time, not by the start of its hour.
FirstRowOfInstant(c, h) ==
    LET ids == {id \in DOMAIN table : table[id].channel = c /\ table[id].hour = h + 1}
    IN  IF ids = {} THEN NoRow ELSE [id |-> Min(ids), row |-> table[Min(ids)]]

\* First() takes the row with the lowest id.
FirstRow(c, h) ==
    LET ids == {id \in DOMAIN table : table[id].channel = c /\ table[id].hour = h}
    IN  IF ids = {} THEN NoRow ELSE [id |-> Min(ids), row |-> table[Min(ids)]]

\* The query for the row to merge into; a failed query finds nothing.
Find(n) ==
    /\ flusher[n].pc = "find"
    /\ \E c \in DOMAIN flusher[n].work :
        \/ /\ flusher' = [flusher EXCEPT ![n] =
                [@ EXCEPT !.pc = "write", !.channel = c, !.found = FirstRow(c, flusher[n].hour)]]
           /\ UNCHANGED failures
        \/ /\ failures < MaxFailures
           /\ failures' = failures + 1
           /\ flusher' = [flusher EXCEPT ![n] = [@ EXCEPT !.pc = "write", !.channel = c]]
    /\ UNCHANGED <<cache, table, hour, history, crashes>>

\* A row with a snapshot merged into it.
Merged(row, snap) ==
    [row EXCEPT !.requests = @ + snap.requests,
                !.errors = @ + snap.errors,
                !.successes = @ + snap.successes,
                !.disables = @ + snap.disables,
                !.total = @ + snap.total,
                !.max = Max({@, snap.max}),
                !.min = LowerOf(@, snap.min)]

NextId == 1 + Max({0} \cup DOMAIN table \cup {e.id : e \in expired})

EmptyRow(c, h) ==
    [channel |-> c, hour |-> h, requests |-> 0, errors |-> 0, successes |-> 0, disables |-> 0,
     total |-> 0, max |-> 0, min |-> 0]

\* The update writes what was read plus the snapshot, where the row still is; the insert writes
\* the snapshot.
Stored(f) ==
    LET snap == f.work[f.channel]
    IN  IF f.found = NoRow
        THEN Set(table, NextId, Merged(EmptyRow(f.channel, f.hour), snap))
        ELSE IF f.found.id \in DOMAIN table
             THEN [table EXCEPT ![f.found.id] = Merged(f.found.row, snap)]
             ELSE table

\* The row that was read is no longer there as it was.
Stale(f) ==
    /\ f.found # NoRow
    /\ ~(f.found.id \in DOMAIN table /\ table[f.found.id] = f.found.row)

Plus(counts, snap) == [k \in Counter |-> counts[k] + snap[k]]

\* The update or the insert, whose error nobody looks at.
Write(n) ==
    LET f == flusher[n]
        rest == Restrict(f.work, DOMAIN f.work \ {f.channel})
        done == [f EXCEPT !.pc = "find", !.work = rest, !.found = NoRow]
    IN  /\ f.pc = "write"
        /\ \/ /\ table' = Stored(f)
              /\ stale' = (stale \/ Stale(f))
              /\ UNCHANGED <<lost, failures>>
           \/ /\ failures < MaxFailures
              /\ failures' = failures + 1
              /\ lost' = [lost EXCEPT ![f.channel] = Plus(@, f.work[f.channel])]
              /\ UNCHANGED <<table, stale>>
        /\ flusher' = [flusher EXCEPT ![n] = IF rest = Empty THEN Flushed(done) ELSE done]
        /\ UNCHANGED <<cache, hour, recorded, expired, crashes>>

\* Mutant: the cutoff is an hour late.
CleanupTooSoon(n) ==
    LET old == {id \in DOMAIN table : table[id].hour < hour - Retention + 2}
    IN  /\ flusher[n].pc = "cleanup"
        /\ flusher' = [flusher EXCEPT ![n].pc = "sleep"]
        /\ \E gone \in kSubset(Min({BatchSize, Cardinality(old)}), old) :
            /\ table' = Restrict(table, DOMAIN table \ gone)
            /\ expired' = expired \cup {[id |-> id, row |-> table[id]] : id \in gone}
        /\ UNCHANGED <<cache, hour, recorded, lost, stale, faults>>

\* DeleteOldChannelHealth: at most a batch of the rows past their retention.  A row is
\* dated at the start of its hour and the cutoff lies within an hour.
Cleanup(n) ==
    LET old == {id \in DOMAIN table : table[id].hour <= hour - Retention}
    IN  /\ flusher[n].pc = "cleanup"
        /\ flusher' = [flusher EXCEPT ![n].pc = "sleep"]
        /\ \/ /\ \E gone \in kSubset(Min({BatchSize, Cardinality(old)}), old) :
                    /\ table' = Restrict(table, DOMAIN table \ gone)
                    /\ expired' = expired \cup {[id |-> id, row |-> table[id]] : id \in gone}
              /\ UNCHANGED failures
           \/ /\ failures < MaxFailures
              /\ failures' = failures + 1
              /\ UNCHANGED <<table, expired>>
        /\ UNCHANGED <<cache, hour, recorded, lost, stale, crashes>>

CountIn(snapshots, c, k) == IF c \in DOMAIN snapshots THEN snapshots[c][k] ELSE 0

\* What a node holds of a channel, in its cache or in its flusher's hands.
Held(n, c, k) == CountIn(cache[n], c, k) + CountIn(flusher[n].work, c, k)

\* A process ends and another starts with empty memory.
Crash(n) ==
    /\ crashes < MaxCrashes
    /\ crashes' = crashes + 1
    /\ cache' = [cache EXCEPT ![n] = Empty]
    /\ flusher' = [flusher EXCEPT ![n] =
                    [@ EXCEPT !.pc = "sleep", !.work = Empty, !.found = NoRow, !.flushes = 0]]
    /\ lost' = [c \in Channel |-> Plus(lost[c], [k \in Counter |-> Held(n, c, k)])]
    /\ UNCHANGED <<table, hour, recorded, stale, expired, failures>>

HourPasses ==
    /\ hour < MaxHour
    /\ hour' = hour + 1
    /\ UNCHANGED <<cache, flusher, table, history, faults>>

Next ==
    \/ \E n \in Node :
        \/ \E c \in Channel :
            \/ \E latency \in Latency, isError \in BOOLEAN :
                RecordChannelRequest(n, c, latency, isError)
            \/ RecordChannelDisable(n, c)
        \/ TakeCache(n)
        \/ Find(n)
        \/ Write(n)
        \/ Cleanup(n)
        \/ Crash(n)
    \/ HourPasses

Spec == Init /\ [][Next]_vars

-----------------------------------------------------------------------------
(* Properties.                                                             *)

Snapshot == [requests : Nat, errors : Nat, successes : Nat, disables : Nat,
             total : Nat, max : Nat, min : Nat]

TypeOK ==
    /\ \A n \in Node :
        /\ DOMAIN cache[n] \subseteq Channel
        /\ \A c \in DOMAIN cache[n] : cache[n][c] \in Snapshot
        /\ flusher[n].pc \in {"sleep", "find", "write", "cleanup"}
        /\ flusher[n].pc = "find" => flusher[n].work # Empty
        /\ flusher[n].pc = "write" => flusher[n].channel \in DOMAIN flusher[n].work
        /\ flusher[n].flushes < CleanupEvery
    /\ \A id \in DOMAIN table :
        table[id].channel \in Channel /\ table[id].hour \in 0..hour

\* What a row holds of a counter of a channel.
Share(row, c, k) == IF row.channel = c THEN row[k] ELSE 0

InTable(c, k) == SumFunctionOnSet([id \in DOMAIN table |-> Share(table[id], c, k)], DOMAIN table)
InExpired(c, k) == SumFunctionOnSet([e \in expired |-> Share(e.row, c, k)], expired)
InMemory(c, k) == SumFunctionOnSet([n \in Node |-> Held(n, c, k)], Node)

Accounted(c, k) == InTable(c, k) + InExpired(c, k) + InMemory(c, k) + lost[c][k]

\* Whatever fails, and with any nodes at work on the same rows, no request or disable is
\* counted twice among the caches, the flushers' hands, the rows and what failed writes
\* and crashes took; and each one is counted, unless a row changed between its reading and
\* its writing.
CountedOnce ==
    \A c \in Channel, k \in Counter :
        /\ Accounted(c, k) <= recorded[c][k]
        /\ ~stale => Accounted(c, k) = recorded[c][k]

Snapshots(c) ==
    {cache[n][c] : n \in {m \in Node : c \in DOMAIN cache[m]}}
    \cup {flusher[n].work[c] : n \in {m \in Node : c \in DOMAIN flusher[m].work}}

Kept(c) ==
    {table[id] : id \in {i \in DOMAIN table : table[i].channel = c}}
    \cup {e.row : e \in {x \in expired : x.row.channel = c}}

\* The extreme latencies survive every merge, where nothing was lost: the greatest always,
\* the least unless a disable was flushed with no request, whose 0 then stands for "none
\* yet" and takes the place of the row's minimum, or a request took 0 ms, which is taken for
\* "none yet" too.
ExtremesSurvive ==
    \A c \in Channel :
        LET all == Snapshots(c) \cup Kept(c)
            latencies == recorded[c].latencies
        IN  ~stale /\ lost[c].requests = 0 =>
            /\ Max({0} \cup latencies) = Max({0} \cup {s.max : s \in all})
            /\ recorded[c].disables = 0 /\ recorded[c].requests > 0 /\ 0 \notin latencies =>
                Min(latencies) = Min({s.min : s \in all})

\* An hour of a channel has at most a row for every node that looked for it at the same
\* time and for every query that failed: one, on one node whose queries succeed.  The
\* summaries sum over rows, and a merge finds the first one only.
RowsBounded ==
    \A i \in DOMAIN table :
        Cardinality({j \in DOMAIN table : /\ table[j].channel = table[i].channel
                                          /\ table[j].hour = table[i].hour})
            <= Cardinality(Node) + failures

\* A cleanup takes no row still within its retention, and no other step takes any row.
RecentRowsStay ==
    [][\A id \in DOMAIN table :
        id \notin DOMAIN table' =>
            /\ table[id].hour + Retention <= hour
            /\ \E n \in Node : flusher[n].pc = "cleanup"]_vars
=============================================================================
