------------------------- MODULE HealthFlush_proofs -------------------------
(***************************************************************************)
(* What the health rows keep, for any nodes, channels, latencies and       *)
(* faults: rows have their types, stay for their retention and are few in  *)
(* an hour, nothing is counted twice, and the extreme latencies survive.   *)
(***************************************************************************)
EXTENDS HealthFlush, SetLemmas, TLAPS

-----------------------------------------------------------------------------
(* The invariant.                                                          *)

IsWork(w) == w \in [DOMAIN w -> Snapshot] /\ DOMAIN w \subseteq Channel

Row == [channel : Channel, hour : Nat, requests : Nat, errors : Nat, successes : Nat,
        disables : Nat, total : Nat, max : Nat, min : Nat]

\* A flusher that looks for a row has some channel left, and one that writes has its
\* channel's snapshot; neither it nor the row that it found is of an hour to come.
FlusherOK(f, now) ==
    /\ DOMAIN f = {"pc", "work", "hour", "channel", "found", "flushes"}
    /\ f.pc \in {"sleep", "find", "write", "cleanup"}
    /\ IsWork(f.work)
    /\ f.pc = "find" => f.work # Empty
    /\ f.pc = "write" => f.channel \in DOMAIN f.work
    /\ f.hour \in Nat /\ f.hour <= now
    /\ f.found # NoRow => f.found.row \in Row /\ f.found.row.hour <= now
    /\ f.flushes \in Nat /\ f.flushes < CleanupEvery

CachesInv ==
    /\ cache = [n \in Node |-> cache[n]]
    /\ \A n \in Node : IsWork(cache[n])

FlushersInv ==
    /\ flusher = [n \in Node |-> flusher[n]]
    /\ \A n \in Node : FlusherOK(flusher[n], hour)

\* Rows have ids below some bound, so that there is a lowest one and a next one.
TableInv ==
    /\ hour \in Nat
    /\ table \in [DOMAIN table -> Row]
    /\ \A id \in DOMAIN table : table[id].hour <= hour
    /\ DOMAIN table \subseteq Nat
    /\ \A e \in expired : e.id \in Nat
    /\ \E bound \in Nat : /\ \A id \in DOMAIN table : id <= bound
                          /\ \A e \in expired : e.id <= bound

FlushInv == CachesInv /\ FlushersInv /\ TableInv

LEMMA FlushInit == ASSUME FlushAssumption, Init PROVE FlushInv
<1>1. IsWork(Empty)
  BY DEF IsWork, Empty
<1>2. CachesInv
  BY <1>1 DEF Init, CachesInv
<1>3. FlushersInv
  <2> DEFINE first == CHOOSE c \in Channel : TRUE
             f == [pc |-> "sleep", work |-> Empty, hour |-> 0, channel |-> first,
                   found |-> NoRow, flushes |-> 0]
  <2>1. flusher = [n \in Node |-> f]
    BY DEF Init
  <2> HIDE DEF first
  <2>2. FlusherOK(f, hour)
    <3>1. f.found = NoRow /\ f.hour <= hour /\ f.flushes < CleanupEvery
      BY DEF Init, FlushAssumption
    <3> QED BY <1>1, <3>1 DEF FlusherOK
  <2> HIDE DEF f
  <2> QED BY <2>1, <2>2 DEF FlushersInv
<1>4. TableInv
  BY DEF Init, TableInv
<1> QED BY <1>2, <1>3, <1>4 DEF FlushInv


\* A snapshot after a request or a disable is one.
LEMMA SnapshotsGrow ==
    ASSUME NEW snap \in Snapshot, NEW latency \in Nat, NEW isError \in BOOLEAN
    PROVE  /\ Counted(snap, latency, isError) \in Snapshot
           /\ [snap EXCEPT !.disables = @ + 1] \in Snapshot
<1> DEFINE requests == snap.requests + 1
           total == snap.total + latency
           max == Max({snap.max, latency})
           min == LowerOf(snap.min, latency)
           errors == IF isError THEN snap.errors + 1 ELSE snap.errors
           successes == IF isError THEN snap.successes ELSE snap.successes + 1
<1>1. max \in Nat
  <2>1. max \in {snap.max, latency}
    BY DEF Max, Snapshot
  <2> QED BY <2>1 DEF Snapshot
<1>2. min \in Nat
  BY DEF LowerOf, Snapshot
<1>3. errors \in Nat /\ successes \in Nat
  BY DEF Snapshot
<1>4. requests \in Nat /\ total \in Nat
  BY DEF Snapshot
<1>5. Counted(snap, latency, isError) =
        [snap EXCEPT !.requests = requests, !.total = total, !.max = max, !.min = min,
                     !.errors = errors, !.successes = successes]
  BY Zenon DEF Counted
<1>6. Counted(snap, latency, isError) \in Snapshot
  <2> HIDE DEF requests, total, max, min, errors, successes
  <2>1. [snap EXCEPT !.requests = requests, !.total = total, !.max = max, !.min = min,
                     !.errors = errors, !.successes = successes] \in Snapshot
    BY <1>1, <1>2, <1>3, <1>4 DEF Snapshot
  <2> QED BY <1>5, <2>1
<1>7. [snap EXCEPT !.disables = @ + 1] \in Snapshot
  BY DEF Snapshot
<1> QED BY <1>6, <1>7

\* A row with a snapshot merged into it is one of the same channel and hour.
LEMMA MergedRow ==
    ASSUME NEW row \in Row, NEW snap \in Snapshot
    PROVE  /\ Merged(row, snap) \in Row
           /\ Merged(row, snap).hour = row.hour
           /\ Merged(row, snap).channel = row.channel
<1> DEFINE requests == row.requests + snap.requests
           errors == row.errors + snap.errors
           successes == row.successes + snap.successes
           disables == row.disables + snap.disables
           total == row.total + snap.total
           max == Max({row.max, snap.max})
           min == LowerOf(row.min, snap.min)
<1>1. max \in Nat
  <2>1. max \in {row.max, snap.max}
    BY DEF Max, Snapshot, Row
  <2> QED BY <2>1 DEF Snapshot, Row
<1>2. min \in Nat
  BY DEF LowerOf, Snapshot, Row
<1>3. /\ requests \in Nat /\ errors \in Nat /\ successes \in Nat
      /\ disables \in Nat /\ total \in Nat
  BY DEF Snapshot, Row
<1>4. Merged(row, snap) =
        [row EXCEPT !.requests = requests, !.errors = errors, !.successes = successes,
                    !.disables = disables, !.total = total, !.max = max, !.min = min]
  BY Zenon DEF Merged
<1> HIDE DEF requests, errors, successes, disables, total, max, min
<1>5. ASSUME NEW new,
             new = [row EXCEPT !.requests = requests, !.errors = errors,
                               !.successes = successes, !.disables = disables,
                               !.total = total, !.max = max, !.min = min]
      PROVE  new \in Row /\ new.hour = row.hour /\ new.channel = row.channel
  BY <1>1, <1>2, <1>3, <1>5 DEF Row
<1> QED BY <1>4, <1>5, Zenon

-----------------------------------------------------------------------------
(* Steps of the caches and the flushers.                                   *)

\* A snapshot of a node's cache may be replaced.
LEMMA CacheStep ==
    ASSUME FlushInv, NEW n \in Node, NEW c \in Channel, NEW snap \in Snapshot,
           cache' = [cache EXCEPT ![n] = Set(@, c, snap)],
           UNCHANGED <<flusher, table, hour, expired>>
    PROVE  FlushInv'
<1>1. IsWork(Set(cache[n], c, snap))
  BY DEF FlushInv, CachesInv, IsWork, Set
<1>2. CachesInv'
  BY <1>1 DEF FlushInv, CachesInv
<1>3. FlushersInv' /\ TableInv'
  BY DEF FlushInv, FlushersInv, TableInv
<1> QED BY <1>2, <1>3 DEF FlushInv

LEMMA RecordStep ==
    ASSUME FlushAssumption, FlushInv, NEW n \in Node, NEW c \in Channel,
           \/ \E latency \in Latency, isError \in BOOLEAN :
                RecordChannelRequest(n, c, latency, isError)
           \/ RecordChannelDisable(n, c)
    PROVE  FlushInv'
<1>1. SnapshotOf(n, c) \in Snapshot
  BY SMTT(60) DEF SnapshotOf, Nothing, Snapshot, FlushInv, CachesInv, IsWork
<1>2. ASSUME NEW latency \in Latency, NEW isError \in BOOLEAN,
             RecordChannelRequest(n, c, latency, isError)
      PROVE  FlushInv'
  <2>1. Counted(SnapshotOf(n, c), latency, isError) \in Snapshot
    BY <1>1, SnapshotsGrow DEF FlushAssumption
  <2> QED BY <1>2, <2>1, CacheStep DEF RecordChannelRequest
<1>3. CASE RecordChannelDisable(n, c)
  <2>1. [SnapshotOf(n, c) EXCEPT !.disables = @ + 1] \in Snapshot
    BY <1>1, SnapshotsGrow
  <2> QED BY <1>3, <2>1, CacheStep DEF RecordChannelDisable
<1> QED BY <1>2, <1>3

\* A flusher may be replaced, and its node's cache with it.
LEMMA FlusherStep ==
    ASSUME FlushInv, NEW n \in Node, NEW f, FlusherOK(f, hour),
           flusher' = [flusher EXCEPT ![n] = f], UNCHANGED hour
    PROVE  FlushersInv'
BY DEF FlushInv, FlushersInv

LEMMA EmptiedCache ==
    ASSUME FlushInv, NEW n \in Node, cache' = [cache EXCEPT ![n] = Empty]
    PROVE  CachesInv'
<1>1. IsWork(Empty)
  BY DEF IsWork, Empty
<1> QED BY <1>1 DEF FlushInv, CachesInv

\* After a flush a flusher sleeps or cleans up, its ticker below the next cleanup.
LEMMA FlushedFlusher ==
    ASSUME FlushAssumption, NEW f, FlusherOK(f, hour)
    PROVE  FlusherOK(Flushed(f), hour)
<1>1. 0 < CleanupEvery /\ CleanupEvery \in Nat
  BY DEF FlushAssumption
<1>2. CASE f.flushes + 1 >= CleanupEvery
  BY <1>1, <1>2 DEF Flushed, FlusherOK
<1>3. CASE ~(f.flushes + 1 >= CleanupEvery)
  BY <1>1, <1>3 DEF Flushed, FlusherOK
<1> QED BY <1>2, <1>3

LEMMA TakeCacheStep ==
    ASSUME FlushAssumption, FlushInv, NEW n \in Node, TakeCache(n)
    PROVE  FlushInv'
<1> DEFINE f == flusher[n]
           next == IF cache[n] = Empty THEN Flushed(f)
                   ELSE [f EXCEPT !.pc = "find", !.work = cache[n], !.hour = hour]
<1>1. FlusherOK(f, hour)
  BY DEF FlushInv, FlushersInv
<1>2. FlusherOK(next, hour)
  <2>1. CASE cache[n] = Empty
    BY <1>1, <2>1, FlushedFlusher
  <2>2. CASE cache[n] # Empty
    BY <1>1, <2>2 DEF FlusherOK, FlushInv, CachesInv, TableInv
  <2> QED BY <2>1, <2>2
<1>3. flusher' = [flusher EXCEPT ![n] = next] /\ UNCHANGED hour
  BY DEF TakeCache
<1>4. FlushersInv'
  <2> HIDE DEF next
  <2> QED BY <1>2, <1>3, FlusherStep
<1>5. CachesInv' /\ TableInv'
  BY EmptiedCache DEF TakeCache, history, FlushInv, TableInv
<1> QED BY <1>4, <1>5 DEF FlushInv

-----------------------------------------------------------------------------
(* Steps on the table.                                                     *)

\* The row that a query finds is a row of the table, of the channel and hour asked for.
LEMMA FoundRow ==
    ASSUME TableInv, NEW c, NEW h
    PROVE  \/ /\ FirstRow(c, h) = NoRow
              /\ ~ \E id \in DOMAIN table : table[id].channel = c /\ table[id].hour = h
           \/ \E id \in DOMAIN table :
                /\ FirstRow(c, h) = [id |-> id, row |-> table[id]]
                /\ table[id].channel = c /\ table[id].hour = h
<1> DEFINE ids == {id \in DOMAIN table : table[id].channel = c /\ table[id].hour = h}
<1>1. CASE ids = {}
  BY <1>1 DEF FirstRow
<1>2. CASE ids # {}
  <2>1. ids \in SUBSET Nat
    BY DEF TableInv
  <2>2. Min(ids) \in ids
    <3> HIDE DEF ids
    <3> QED BY <1>2, <2>1, LeastElement
  <2> QED BY <1>2, <2>2 DEF FirstRow
<1> QED BY <1>1, <1>2

LEMMA FindStep ==
    ASSUME FlushAssumption, FlushInv, NEW n \in Node, Find(n)
    PROVE  FlushInv'
<1> DEFINE f == flusher[n]
<1>1. FlusherOK(f, hour) /\ f.pc = "find"
  BY DEF FlushInv, FlushersInv, Find
<1>2. PICK c \in DOMAIN f.work :
        \/ flusher' = [flusher EXCEPT ![n] =
                [f EXCEPT !.pc = "write", !.channel = c, !.found = FirstRow(c, f.hour)]]
        \/ flusher' = [flusher EXCEPT ![n] = [f EXCEPT !.pc = "write", !.channel = c]]
  BY DEF Find
<1>3. FlusherOK([f EXCEPT !.pc = "write", !.channel = c], hour)
  BY <1>1 DEF FlusherOK
<1>4. FlusherOK([f EXCEPT !.pc = "write", !.channel = c, !.found = FirstRow(c, f.hour)], hour)
  <2>1. ASSUME NEW found, found # NoRow => found.row \in Row /\ found.row.hour <= hour
        PROVE  FlusherOK([f EXCEPT !.pc = "write", !.channel = c, !.found = found], hour)
    BY <1>1, <2>1 DEF FlusherOK
  <2>2. FirstRow(c, f.hour) # NoRow =>
            FirstRow(c, f.hour).row \in Row /\ FirstRow(c, f.hour).row.hour <= hour
    BY FoundRow DEF FlushInv, TableInv
  <2> QED BY <2>1, <2>2, Zenon
<1>5. FlushersInv'
  <2> DEFINE missed == [f EXCEPT !.pc = "write", !.channel = c]
             looked == [f EXCEPT !.pc = "write", !.channel = c, !.found = FirstRow(c, f.hour)]
  <2>1. UNCHANGED hour
    BY DEF Find
  <2>2. \/ flusher' = [flusher EXCEPT ![n] = missed]
        \/ flusher' = [flusher EXCEPT ![n] = looked]
    BY <1>2
  <2> HIDE DEF missed, looked
  <2> QED BY <1>3, <1>4, <2>1, <2>2, FlusherStep DEF missed, looked
<1>6. CachesInv' /\ TableInv'
  BY DEF Find, history, FlushInv, CachesInv, TableInv
<1> QED BY <1>5, <1>6 DEF FlushInv

\* The id of an insert is above all ids there ever were.
LEMMA NextIdIsNew ==
    ASSUME TableInv
    PROVE  /\ NextId \in Nat
           /\ \A id \in DOMAIN table : id < NextId
           /\ \A e \in expired : e.id < NextId
<1> DEFINE ids == {0} \cup DOMAIN table \cup {e.id : e \in expired}
<1>1. ids \in SUBSET Nat /\ ids # {}
  BY DEF TableInv
<1>2. PICK bound \in Nat : \A id \in ids : id <= bound
  BY DEF TableInv
<1>3. Max(ids) \in ids /\ \A id \in ids : Max(ids) >= id
  <2> HIDE DEF ids
  <2> QED BY <1>1, <1>2, GreatestElement
<1>4. Max(ids) \in Nat
  BY <1>1, <1>3
<1>5. NextId = 1 + Max(ids)
  BY DEF NextId
<1>6. \A id \in ids : id \in Nat /\ id < NextId
  BY <1>1, <1>3, <1>4, <1>5
<1>7. \A id \in DOMAIN table : id \in ids
  OBVIOUS
<1>8. \A e \in expired : e.id \in ids
  OBVIOUS
<1> HIDE DEF ids
<1> QED BY <1>4, <1>5, <1>6, <1>7, <1>8

LEMMA EmptyRowIsRow ==
    ASSUME NEW c \in Channel, NEW h \in Nat
    PROVE  EmptyRow(c, h) \in Row /\ EmptyRow(c, h).hour = h /\ EmptyRow(c, h).channel = c
BY DEF EmptyRow, Row

\* A write adds a row, or changes one, or leaves the table alone.
LEMMA StoredRow ==
    ASSUME TableInv, NEW f, FlusherOK(f, hour), f.pc = "write"
    PROVE  \E row \in Row :
             /\ row.hour <= hour
             /\ \/ /\ f.found = NoRow /\ row.channel = f.channel /\ row.hour = f.hour
                   /\ Stored(f) = Set(table, NextId, row)
                \/ /\ f.found # NoRow /\ f.found.id \in DOMAIN table
                   /\ row.channel = f.found.row.channel /\ row.hour = f.found.row.hour
                   /\ Stored(f) = [table EXCEPT ![f.found.id] = row]
                \/ f.found # NoRow /\ f.found.id \notin DOMAIN table /\ Stored(f) = table
<1> DEFINE snap == f.work[f.channel]
           inserted == Merged(EmptyRow(f.channel, f.hour), snap)
           updated == Merged(f.found.row, snap)
<1>1. snap \in Snapshot /\ f.channel \in Channel /\ f.hour \in Nat /\ f.hour <= hour
  BY DEF FlusherOK, IsWork
<1>2. inserted \in Row /\ inserted.hour = f.hour /\ inserted.channel = f.channel
  <2> DEFINE empty == EmptyRow(f.channel, f.hour)
  <2>1. empty \in Row /\ empty.hour = f.hour /\ empty.channel = f.channel
    BY <1>1, EmptyRowIsRow
  <2> HIDE DEF empty, snap
  <2>2. /\ Merged(empty, snap) \in Row /\ Merged(empty, snap).hour = f.hour
        /\ Merged(empty, snap).channel = f.channel
    BY <1>1, <2>1, MergedRow
  <2> QED BY <2>2 DEF empty
<1>3. f.found # NoRow => /\ updated \in Row /\ updated.hour = f.found.row.hour
                         /\ updated.channel = f.found.row.channel
                         /\ f.found.row.hour <= hour
  <2> SUFFICES ASSUME f.found # NoRow
               PROVE  /\ updated \in Row /\ updated.hour = f.found.row.hour
                      /\ updated.channel = f.found.row.channel
                      /\ f.found.row.hour <= hour
    OBVIOUS
  <2>1. f.found.row \in Row /\ f.found.row.hour <= hour
    BY DEF FlusherOK
  <2> QED BY <1>1, <2>1, MergedRow, Zenon
<1>4. Stored(f) = IF f.found = NoRow THEN Set(table, NextId, inserted)
                  ELSE IF f.found.id \in DOMAIN table
                       THEN [table EXCEPT ![f.found.id] = updated]
                       ELSE table
  BY Zenon DEF Stored
<1> HIDE DEF inserted, updated
<1>5. CASE f.found = NoRow
  BY <1>1, <1>2, <1>4, <1>5
<1>6. CASE f.found # NoRow /\ f.found.id \in DOMAIN table
  BY <1>3, <1>4, <1>6
<1>7. CASE f.found # NoRow /\ f.found.id \notin DOMAIN table
  BY <1>1, <1>2, <1>3, <1>4, <1>7
<1> QED BY <1>5, <1>6, <1>7

LEMMA StoredTable ==
    ASSUME TableInv, NEW f, FlusherOK(f, hour), f.pc = "write",
           table' = Stored(f), UNCHANGED <<hour, expired>>
    PROVE  TableInv'
<1>1. PICK row \in Row :
        /\ row.hour <= hour
        /\ \/ table' = Set(table, NextId, row)
           \/ f.found.id \in DOMAIN table /\ table' = [table EXCEPT ![f.found.id] = row]
           \/ table' = table
  BY StoredRow
<1>2. CASE table' = Set(table, NextId, row)
  <2>1. /\ NextId \in Nat
        /\ \A id \in DOMAIN table : id < NextId
        /\ \A e \in expired : e.id < NextId
    BY NextIdIsNew
  <2>2. DOMAIN table' = DOMAIN table \cup {NextId}
    BY <1>2 DEF Set
  <2>3. \A id \in DOMAIN table' : table'[id] = IF id = NextId THEN row ELSE table[id]
    BY <1>2 DEF Set
  <2>4. table' \in [DOMAIN table' -> Row] /\ \A id \in DOMAIN table' : table'[id].hour <= hour
    <3>1. \A id \in DOMAIN table' : table'[id] \in Row /\ table'[id].hour <= hour
      BY <1>1, <2>2, <2>3 DEF TableInv
    <3>2. table' = [id \in DOMAIN table' |-> table'[id]]
      BY <1>2 DEF Set
    <3> QED BY <3>1, <3>2
  <2>5. DOMAIN table' \subseteq Nat
    BY <2>1, <2>2 DEF TableInv
  <2>6. /\ \A id \in DOMAIN table' : id <= NextId
        /\ \A e \in expired' : e.id <= NextId
    BY <2>1, <2>2 DEF TableInv
  <2> QED BY <2>1, <2>4, <2>5, <2>6 DEF TableInv
<1>3. CASE f.found.id \in DOMAIN table /\ table' = [table EXCEPT ![f.found.id] = row]
  BY <1>1, <1>3 DEF TableInv
<1>4. CASE table' = table
  BY <1>4 DEF TableInv
<1> QED BY <1>1, <1>2, <1>3, <1>4

LEMMA WriteStep ==
    ASSUME FlushAssumption, FlushInv, NEW n \in Node, Write(n)
    PROVE  FlushInv'
<1> DEFINE f == flusher[n]
           rest == Restrict(f.work, DOMAIN f.work \ {f.channel})
           done == [f EXCEPT !.pc = "find", !.work = rest, !.found = NoRow]
           next == IF rest = Empty THEN Flushed(done) ELSE done
<1>1. FlusherOK(f, hour) /\ f.pc = "write"
  BY DEF FlushInv, FlushersInv, Write
<1>2. IsWork(rest)
  BY <1>1 DEF FlusherOK, IsWork, Restrict
<1>3. FlusherOK(next, hour)
  <2> HIDE DEF rest
  <2>1. CASE rest # Empty
    <3>1. FlusherOK(done, hour)
      BY <1>1, <1>2, <2>1 DEF FlusherOK
    <3> QED BY <2>1, <3>1
  <2>2. CASE rest = Empty
    <3> DEFINE asleep == [done EXCEPT !.pc = "sleep"]
    <3>1. FlusherOK(asleep, hour)
      BY <1>1, <1>2 DEF FlusherOK
    <3>2. Flushed(asleep) = Flushed(done)
      BY <1>1 DEF Flushed, FlusherOK
    <3> HIDE DEF asleep, done
    <3> QED BY <2>2, <3>1, <3>2, FlushedFlusher
  <2> QED BY <2>1, <2>2
<1>4. FlushersInv'
  <2>1. flusher' = [flusher EXCEPT ![n] = next] /\ UNCHANGED hour
    BY Zenon DEF Write
  <2> HIDE DEF next
  <2> QED BY <1>3, <2>1, FlusherStep
<1>5. CachesInv'
  BY DEF Write, FlushInv, CachesInv
<1>6. TableInv'
  <2>1. UNCHANGED <<hour, expired>> /\ (table' = Stored(f) \/ UNCHANGED table)
    BY DEF Write
  <2>2. CASE table' = Stored(f)
    BY <1>1, <2>1, <2>2, StoredTable DEF FlushInv
  <2>3. CASE UNCHANGED table
    BY <2>1, <2>3 DEF FlushInv, TableInv
  <2> QED BY <2>1, <2>2, <2>3
<1> QED BY <1>4, <1>5, <1>6 DEF FlushInv

\* What a cleanup takes is past its retention.
LEMMA CleanupTakes ==
    ASSUME FlushAssumption, FlushInv, NEW n \in Node, Cleanup(n)
    PROVE  \E gone \in SUBSET DOMAIN table :
             /\ \A id \in gone : table[id].hour + Retention <= hour
             /\ table' = Restrict(table, DOMAIN table \ gone)
             /\ expired' = expired \cup {[id |-> id, row |-> table[id]] : id \in gone}
<1> DEFINE old == {id \in DOMAIN table : table[id].hour <= hour - Retention}
<1>1. CASE UNCHANGED <<table, expired>>
  <2>1. Restrict(table, DOMAIN table \ {}) = table
    BY DEF Restrict, FlushInv, TableInv
  <2>2. {[id |-> id, row |-> table[id]] : id \in {}} = {}
    OBVIOUS
  <2>3. {} \in SUBSET DOMAIN table
    OBVIOUS
  <2> WITNESS {} \in SUBSET DOMAIN table
  <2> QED BY <1>1, <2>1, <2>2
<1>2. ASSUME NEW gone \in kSubset(Min({BatchSize, Cardinality(old)}), old),
             table' = Restrict(table, DOMAIN table \ gone),
             expired' = expired \cup {[id |-> id, row |-> table[id]] : id \in gone}
      PROVE  /\ gone \in SUBSET DOMAIN table
             /\ \A id \in gone : table[id].hour + Retention <= hour
  <2>1. gone \subseteq old
    BY DEF kSubset
  <2>2. \A id \in old : table[id].hour \in Nat
    BY DEF FlushInv, TableInv, Row
  <2>3. \A id \in old : table[id].hour + Retention <= hour
    BY <2>2 DEF FlushInv, TableInv, FlushAssumption
  <2> QED BY <2>1, <2>3
<1>3. \/ \E gone \in kSubset(Min({BatchSize, Cardinality(old)}), old) :
            /\ table' = Restrict(table, DOMAIN table \ gone)
            /\ expired' = expired \cup {[id |-> id, row |-> table[id]] : id \in gone}
      \/ UNCHANGED <<table, expired>>
  BY Zenon DEF Cleanup
<1> QED BY <1>1, <1>2, <1>3

LEMMA CleanupStep ==
    ASSUME FlushAssumption, FlushInv, NEW n \in Node, Cleanup(n)
    PROVE  FlushInv'
<1> DEFINE next == [flusher[n] EXCEPT !.pc = "sleep"]
<1>1. UNCHANGED <<cache, hour>> /\ flusher' = [flusher EXCEPT ![n] = next]
  BY DEF Cleanup
<1>2. FlusherOK(next, hour)
  BY DEF FlushInv, FlushersInv, FlusherOK
<1>3. CachesInv' /\ FlushersInv'
  <2> HIDE DEF next
  <2> QED BY <1>1, <1>2, FlusherStep DEF FlushInv, CachesInv
<1>4. TableInv'
  <2>1. PICK gone \in SUBSET DOMAIN table :
          /\ table' = Restrict(table, DOMAIN table \ gone)
          /\ expired' = expired \cup {[id |-> id, row |-> table[id]] : id \in gone}
    BY CleanupTakes
  <2>2. DOMAIN table' \subseteq DOMAIN table /\ \A id \in DOMAIN table' : table'[id] = table[id]
    BY <2>1 DEF Restrict
  <2>3. table' \in [DOMAIN table' -> Row]
    BY <2>1, <2>2 DEF Restrict, FlushInv, TableInv
  <2>4. \A e \in expired' : e \in expired \/ e.id \in DOMAIN table
    BY <2>1
  <2> QED BY <1>1, <2>2, <2>3, <2>4 DEF FlushInv, TableInv
<1> QED BY <1>3, <1>4 DEF FlushInv

LEMMA CrashStep ==
    ASSUME FlushAssumption, FlushInv, NEW n \in Node, Crash(n)
    PROVE  FlushInv'
<1> DEFINE f == flusher[n]
           next == [f EXCEPT !.pc = "sleep", !.work = Empty, !.found = NoRow, !.flushes = 0]
<1>1. flusher' = [flusher EXCEPT ![n] = next] /\ UNCHANGED hour
  BY DEF Crash
<1>2. IsWork(Empty)
  BY DEF IsWork, Empty
<1>3. FlusherOK(next, hour)
  BY <1>2 DEF FlushInv, FlushersInv, FlusherOK, FlushAssumption
<1>4. FlushersInv'
  <2> HIDE DEF next
  <2> QED BY <1>1, <1>3, FlusherStep
<1>5. CachesInv' /\ TableInv'
  BY EmptiedCache DEF Crash, FlushInv, TableInv
<1> QED BY <1>4, <1>5 DEF FlushInv

LEMMA HourStep ==
    ASSUME FlushInv, HourPasses
    PROVE  FlushInv'
<1>1. /\ hour' = hour + 1 /\ hour \in Nat
      /\ UNCHANGED <<cache, flusher, table, expired>>
  BY DEF HourPasses, history, FlushInv, TableInv
<1>2. \A n \in Node : FlusherOK(flusher[n], hour) => FlusherOK(flusher[n], hour + 1)
  BY <1>1 DEF FlusherOK, Row
<1>3. FlushersInv'
  BY <1>1, <1>2 DEF FlushInv, FlushersInv
<1>4. TableInv'
  <2>1. \A id \in DOMAIN table : table[id].hour \in Nat /\ table[id].hour <= hour + 1
    BY <1>1 DEF FlushInv, TableInv, Row
  <2> QED BY <1>1, <2>1 DEF FlushInv, TableInv
<1> QED BY <1>1, <1>3, <1>4 DEF FlushInv, CachesInv

LEMMA FlushStep ==
    ASSUME FlushAssumption, FlushInv, [Next]_vars
    PROVE  FlushInv'
<1>1. ASSUME NEW n \in Node, NEW c \in Channel, NEW latency \in Latency, NEW isError \in BOOLEAN,
             RecordChannelRequest(n, c, latency, isError)
      PROVE  FlushInv'
  BY <1>1, RecordStep
<1>2. ASSUME NEW n \in Node, NEW c \in Channel, RecordChannelDisable(n, c)
      PROVE  FlushInv'
  BY <1>2, RecordStep
<1>3. ASSUME NEW n \in Node, TakeCache(n) PROVE FlushInv'
  BY <1>3, TakeCacheStep
<1>4. ASSUME NEW n \in Node, Find(n) PROVE FlushInv'
  BY <1>4, FindStep
<1>5. ASSUME NEW n \in Node, Write(n) PROVE FlushInv'
  BY <1>5, WriteStep
<1>6. ASSUME NEW n \in Node, Cleanup(n) PROVE FlushInv'
  BY <1>6, CleanupStep
<1>7. ASSUME NEW n \in Node, Crash(n) PROVE FlushInv'
  BY <1>7, CrashStep
<1>8. CASE HourPasses
  BY <1>8, HourStep
<1>9. CASE UNCHANGED vars
  BY <1>9 DEF vars, history, FlushInv, CachesInv, FlushersInv, TableInv
<1> QED BY <1>1, <1>2, <1>3, <1>4, <1>5, <1>6, <1>7, <1>8, <1>9 DEF Next

LEMMA FlushInvariant == Spec => []FlushInv
<1>1. Init => FlushInv
  BY FlushInit, FlushAssumption
<1>2. FlushInv /\ [Next]_vars => FlushInv'
  BY FlushStep, FlushAssumption
<1> QED BY <1>1, <1>2, PTL DEF Spec

\* Caches, flushers and rows have their types, whatever fails and whenever a process ends: no
\* flusher looks for a row with nothing left to flush, or writes a snapshot it does not have,
\* and no row is of an hour to come (RecordChannelRequest, FlushHealthCache).
THEOREM FlushTypeCorrect == Spec => []TypeOK
<1>1. FlushInv => TypeOK
  BY DEF FlushInv, CachesInv, FlushersInv, FlusherOK, TableInv, IsWork, Row, TypeOK
<1> QED BY <1>1, FlushInvariant, PTL

\* No step but a cleanup takes a row, and it takes only rows past their retention
\* (DeleteOldChannelHealth), for any number of nodes and any batch.
THEOREM RowsStay == Spec => RecentRowsStay
<1> DEFINE Stays ==
        \A id \in DOMAIN table :
            id \notin DOMAIN table' =>
                /\ table[id].hour + Retention <= hour
                /\ \E n \in Node : flusher[n].pc = "cleanup"
<1>1. ASSUME FlushInv, [Next]_vars PROVE [Stays]_vars
  <2>1. CASE UNCHANGED table
    BY <2>1
  <2>2. ASSUME NEW n \in Node, Write(n) PROVE Stays
    <3>1. table' = Stored(flusher[n]) \/ UNCHANGED table
      BY <2>2 DEF Write
    <3>2. DOMAIN table \subseteq DOMAIN Stored(flusher[n])
      BY DEF Stored, Set
    <3> QED BY <3>1, <3>2
  <2>3. ASSUME NEW n \in Node, Cleanup(n) PROVE Stays
    <3>1. PICK gone \in SUBSET DOMAIN table :
            /\ \A id \in gone : table[id].hour + Retention <= hour
            /\ table' = Restrict(table, DOMAIN table \ gone)
      BY <1>1, <2>3, CleanupTakes, FlushAssumption
    <3>2. DOMAIN table' = DOMAIN table \ gone
      BY <3>1 DEF Restrict
    <3>3. flusher[n].pc = "cleanup"
      BY <2>3 DEF Cleanup
    <3> QED BY <3>1, <3>2, <3>3
  <2>4. \/ UNCHANGED table
        \/ \E n \in Node : Write(n) \/ Cleanup(n)
    <3>1. ASSUME NEW n \in Node, NEW c \in Channel, NEW latency \in Latency,
                 NEW isError \in BOOLEAN
          PROVE  RecordChannelRequest(n, c, latency, isError) => UNCHANGED table
      BY DEF RecordChannelRequest
    <3>2. ASSUME NEW n \in Node
          PROVE  TakeCache(n) \/ Find(n) \/ Crash(n) => UNCHANGED table
      BY DEF TakeCache, Find, Crash
    <3>3. ASSUME NEW n \in Node, NEW c \in Channel
          PROVE  RecordChannelDisable(n, c) => UNCHANGED table
      BY DEF RecordChannelDisable
    <3>4. HourPasses \/ UNCHANGED vars => UNCHANGED table
      BY DEF HourPasses, vars
    <3> QED BY <1>1, <3>1, <3>2, <3>3, <3>4 DEF Next
  <2> HIDE DEF Stays
  <2> QED BY <2>1, <2>2, <2>3, <2>4
<1>2. FlushInv /\ [Next]_vars => [Stays]_vars
  BY <1>1
<1> QED BY <1>2, FlushInvariant, PTL DEF Spec, RecentRowsStay

-----------------------------------------------------------------------------
(* What the flushers found.                                                *)

RowIds == DOMAIN table \cup {e.id : e \in expired}

\* Only a flusher that writes has found a row, one of those there were, of the channel and hour
\* it writes; only one that still has snapshots in hand works at all.
FoundOK(f) ==
    /\ f.pc \in {"sleep", "cleanup"} => f.work = Empty
    /\ f.pc # "write" => f.found = NoRow
    /\ f.found # NoRow =>
        /\ f.found.id \in RowIds
        /\ f.found.row.channel = f.channel /\ f.found.row.hour = f.hour
        /\ f.found.id \in DOMAIN table =>
            /\ table[f.found.id].channel = f.channel
            /\ table[f.found.id].hour = f.hour

\* No id is used twice, and the rows, kept or expired, are finitely many.
IdsInv ==
    /\ IsFiniteSet(DOMAIN table) /\ IsFiniteSet(expired)
    /\ \A e \in expired : e.id \notin DOMAIN table /\ e.row \in Row
    /\ \A n \in Node : FoundOK(flusher[n])

\* A row keeps its id, its channel and its hour while it is there.
RowsStayThemselves ==
    /\ RowIds \subseteq RowIds'
    /\ \A id \in RowIds : id \in DOMAIN table' =>
        /\ id \in DOMAIN table
        /\ table'[id].channel = table[id].channel /\ table'[id].hour = table[id].hour

LEMMA OthersFound ==
    ASSUME IdsInv, RowsStayThemselves, NEW n \in Node, flusher'[n] = flusher[n]
    PROVE  FoundOK(flusher[n])'
<1> DEFINE f == flusher[n]
<1>1. FoundOK(f)
  BY DEF IdsInv
<1>2. /\ f.pc \in {"sleep", "cleanup"} => f.work = Empty
      /\ f.pc # "write" => f.found = NoRow
  BY <1>1 DEF FoundOK
<1>3. ASSUME f.found # NoRow
      PROVE  /\ f.found.id \in RowIds'
             /\ f.found.row.channel = f.channel /\ f.found.row.hour = f.hour
             /\ f.found.id \in DOMAIN table' =>
                    /\ table'[f.found.id].channel = f.channel
                    /\ table'[f.found.id].hour = f.hour
  BY <1>1, <1>3 DEF FoundOK, RowsStayThemselves
<1> QED BY <1>2, <1>3 DEF FoundOK

LEMMA IdsInit == ASSUME FlushAssumption, Init PROVE IdsInv
<1>1. IsFiniteSet(DOMAIN table) /\ IsFiniteSet(expired)
  BY FS_EmptySet DEF Init
<1>2. \A n \in Node : flusher[n].pc = "sleep" /\ flusher[n].work = Empty
                      /\ flusher[n].found = NoRow
  BY DEF Init
<1> QED BY <1>1, <1>2 DEF Init, IdsInv, FoundOK

\* A step that touches no row and gives a node one that is there, or none.
LEMMA FoundStep ==
    ASSUME IdsInv, UNCHANGED <<table, expired>>, NEW n \in Node, NEW f,
           flusher = [p \in Node |-> flusher[p]],
           flusher' = [flusher EXCEPT ![n] = f], FoundOK(f)
    PROVE  IdsInv'
<1>1. RowsStayThemselves
  BY DEF RowsStayThemselves, RowIds
<1>2. \A p \in Node : p # n => flusher'[p] = flusher[p]
  OBVIOUS
<1>3. FoundOK(flusher[n])'
  <2>1. flusher'[n] = f
    OBVIOUS
  <2> QED BY <2>1 DEF FoundOK, RowIds
<1>4. \A p \in Node : FoundOK(flusher[p])'
  BY <1>1, <1>2, <1>3, OthersFound
<1> QED BY <1>4 DEF IdsInv

LEMMA FlushedFound ==
    ASSUME NEW f, DOMAIN f = {"pc", "work", "hour", "channel", "found", "flushes"}
    PROVE  /\ Flushed(f).pc \in {"sleep", "cleanup"}
           /\ Flushed(f).work = f.work /\ Flushed(f).found = f.found
BY DEF Flushed

LEMMA TakeCacheFinds ==
    ASSUME FlushInv, IdsInv, NEW n \in Node, TakeCache(n)
    PROVE  IdsInv'
<1> DEFINE f == flusher[n]
           next == IF cache[n] = Empty THEN Flushed(f)
                   ELSE [f EXCEPT !.pc = "find", !.work = cache[n], !.hour = hour]
<1>1. /\ DOMAIN f = {"pc", "work", "hour", "channel", "found", "flushes"}
      /\ f.pc = "sleep" /\ f.work = Empty /\ f.found = NoRow
  BY DEF FlushInv, FlushersInv, FlusherOK, IdsInv, FoundOK, TakeCache
<1>2. FoundOK(next)
  <2>1. CASE cache[n] = Empty
    BY <1>1, <2>1, FlushedFound DEF FoundOK
  <2>2. CASE cache[n] # Empty
    BY <1>1, <2>2 DEF FoundOK
  <2> QED BY <2>1, <2>2
<1>3. flusher' = [flusher EXCEPT ![n] = next] /\ UNCHANGED <<table, expired>>
  BY DEF TakeCache, history
<1>4. flusher = [p \in Node |-> flusher[p]]
  BY DEF FlushInv, FlushersInv
<1> HIDE DEF next
<1> QED BY <1>2, <1>3, <1>4, FoundStep

\* The row a query finds, and that it is not taken for "record not found".
LEMMA FoundIsRow ==
    ASSUME NEW id
    PROVE  LET found == [id |-> id, row |-> table[id]]
           IN  found # NoRow /\ found.id = id /\ found.row = table[id]
<1>1. DOMAIN [id |-> id, row |-> table[id]] # DOMAIN NoRow
  BY DEF NoRow
<1> QED BY <1>1

\* What a query gives a flusher: a failed one gives what it gives for no row.
LEMMA FindGives ==
    ASSUME FlushInv, IdsInv, NEW n \in Node, Find(n)
    PROVE  \E c, found :
             /\ c \in DOMAIN flusher[n].work
             /\ \/ found = FirstRow(c, flusher[n].hour) /\ failures' = failures
                \/ found = NoRow /\ failures' = failures + 1
             /\ flusher' = [flusher EXCEPT ![n] =
                    [flusher[n] EXCEPT !.pc = "write", !.channel = c, !.found = found]]
             /\ \/ found = NoRow
                \/ \E id \in DOMAIN table :
                     /\ found = [id |-> id, row |-> table[id]]
                     /\ table[id].channel = c /\ table[id].hour = flusher[n].hour
<1> DEFINE f == flusher[n]
<1>1. /\ DOMAIN f = {"pc", "work", "hour", "channel", "found", "flushes"}
      /\ f.found = NoRow
      /\ flusher = [p \in Node |-> flusher[p]]
  BY SMTT(60) DEF FlushInv, FlushersInv, FlusherOK, IdsInv, FoundOK, Find
<1>2. PICK c \in DOMAIN f.work :
        \/ /\ flusher' = [flusher EXCEPT ![n] =
                [f EXCEPT !.pc = "write", !.channel = c, !.found = FirstRow(c, f.hour)]]
           /\ failures' = failures
        \/ /\ flusher' = [flusher EXCEPT ![n] = [f EXCEPT !.pc = "write", !.channel = c]]
           /\ failures' = failures + 1
  BY DEF Find
<1>3. [f EXCEPT !.pc = "write", !.channel = c]
        = [f EXCEPT !.pc = "write", !.channel = c, !.found = NoRow]
  <2> DEFINE g == [f EXCEPT !.pc = "write", !.channel = c]
             h == [f EXCEPT !.pc = "write", !.channel = c, !.found = NoRow]
  <2>1. g = [x \in DOMAIN f |-> IF x = "pc" THEN "write" ELSE IF x = "channel" THEN c ELSE f[x]]
    OBVIOUS
  <2>2. h = [x \in DOMAIN f |-> IF x = "found" THEN NoRow ELSE IF x = "pc" THEN "write"
                                ELSE IF x = "channel" THEN c ELSE f[x]]
    OBVIOUS
  <2>3. f["found"] = NoRow
    BY <1>1
  <2> QED BY <2>1, <2>2, <2>3
<1>4. \/ FirstRow(c, f.hour) = NoRow
      \/ \E id \in DOMAIN table :
            /\ FirstRow(c, f.hour) = [id |-> id, row |-> table[id]]
            /\ table[id].channel = c /\ table[id].hour = f.hour
  BY FoundRow DEF FlushInv
<1>5. CASE /\ flusher' = [flusher EXCEPT ![n] =
                [f EXCEPT !.pc = "write", !.channel = c, !.found = FirstRow(c, f.hour)]]
           /\ failures' = failures
  BY <1>4, <1>5
<1>6. CASE /\ flusher' = [flusher EXCEPT ![n] = [f EXCEPT !.pc = "write", !.channel = c]]
           /\ failures' = failures + 1
  BY <1>3, <1>6
<1> QED BY <1>2, <1>5, <1>6

LEMMA FindFinds ==
    ASSUME FlushInv, IdsInv, NEW n \in Node, Find(n)
    PROVE  IdsInv'
<1> DEFINE f == flusher[n]
<1>1. /\ DOMAIN f = {"pc", "work", "hour", "channel", "found", "flushes"}
      /\ flusher = [p \in Node |-> flusher[p]]
  BY DEF FlushInv, FlushersInv, FlusherOK
<1>2. PICK c, found :
        /\ c \in DOMAIN f.work
        /\ flusher' = [flusher EXCEPT ![n] =
                [f EXCEPT !.pc = "write", !.channel = c, !.found = found]]
        /\ \/ found = NoRow
           \/ \E id \in DOMAIN table :
                /\ found = [id |-> id, row |-> table[id]]
                /\ table[id].channel = c /\ table[id].hour = f.hour
  BY FindGives
<1> DEFINE next == [f EXCEPT !.pc = "write", !.channel = c, !.found = found]
<1>3. next.pc = "write" /\ next.channel = c /\ next.hour = f.hour /\ next.found = found
  BY <1>1
<1> HIDE DEF next
<1>4. found # NoRow =>
        /\ found.id \in RowIds
        /\ found.row.channel = c /\ found.row.hour = f.hour
        /\ table[found.id].channel = c /\ table[found.id].hour = f.hour
  BY <1>2, FoundIsRow DEF RowIds
<1>5. FoundOK(next)
  BY <1>3, <1>4 DEF FoundOK
<1>6. UNCHANGED <<table, expired>> /\ flusher' = [flusher EXCEPT ![n] = next]
  BY <1>2 DEF Find, history, next
<1> QED BY <1>1, <1>5, <1>6, FoundStep

\* What a write leaves a flusher with.
LEMMA WriteLeaves ==
    ASSUME FlushInv, IdsInv, NEW n \in Node, Write(n)
    PROVE  /\ flusher'[n].work
                = Restrict(flusher[n].work, DOMAIN flusher[n].work \ {flusher[n].channel})
           /\ flusher'[n].found = NoRow
           /\ flusher'[n].pc \in {"find", "sleep", "cleanup"}
           /\ flusher'[n].pc # "find" => flusher'[n].work = Empty
           /\ \A p \in Node : p # n => flusher'[p] = flusher[p]
<1> DEFINE f == flusher[n]
           rest == Restrict(f.work, DOMAIN f.work \ {f.channel})
           done == [f EXCEPT !.pc = "find", !.work = rest, !.found = NoRow]
           next == IF rest = Empty THEN Flushed(done) ELSE done
<1>1. /\ DOMAIN f = {"pc", "work", "hour", "channel", "found", "flushes"}
      /\ flusher = [p \in Node |-> flusher[p]]
  BY DEF FlushInv, FlushersInv, FlusherOK
<1>2. flusher' = [flusher EXCEPT ![n] = next]
  BY Zenon DEF Write
<1> HIDE DEF rest
<1>3. /\ DOMAIN done = {"pc", "work", "hour", "channel", "found", "flushes"}
      /\ done.pc = "find" /\ done.work = rest /\ done.found = NoRow
  BY <1>1
<1> HIDE DEF done
<1>4. /\ next.work = rest /\ next.found = NoRow /\ next.pc \in {"find", "sleep", "cleanup"}
      /\ next.pc # "find" => rest = Empty
  BY <1>3, FlushedFound
<1> HIDE DEF next
<1>5. flusher'[n] = next /\ \A p \in Node : p # n => flusher'[p] = flusher[p]
  BY <1>1, <1>2
<1> QED BY <1>4, <1>5 DEF rest

LEMMA WriteFinds ==
    ASSUME FlushInv, IdsInv, NEW n \in Node, Write(n)
    PROVE  IdsInv' /\ RowsStayThemselves
<1> DEFINE f == flusher[n]
<1>1. FlusherOK(f, hour) /\ f.pc = "write" /\ FoundOK(f) /\ UNCHANGED expired
  BY DEF FlushInv, FlushersInv, IdsInv, Write
<1>2. table' = Stored(f) \/ UNCHANGED table
  BY DEF Write
<1>3. PICK row \in Row :
        \/ /\ f.found = NoRow /\ row.channel = f.channel /\ row.hour = f.hour
           /\ Stored(f) = Set(table, NextId, row)
        \/ /\ f.found # NoRow /\ f.found.id \in DOMAIN table
           /\ row.channel = f.found.row.channel /\ row.hour = f.found.row.hour
           /\ Stored(f) = [table EXCEPT ![f.found.id] = row]
        \/ Stored(f) = table
  BY <1>1, StoredRow DEF FlushInv
<1>4. NextId \notin RowIds
  BY NextIdIsNew DEF RowIds, FlushInv, TableInv
<1>5. RowsStayThemselves /\ IsFiniteSet(DOMAIN table') /\ \A e \in expired : e.id \notin DOMAIN table'
  <2>1. CASE table' = Set(table, NextId, row)
    <3>1. /\ DOMAIN table' = DOMAIN table \cup {NextId}
          /\ \A id \in DOMAIN table : id # NextId => table'[id] = table[id]
      BY <2>1 DEF Set
    <3>2. IsFiniteSet(DOMAIN table')
      BY <3>1, FS_AddElement DEF IdsInv
    <3> QED BY <1>1, <1>4, <3>1, <3>2 DEF RowsStayThemselves, RowIds, IdsInv
  <2>2. CASE /\ f.found # NoRow /\ f.found.id \in DOMAIN table
             /\ row.channel = f.found.row.channel /\ row.hour = f.found.row.hour
             /\ table' = [table EXCEPT ![f.found.id] = row]
    <3>1. table[f.found.id].channel = row.channel /\ table[f.found.id].hour = row.hour
      BY <1>1, <2>2 DEF FoundOK
    <3>2. /\ DOMAIN table' = DOMAIN table
          /\ \A id \in DOMAIN table : table'[id].channel = table[id].channel
                                      /\ table'[id].hour = table[id].hour
      BY <2>2, <3>1
    <3> QED BY <1>1, <3>2 DEF RowsStayThemselves, RowIds, IdsInv
  <2>3. CASE UNCHANGED table
    BY <1>1, <2>3 DEF RowsStayThemselves, RowIds, IdsInv
  <2> QED BY <1>2, <1>3, <2>1, <2>2, <2>3
<1>6. \A p \in Node : FoundOK(flusher[p])'
  <2>1. FoundOK(flusher[n])'
    BY WriteLeaves DEF FoundOK
  <2>2. \A p \in Node : p # n => flusher'[p] = flusher[p]
    BY WriteLeaves
  <2> QED BY <1>5, <2>1, <2>2, OthersFound
<1> QED BY <1>1, <1>5, <1>6 DEF IdsInv

LEMMA CleanupFinds ==
    ASSUME FlushAssumption, FlushInv, IdsInv, NEW n \in Node, Cleanup(n)
    PROVE  IdsInv' /\ RowsStayThemselves
<1>1. PICK gone \in SUBSET DOMAIN table :
        /\ table' = Restrict(table, DOMAIN table \ gone)
        /\ expired' = expired \cup {[id |-> id, row |-> table[id]] : id \in gone}
  BY CleanupTakes
<1> DEFINE entry == [id \in gone |-> [id |-> id, row |-> table[id]]]
           new == {[id |-> id, row |-> table[id]] : id \in gone}
<1>2. new = {entry[id] : id \in gone}
  OBVIOUS
<1>3. IsFiniteSet(new)
  <2>1. IsFiniteSet(gone)
    BY FS_Subset DEF IdsInv
  <2> HIDE DEF entry, new
  <2> QED BY <1>2, <2>1, FiniteImage
<1>4. /\ DOMAIN table' = DOMAIN table \ gone
      /\ \A id \in DOMAIN table' : table'[id] = table[id]
  BY <1>1 DEF Restrict
<1>5. IsFiniteSet(DOMAIN table') /\ IsFiniteSet(expired')
  BY <1>1, <1>3, <1>4, FS_Subset, FS_Union DEF IdsInv
<1>6. \A e \in new : e.id \in gone /\ e.row \in Row
  BY DEF FlushInv, TableInv
<1>7. \A e \in expired' : e.id \notin DOMAIN table' /\ e.row \in Row
  BY <1>1, <1>4, <1>6 DEF IdsInv
<1>8. RowsStayThemselves
  <2>1. \A id \in gone : \E e \in expired' : e.id = id
    <3> SUFFICES ASSUME NEW id \in gone PROVE \E e \in expired' : e.id = id
      OBVIOUS
    <3>1. [id |-> id, row |-> table[id]] \in expired'
      BY <1>1
    <3> QED BY <3>1
  <2>2. RowIds \subseteq RowIds'
    BY <1>1, <1>4, <2>1 DEF RowIds
  <2> QED BY <1>4, <2>2 DEF RowsStayThemselves
<1>9. \A p \in Node : FoundOK(flusher[p])'
  <2>1. /\ flusher' = [flusher EXCEPT ![n].pc = "sleep"] /\ flusher[n].pc = "cleanup"
        /\ flusher = [p \in Node |-> flusher[p]]
        /\ DOMAIN flusher[n] = {"pc", "work", "hour", "channel", "found", "flushes"}
    BY DEF Cleanup, FlushInv, FlushersInv, FlusherOK
  <2>2. FoundOK(flusher[n]) /\ flusher[n].work = Empty /\ flusher[n].found = NoRow
    BY <2>1 DEF IdsInv, FoundOK
  <2>3. flusher'[n].pc = "sleep" /\ flusher'[n].work = Empty /\ flusher'[n].found = NoRow
    BY <2>1, <2>2
  <2>4. FoundOK(flusher[n])'
    BY <2>3 DEF FoundOK
  <2>5. \A p \in Node : p # n => flusher'[p] = flusher[p]
    BY <2>1
  <2> QED BY <1>8, <2>4, <2>5, OthersFound
<1> QED BY <1>5, <1>7, <1>8, <1>9 DEF IdsInv

LEMMA CrashFinds ==
    ASSUME FlushInv, IdsInv, NEW n \in Node, Crash(n)
    PROVE  IdsInv'
<1> DEFINE f == flusher[n]
           next == [f EXCEPT !.pc = "sleep", !.work = Empty, !.found = NoRow, !.flushes = 0]
<1>1. /\ DOMAIN f = {"pc", "work", "hour", "channel", "found", "flushes"}
      /\ flusher = [p \in Node |-> flusher[p]]
  BY DEF FlushInv, FlushersInv, FlusherOK
<1>2. next.pc = "sleep" /\ next.work = Empty /\ next.found = NoRow
  BY <1>1
<1>3. flusher' = [flusher EXCEPT ![n] = next] /\ UNCHANGED <<table, expired>>
  BY DEF Crash
<1> HIDE DEF next
<1>4. FoundOK(next)
  BY <1>2 DEF FoundOK
<1> QED BY <1>1, <1>3, <1>4, FoundStep

LEMMA IdsStep ==
    ASSUME FlushAssumption, FlushInv, IdsInv, [Next]_vars
    PROVE  IdsInv'
<1>1. CASE UNCHANGED <<flusher, table, expired>>
  BY <1>1 DEF IdsInv, FoundOK, RowIds
<1>2. ASSUME NEW n \in Node, NEW c \in Channel, NEW latency \in Latency, NEW isError \in BOOLEAN
      PROVE  RecordChannelRequest(n, c, latency, isError) => UNCHANGED <<flusher, table, expired>>
  BY DEF RecordChannelRequest
<1>3. ASSUME NEW n \in Node, NEW c \in Channel
      PROVE  RecordChannelDisable(n, c) => UNCHANGED <<flusher, table, expired>>
  BY DEF RecordChannelDisable
<1>4. HourPasses \/ UNCHANGED vars => UNCHANGED <<flusher, table, expired>>
  BY DEF HourPasses, vars, history
<1>5. ASSUME NEW n \in Node
      PROVE  TakeCache(n) \/ Find(n) \/ Write(n) \/ Cleanup(n) \/ Crash(n) => IdsInv'
  BY TakeCacheFinds, FindFinds, WriteFinds, CleanupFinds, CrashFinds
<1> QED BY <1>1, <1>2, <1>3, <1>4, <1>5 DEF Next

-----------------------------------------------------------------------------
(* The rows of an hour.                                                    *)

RowsOf(c, h) == {id \in DOMAIN table : table[id].channel = c /\ table[id].hour = h}

\* The flushers about to insert a row.
Inserting(c, h) ==
    {n \in Node : LET f == flusher[n] IN
        f.pc = "write" /\ f.found = NoRow /\ f.channel = c /\ f.hour = h}

\* Once an hour of a channel has a row, a flusher comes to insert one by a failed query only.
HourOK(c, h) ==
    RowsOf(c, h) # {} =>
        Cardinality(RowsOf(c, h)) + Cardinality(Inserting(c, h)) <= Cardinality(Node) + failures

HoursInv == failures \in Nat /\ \A c \in Channel, h \in Nat : HourOK(c, h)

LEMMA HourSets ==
    ASSUME FlushAssumption, IdsInv, NEW c, NEW h
    PROVE  /\ IsFiniteSet(RowsOf(c, h)) /\ Cardinality(RowsOf(c, h)) \in Nat
           /\ IsFiniteSet(Inserting(c, h)) /\ Cardinality(Inserting(c, h)) \in Nat
           /\ Inserting(c, h) \subseteq Node
           /\ Cardinality(Inserting(c, h)) <= Cardinality(Node) /\ Cardinality(Node) \in Nat
<1>1. RowsOf(c, h) \subseteq DOMAIN table /\ Inserting(c, h) \subseteq Node
  BY DEF RowsOf, Inserting
<1> QED BY <1>1, FS_Subset, FS_CardinalityType DEF IdsInv, FlushAssumption

\* Fewer rows and fewer inserts, and no fewer failures.
LEMMA FewerRows ==
    ASSUME FlushAssumption, IdsInv, IdsInv', HoursInv, NEW c \in Channel, NEW h \in Nat,
           RowsOf(c, h)' \subseteq RowsOf(c, h), Inserting(c, h)' \subseteq Inserting(c, h),
           failures' \in Nat, failures <= failures'
    PROVE  HourOK(c, h)'
<1> SUFFICES ASSUME RowsOf(c, h)' # {}
             PROVE  Cardinality(RowsOf(c, h)') + Cardinality(Inserting(c, h)')
                        <= Cardinality(Node) + failures'
  BY DEF HourOK
<1>1. Cardinality(RowsOf(c, h)) + Cardinality(Inserting(c, h)) <= Cardinality(Node) + failures
  BY DEF HoursInv, HourOK
<1>2. /\ Cardinality(RowsOf(c, h)') <= Cardinality(RowsOf(c, h))
      /\ Cardinality(RowsOf(c, h)') \in Nat /\ Cardinality(RowsOf(c, h)) \in Nat
  BY HourSets, FS_Subset, FS_CardinalityType
<1>3. /\ Cardinality(Inserting(c, h)') <= Cardinality(Inserting(c, h))
      /\ Cardinality(Inserting(c, h)') \in Nat /\ Cardinality(Inserting(c, h)) \in Nat
  BY HourSets, FS_Subset, FS_CardinalityType
<1>4. Cardinality(Node) \in Nat /\ failures \in Nat
  BY HourSets DEF HoursInv
<1> QED BY <1>1, <1>2, <1>3, <1>4

\* A step that writes no row and begins no insert.
LEMMA QuietHours ==
    ASSUME FlushAssumption, IdsInv, IdsInv', HoursInv,
           DOMAIN table' \subseteq DOMAIN table,
           \A id \in DOMAIN table' : table'[id] = table[id],
           \A p \in Node : flusher'[p] = flusher[p] \/ flusher'[p].pc # "write",
           failures' \in Nat, failures <= failures'
    PROVE  HoursInv'
<1>1. ASSUME NEW c \in Channel, NEW h \in Nat PROVE HourOK(c, h)'
  <2>1. RowsOf(c, h)' \subseteq RowsOf(c, h)
    BY DEF RowsOf
  <2>2. Inserting(c, h)' \subseteq Inserting(c, h)
    BY DEF Inserting
  <2> QED BY <2>1, <2>2, FewerRows
<1> QED BY <1>1 DEF HoursInv

\* A query that finds no row lets one more flusher insert, one that fails too.
LEMMA FindHours ==
    ASSUME FlushAssumption, FlushInv, IdsInv, IdsInv', HoursInv, NEW n \in Node, Find(n)
    PROVE  HoursInv'
<1> DEFINE f == flusher[n]
<1>1. PICK c, found :
        /\ c \in DOMAIN f.work
        /\ \/ found = FirstRow(c, f.hour) /\ failures' = failures
           \/ found = NoRow /\ failures' = failures + 1
        /\ flusher' = [flusher EXCEPT ![n] =
                [f EXCEPT !.pc = "write", !.channel = c, !.found = found]]
  BY FindGives
<1> DEFINE next == [f EXCEPT !.pc = "write", !.channel = c, !.found = found]
<1>2. /\ DOMAIN f = {"pc", "work", "hour", "channel", "found", "flushes"}
      /\ flusher = [p \in Node |-> flusher[p]] /\ f.pc = "find"
  BY DEF FlushInv, FlushersInv, FlusherOK, Find
<1>3. next.pc = "write" /\ next.channel = c /\ next.hour = f.hour /\ next.found = found
  BY <1>2
<1>4. flusher' = [flusher EXCEPT ![n] = next]
  BY <1>1
<1> HIDE DEF next
<1>5. flusher'[n] = next /\ \A p \in Node : p # n => flusher'[p] = flusher[p]
  BY <1>2, <1>4
<1>6. failures \in Nat /\ failures' \in Nat /\ failures <= failures'
  BY <1>1 DEF HoursInv
<1>7. UNCHANGED table
  BY DEF Find
<1>8. ASSUME NEW d \in Channel, NEW h \in Nat PROVE HourOK(d, h)'
  <2>1. RowsOf(d, h)' = RowsOf(d, h)
    BY <1>7 DEF RowsOf
  <2>2. CASE ~(found = NoRow /\ c = d /\ f.hour = h)
    <3>1. Inserting(d, h)' \subseteq Inserting(d, h)
      BY <1>3, <1>5, <2>2 DEF Inserting
    <3> QED BY <1>6, <2>1, <3>1, FewerRows
  <2>3. CASE found = NoRow /\ c = d /\ f.hour = h /\ RowsOf(d, h) = {}
    BY <2>1, <2>3 DEF HourOK
  <2>4. CASE found = NoRow /\ c = d /\ f.hour = h /\ RowsOf(d, h) # {}
    <3>1. \E id \in DOMAIN table : table[id].channel = c /\ table[id].hour = f.hour
      BY <2>4 DEF RowsOf
    <3>2. FirstRow(c, f.hour) # NoRow
      <4>1. PICK id : FirstRow(c, f.hour) = [id |-> id, row |-> table[id]]
        BY <3>1, FoundRow DEF FlushInv
      <4> QED BY <4>1, FoundIsRow
    <3>3. failures' = failures + 1
      BY <1>1, <2>4, <3>2
    <3>4. Inserting(d, h)' = Inserting(d, h) \cup {n} /\ n \notin Inserting(d, h)
      BY <1>2, <1>3, <1>5, <2>4 DEF Inserting
    <3>5. Cardinality(Inserting(d, h)') = Cardinality(Inserting(d, h)) + 1
      BY <3>4, FS_AddElement, HourSets
    <3>6. Cardinality(RowsOf(d, h)) + Cardinality(Inserting(d, h)) <= Cardinality(Node) + failures
      BY <2>4 DEF HoursInv, HourOK
    <3>7. /\ Cardinality(RowsOf(d, h)) \in Nat /\ Cardinality(Inserting(d, h)) \in Nat
          /\ Cardinality(Node) \in Nat
      BY HourSets
    <3>8. Cardinality(RowsOf(d, h)) + (Cardinality(Inserting(d, h)) + 1)
              <= Cardinality(Node) + (failures + 1)
      BY <1>6, <3>6, <3>7
    <3> QED BY <2>1, <3>3, <3>5, <3>8 DEF HourOK
  <2> QED BY <2>2, <2>3, <2>4
<1> QED BY <1>6, <1>8 DEF HoursInv

\* An insert turns a flusher about to insert into a row.
LEMMA InsertHours ==
    ASSUME FlushAssumption, FlushInv, IdsInv, IdsInv', HoursInv, NEW n \in Node, Write(n),
           NEW row \in Row, flusher[n].found = NoRow,
           row.channel = flusher[n].channel, row.hour = flusher[n].hour,
           table' = Set(table, NextId, row), UNCHANGED failures,
           NEW c \in Channel, NEW h \in Nat
    PROVE  HourOK(c, h)'
<1> DEFINE f == flusher[n]
<1>1. /\ f.pc = "write" /\ flusher'[n].pc # "write"
      /\ \A p \in Node : p # n => flusher'[p] = flusher[p]
  BY WriteLeaves DEF Write
<1>2. /\ NextId \notin DOMAIN table /\ DOMAIN table' = DOMAIN table \cup {NextId}
      /\ \A id \in DOMAIN table' : table'[id] = IF id = NextId THEN row ELSE table[id]
  BY NextIdIsNew DEF FlushInv, TableInv, Set
<1>3. CASE ~(row.channel = c /\ row.hour = h)
  <2>1. RowsOf(c, h)' \subseteq RowsOf(c, h)
    BY <1>2, <1>3 DEF RowsOf
  <2>2. Inserting(c, h)' \subseteq Inserting(c, h)
    BY <1>1 DEF Inserting
  <2> QED BY <2>1, <2>2, FewerRows DEF HoursInv
<1>4. CASE row.channel = c /\ row.hour = h
  <2>1. RowsOf(c, h)' = RowsOf(c, h) \cup {NextId} /\ NextId \notin RowsOf(c, h)
    BY <1>2, <1>4 DEF RowsOf
  <2>2. Inserting(c, h)' = Inserting(c, h) \ {n} /\ n \in Inserting(c, h)
    BY <1>1, <1>4 DEF Inserting
  <2>3. Cardinality(RowsOf(c, h)') = Cardinality(RowsOf(c, h)) + 1
    BY <2>1, HourSets, FS_AddElement
  <2>4. Cardinality(Inserting(c, h)') = Cardinality(Inserting(c, h)) - 1
    <3> DEFINE before == Inserting(c, h)
               after == Inserting(c, h)'
    <3>1. IsFiniteSet(before) /\ n \in before /\ after = before \ {n}
      BY <2>2, HourSets
    <3> HIDE DEF before, after
    <3>2. Cardinality(after) = Cardinality(before) - 1
      BY <3>1, FS_RemoveElement
    <3> QED BY <3>2 DEF before, after
  <2>5. /\ Cardinality(RowsOf(c, h)) \in Nat /\ Cardinality(Inserting(c, h)) \in Nat
        /\ Cardinality(Inserting(c, h)) <= Cardinality(Node) /\ Cardinality(Node) \in Nat
        /\ failures \in Nat
    BY HourSets DEF HoursInv
  <2>6. Cardinality(RowsOf(c, h)) + Cardinality(Inserting(c, h)) <= Cardinality(Node) + failures
    <3>1. CASE RowsOf(c, h) = {}
      <4>1. Cardinality(RowsOf(c, h)) = 0
        BY <3>1, FS_EmptySet
      <4> QED BY <2>5, <4>1
    <3>2. CASE RowsOf(c, h) # {}
      BY <3>2 DEF HoursInv, HourOK
    <3> QED BY <3>1, <3>2
  <2>7. (Cardinality(RowsOf(c, h)) + 1) + (Cardinality(Inserting(c, h)) - 1)
          <= Cardinality(Node) + failures
    BY <2>5, <2>6
  <2> QED BY <2>3, <2>4, <2>7 DEF HourOK
<1> QED BY <1>3, <1>4

LEMMA WriteHours ==
    ASSUME FlushAssumption, FlushInv, IdsInv, IdsInv', HoursInv, NEW n \in Node, Write(n)
    PROVE  HoursInv'
<1> DEFINE f == flusher[n]
<1>1. FlusherOK(f, hour) /\ f.pc = "write" /\ FoundOK(f)
  BY DEF FlushInv, FlushersInv, IdsInv, Write
<1>2. \/ table' = Stored(f) /\ UNCHANGED failures
      \/ UNCHANGED table /\ failures' = failures + 1
  BY DEF Write
<1>3. failures' \in Nat /\ failures <= failures'
  BY <1>2 DEF HoursInv
<1>4. PICK row \in Row :
        \/ /\ f.found = NoRow /\ row.channel = f.channel /\ row.hour = f.hour
           /\ Stored(f) = Set(table, NextId, row)
        \/ /\ f.found # NoRow /\ f.found.id \in DOMAIN table
           /\ row.channel = f.found.row.channel /\ row.hour = f.found.row.hour
           /\ Stored(f) = [table EXCEPT ![f.found.id] = row]
        \/ Stored(f) = table
  BY <1>1, StoredRow DEF FlushInv
<1>5. ASSUME NEW c \in Channel, NEW h \in Nat PROVE HourOK(c, h)'
  <2>1. Inserting(c, h)' \subseteq Inserting(c, h)
    BY WriteLeaves DEF Inserting
  <2>2. CASE f.found = NoRow /\ row.channel = f.channel /\ row.hour = f.hour
             /\ table' = Set(table, NextId, row) /\ UNCHANGED failures
    BY <2>2, InsertHours
  <2>3. CASE f.found # NoRow /\ f.found.id \in DOMAIN table
             /\ row.channel = f.found.row.channel /\ row.hour = f.found.row.hour
             /\ table' = [table EXCEPT ![f.found.id] = row]
    <3>1. table[f.found.id].channel = row.channel /\ table[f.found.id].hour = row.hour
      BY <1>1, <2>3 DEF FoundOK
    <3>2. RowsOf(c, h)' \subseteq RowsOf(c, h)
      BY <2>3, <3>1 DEF RowsOf
    <3> QED BY <1>3, <2>1, <3>2, FewerRows
  <2>4. CASE UNCHANGED table
    <3>1. RowsOf(c, h)' \subseteq RowsOf(c, h)
      BY <2>4 DEF RowsOf
    <3> QED BY <1>3, <2>1, <3>1, FewerRows
  <2> QED BY <1>2, <1>4, <2>2, <2>3, <2>4
<1> QED BY <1>3, <1>5 DEF HoursInv

LEMMA HoursStep ==
    ASSUME FlushAssumption, FlushInv, IdsInv, IdsInv', HoursInv, [Next]_vars
    PROVE  HoursInv'
<1>1. failures \in Nat /\ failures <= failures /\ failures <= failures + 1 /\ failures + 1 \in Nat
  BY DEF HoursInv
<1>2. CASE UNCHANGED <<flusher, table, failures>>
  BY <1>1, <1>2, QuietHours
<1>3. ASSUME NEW n \in Node, NEW c \in Channel, NEW latency \in Latency, NEW isError \in BOOLEAN
      PROVE  RecordChannelRequest(n, c, latency, isError) => UNCHANGED <<flusher, table, failures>>
  BY DEF RecordChannelRequest, faults
<1>4. ASSUME NEW n \in Node, NEW c \in Channel
      PROVE  RecordChannelDisable(n, c) => UNCHANGED <<flusher, table, failures>>
  BY DEF RecordChannelDisable, faults
<1>5. HourPasses \/ UNCHANGED vars => UNCHANGED <<flusher, table, failures>>
  BY DEF HourPasses, vars, faults
<1>6. ASSUME NEW n \in Node, TakeCache(n) \/ Crash(n) PROVE HoursInv'
  <2>1. UNCHANGED <<table, failures>>
    BY <1>6 DEF TakeCache, Crash, faults
  <2>2. \A p \in Node : p # n => flusher'[p] = flusher[p]
    BY <1>6 DEF TakeCache, Crash, FlushInv, FlushersInv
  <2>3. flusher'[n].pc # "write"
    <3>1. /\ DOMAIN flusher[n] = {"pc", "work", "hour", "channel", "found", "flushes"}
          /\ flusher = [p \in Node |-> flusher[p]]
      BY DEF FlushInv, FlushersInv, FlusherOK
    <3>2. Flushed(flusher[n]).pc # "write"
      BY <3>1, FlushedFound
    <3> QED BY ZenonT(60), <1>6, <3>1, <3>2 DEF TakeCache, Crash
  <2> QED BY <1>1, <2>1, <2>2, <2>3, QuietHours
<1>7. ASSUME NEW n \in Node, Cleanup(n) PROVE HoursInv'
  <2>1. /\ DOMAIN table' \subseteq DOMAIN table
        /\ \A id \in DOMAIN table' : table'[id] = table[id]
    BY <1>7, CleanupTakes DEF Restrict
  <2>2. failures' = failures \/ failures' = failures + 1
    BY <1>7, Zenon DEF Cleanup
  <2>3. /\ DOMAIN flusher[n] = {"pc", "work", "hour", "channel", "found", "flushes"}
        /\ flusher = [p \in Node |-> flusher[p]]
        /\ flusher' = [flusher EXCEPT ![n].pc = "sleep"]
    BY <1>7 DEF FlushInv, FlushersInv, FlusherOK, Cleanup
  <2>4. \A p \in Node : flusher'[p] = flusher[p] \/ flusher'[p].pc # "write"
    BY <2>3
  <2> QED BY <1>1, <2>1, <2>2, <2>4, QuietHours
<1>8. ASSUME NEW n \in Node PROVE Find(n) \/ Write(n) => HoursInv'
  BY FindHours, WriteHours
<1> QED BY <1>2, <1>3, <1>4, <1>5, <1>6, <1>7, <1>8 DEF Next

LEMMA IdsInvariant == Spec => []IdsInv
<1>1. Init => IdsInv
  BY IdsInit, FlushAssumption
<1>2. FlushInv /\ IdsInv /\ [Next]_vars => IdsInv'
  BY IdsStep, FlushAssumption
<1> QED BY <1>1, <1>2, FlushInvariant, PTL DEF Spec

\* An hour of a channel never has more rows than there are nodes and failed queries, for any
\* of them and whatever is recorded, cleaned up or crashes: the merge that FlushHealthCache does
\* by hand makes a second row only where two nodes look at once or a query fails.
THEOREM HourRowsBounded == Spec => []RowsBounded
<1>1. Init => HoursInv
  <2> SUFFICES ASSUME Init PROVE HoursInv
    OBVIOUS
  <2>1. DOMAIN table = {} /\ failures = 0
    BY DEF Init
  <2> QED BY <2>1 DEF HoursInv, HourOK, RowsOf
<1>2. FlushInv /\ IdsInv /\ IdsInv' /\ HoursInv /\ [Next]_vars => HoursInv'
  BY HoursStep, FlushAssumption
<1>3. FlushInv /\ IdsInv /\ HoursInv => RowsBounded
  <2> SUFFICES ASSUME FlushInv, IdsInv, HoursInv, NEW i \in DOMAIN table
               PROVE  Cardinality({j \in DOMAIN table : /\ table[j].channel = table[i].channel
                                                        /\ table[j].hour = table[i].hour})
                        <= Cardinality(Node) + failures
    BY DEF RowsBounded
  <2> DEFINE c == table[i].channel
             h == table[i].hour
  <2>1. c \in Channel /\ h \in Nat
    BY DEF FlushInv, TableInv, Row
  <2>2. i \in RowsOf(c, h)
    BY DEF RowsOf
  <2>3. Cardinality(RowsOf(c, h)) + Cardinality(Inserting(c, h)) <= Cardinality(Node) + failures
    BY <2>1, <2>2 DEF HoursInv, HourOK
  <2>4. /\ Cardinality(RowsOf(c, h)) \in Nat /\ Cardinality(Inserting(c, h)) \in Nat
        /\ Cardinality(Node) \in Nat /\ failures \in Nat
    BY HourSets, FlushAssumption DEF HoursInv
  <2>5. Cardinality(RowsOf(c, h)) <= Cardinality(Node) + failures
    BY <2>3, <2>4
  <2> QED BY <2>5 DEF RowsOf
<1> QED BY <1>1, <1>2, <1>3, FlushInvariant, IdsInvariant, PTL DEF Spec

-----------------------------------------------------------------------------
(* What is counted.                                                        *)

Recorded == [requests : Nat, errors : Nat, successes : Nat, disables : Nat, total : Nat,
             latencies : SUBSET Latency]

HistoryInv == recorded \in [Channel -> Recorded] /\ lost \in [Channel -> [Counter -> Nat]]

\* m gives every row a bound on what the row holds, and on what a flusher that found it may put
\* in its place; as long as nothing was overwritten it is what the row holds.
Bounds(m, c, k) ==
    /\ m \in [DOMAIN table -> Nat]
    /\ \A id \in DOMAIN table : Share(table[id], c, k) <= m[id]
    /\ \A n \in Node : LET found == flusher[n].found IN
        found # NoRow /\ found.id \in DOMAIN table => Share(found.row, c, k) <= m[found.id]
    /\ ~stale => \A id \in DOMAIN table : m[id] = Share(table[id], c, k)

Balance(m, c, k) ==
    SumFunctionOnSet(m, DOMAIN table) + InExpired(c, k) + InMemory(c, k) + lost[c][k]

\* With such bounds in the place of the rows, nothing is counted twice.
CountOK(c, k) ==
    \E m : /\ Bounds(m, c, k)
           /\ Balance(m, c, k) <= recorded[c][k]
           /\ ~stale => Balance(m, c, k) = recorded[c][k]

CountsInv == HistoryInv /\ \A c \in Channel, k \in Counter : CountOK(c, k)

\* A counter is a natural.
LEMMA Counters ==
    ASSUME NEW s, s \in Snapshot \/ s \in Row \/ s \in Recorded, NEW k \in Counter
    PROVE  s[k] \in Nat
<1>1. CASE k = "requests"
  BY <1>1 DEF Snapshot, Row, Recorded
<1>2. CASE k = "errors"
  BY <1>2 DEF Snapshot, Row, Recorded
<1>3. CASE k = "successes"
  BY <1>3 DEF Snapshot, Row, Recorded
<1>4. CASE k = "disables"
  BY <1>4 DEF Snapshot, Row, Recorded
<1>5. CASE k = "total"
  BY <1>5 DEF Snapshot, Row, Recorded
<1> QED BY <1>1, <1>2, <1>3, <1>4, <1>5 DEF Counter

\* A merge adds every counter.
LEMMA MergedCounts ==
    ASSUME NEW row \in Row, NEW snap, NEW k \in Counter
    PROVE  Merged(row, snap)[k] = row[k] + snap[k]
<1> DEFINE max == Max({row.max, snap.max})
           min == LowerOf(row.min, snap.min)
           requests == row.requests + snap.requests
           errors == row.errors + snap.errors
           successes == row.successes + snap.successes
           disables == row.disables + snap.disables
           total == row.total + snap.total
           new == [row EXCEPT !.requests = requests, !.errors = errors,
                              !.successes = successes, !.disables = disables,
                              !.total = total, !.max = max, !.min = min]
<1>1. Merged(row, snap) = new
  BY Zenon DEF Merged
<1> HIDE DEF requests, errors, successes, disables, total, max, min
<1>2. /\ new.requests = requests /\ new.errors = errors /\ new.successes = successes
      /\ new.disables = disables /\ new.total = total
  BY DEF Row
<1> HIDE DEF new
<1>3. CASE k = "requests"
  BY <1>1, <1>2, <1>3 DEF requests
<1>4. CASE k = "errors"
  BY <1>1, <1>2, <1>4 DEF errors
<1>5. CASE k = "successes"
  BY <1>1, <1>2, <1>5 DEF successes
<1>6. CASE k = "disables"
  BY <1>1, <1>2, <1>6 DEF disables
<1>7. CASE k = "total"
  BY <1>1, <1>2, <1>7 DEF total
<1> QED BY <1>3, <1>4, <1>5, <1>6, <1>7 DEF Counter

\* What a request adds to a counter.
Adds(k, latency, isError) ==
    CASE k = "requests" -> 1
      [] k = "total" -> latency
      [] k = "errors" -> IF isError THEN 1 ELSE 0
      [] k = "successes" -> IF isError THEN 0 ELSE 1
      [] OTHER -> 0

LEMMA AddsNatural ==
    ASSUME NEW k, NEW latency \in Nat, NEW isError
    PROVE  Adds(k, latency, isError) \in Nat
BY DEF Adds

LEMMA CountedCounts ==
    ASSUME NEW snap \in Snapshot, NEW latency \in Nat, NEW isError \in BOOLEAN,
           NEW k \in Counter
    PROVE  Counted(snap, latency, isError)[k] = snap[k] + Adds(k, latency, isError)
<1> DEFINE requests == snap.requests + 1
           total == snap.total + latency
           max == Max({snap.max, latency})
           min == LowerOf(snap.min, latency)
           errors == IF isError THEN snap.errors + 1 ELSE snap.errors
           successes == IF isError THEN snap.successes ELSE snap.successes + 1
           new == [snap EXCEPT !.requests = requests, !.total = total, !.max = max,
                               !.min = min, !.errors = errors, !.successes = successes]
<1>1. Counted(snap, latency, isError) = new
  BY Zenon DEF Counted
<1> HIDE DEF requests, errors, successes, total, max, min
<1>2. /\ new.requests = requests /\ new.errors = errors /\ new.successes = successes
      /\ new.disables = snap.disables /\ new.total = total
  BY DEF Snapshot
<1> HIDE DEF new
<1>3. CASE k = "requests"
  BY <1>1, <1>2, <1>3 DEF requests, Adds
<1>4. CASE k = "errors"
  BY <1>1, <1>2, <1>4 DEF errors, Adds, Snapshot
<1>5. CASE k = "successes"
  BY <1>1, <1>2, <1>5 DEF successes, Adds, Snapshot
<1>6. CASE k = "disables"
  BY <1>1, <1>2, <1>6 DEF Adds, Snapshot
<1>7. CASE k = "total"
  BY <1>1, <1>2, <1>7 DEF total, Adds
<1> QED BY <1>3, <1>4, <1>5, <1>6, <1>7 DEF Counter

LEMMA CountNatural ==
    ASSUME NEW w, IsWork(w), NEW c, NEW k \in Counter
    PROVE  CountIn(w, c, k) \in Nat
BY Counters DEF IsWork, CountIn

LEMMA HeldNatural ==
    ASSUME FlushInv, NEW n \in Node, NEW c, NEW k \in Counter
    PROVE  Held(n, c, k) \in Nat
<1>1. IsWork(cache[n]) /\ IsWork(flusher[n].work)
  BY DEF FlushInv, CachesInv, FlushersInv, FlusherOK
<1>2. CountIn(cache[n], c, k) \in Nat /\ CountIn(flusher[n].work, c, k) \in Nat
  BY <1>1, CountNatural
<1> QED BY <1>2 DEF Held

\* What one node holds changes the sum by as much.
LEMMA MemoryChanges ==
    ASSUME FlushAssumption, FlushInv, FlushInv', NEW n \in Node, NEW c, NEW k \in Counter,
           \A p \in Node : p # n => /\ cache'[p] = cache[p]
                                    /\ flusher'[p].work = flusher[p].work
    PROVE  /\ InMemory(c, k) \in Int /\ Held(n, c, k) \in Int /\ Held(n, c, k)' \in Int
           /\ InMemory(c, k)' = InMemory(c, k) + (Held(n, c, k)' - Held(n, c, k))
<1> DEFINE before == [p \in Node |-> Held(p, c, k)]
           after == [p \in Node |-> Held(p, c, k)']
<1>1. \A p \in Node : Held(p, c, k) \in Nat /\ Held(p, c, k)' \in Nat
  <2>1. \A p \in Node : IsWork(cache'[p]) /\ IsWork(flusher'[p].work)
    BY DEF FlushInv, CachesInv, FlushersInv, FlusherOK
  <2>2. \A p \in Node : /\ CountIn(cache'[p], c, k) \in Nat
                         /\ CountIn(flusher'[p].work, c, k) \in Nat
    BY <2>1, CountNatural
  <2>3. \A p \in Node : Held(p, c, k)' \in Nat
    BY <2>2 DEF Held
  <2> QED BY <2>3, HeldNatural
<1>2. \A p \in Node : p # n => Held(p, c, k)' = Held(p, c, k)
  BY DEF Held
<1>3. /\ \A p \in Node : before[p] \in Int /\ after[p] \in Int
      /\ \A p \in Node : p # n => after[p] = before[p]
      /\ before[n] = Held(n, c, k) /\ after[n] = Held(n, c, k)'
  BY <1>1, <1>2
<1>4. IsFiniteSet(Node)
  BY DEF FlushAssumption
<1>5. InMemory(c, k) = SumFunctionOnSet(before, Node)
  BY DEF InMemory
<1>6. InMemory(c, k)' = SumFunctionOnSet(after, Node)
  BY DEF InMemory
<1> HIDE DEF before, after
<1>7. /\ SumFunctionOnSet(before, Node) \in Int
      /\ SumFunctionOnSet(after, Node)
            = SumFunctionOnSet(before, Node) + (after[n] - before[n])
  BY <1>3, <1>4, SumChanges
<1> QED BY <1>1, <1>3, <1>5, <1>6, <1>7

\* The sums are integers.
LEMMA SumsAreIntegers ==
    ASSUME FlushAssumption, FlushInv, IdsInv, NEW c, NEW k \in Counter
    PROVE  /\ InMemory(c, k) \in Int /\ InExpired(c, k) \in Int
           /\ \A m \in [DOMAIN table -> Nat] : SumFunctionOnSet(m, DOMAIN table) \in Int
<1>1. InMemory(c, k) \in Int
  <2> DEFINE f == [p \in Node |-> Held(p, c, k)]
  <2>1. \A p \in Node : f[p] \in Int
    BY HeldNatural
  <2>2. InMemory(c, k) = SumFunctionOnSet(f, Node)
    BY DEF InMemory
  <2> HIDE DEF f
  <2> QED BY <2>1, <2>2, SumTakesOut DEF FlushAssumption
<1>2. InExpired(c, k) \in Int
  <2> DEFINE f == [e \in expired |-> Share(e.row, c, k)]
  <2>1. \A e \in expired : f[e] \in Int
    <3>1. \A e \in expired : e.row \in Row
      BY DEF IdsInv
    <3>2. \A e \in expired : e.row[k] \in Nat
      BY <3>1, Counters
    <3> QED BY <3>2 DEF Share
  <2>2. InExpired(c, k) = SumFunctionOnSet(f, expired)
    BY DEF InExpired
  <2> HIDE DEF f
  <2> QED BY <2>1, <2>2, SumTakesOut DEF IdsInv
<1>3. ASSUME NEW m \in [DOMAIN table -> Nat] PROVE SumFunctionOnSet(m, DOMAIN table) \in Int
  <2>1. \A id \in DOMAIN table : m[id] \in Int
    OBVIOUS
  <2> QED BY <2>1, SumTakesOut DEF IdsInv
<1> QED BY <1>1, <1>2, <1>3

\* A step that leaves the rows alone, and what it records, loses and holds in balance.
LEMMA CountsMove ==
    ASSUME FlushAssumption, FlushInv, IdsInv, HistoryInv, NEW c \in Channel, NEW k \in Counter,
           CountOK(c, k), UNCHANGED <<table, expired>>, stale => stale',
           ~stale' => UNCHANGED stale,
           \A p \in Node : LET found == flusher'[p].found IN
               \/ found = NoRow \/ found = flusher[p].found
               \/ found.id \in DOMAIN table /\ found.row = table[found.id],
           NEW d \in Int, NEW l \in Int, NEW x \in Int,
           recorded'[c][k] = recorded[c][k] + d,
           lost'[c][k] = lost[c][k] + l,
           InMemory(c, k)' = InMemory(c, k) + x,
           l + x <= d, stale' \/ l + x = d
    PROVE  CountOK(c, k)'
<1>1. PICK m : /\ Bounds(m, c, k)
               /\ Balance(m, c, k) <= recorded[c][k]
               /\ ~stale => Balance(m, c, k) = recorded[c][k]
  BY DEF CountOK
<1> DEFINE rows == SumFunctionOnSet(m, DOMAIN table)
           old == InExpired(c, k)
<1>2. rows \in Int /\ old \in Int /\ InMemory(c, k) \in Int /\ lost[c][k] \in Int
  BY <1>1, SumsAreIntegers DEF Bounds, HistoryInv
<1>3. recorded[c][k] \in Int
  BY Counters DEF HistoryInv
<1>4. /\ SumFunctionOnSet(m, DOMAIN table)' = rows
      /\ InExpired(c, k)' = old
  BY DEF InExpired
<1>5. Balance(m, c, k) = rows + old + InMemory(c, k) + lost[c][k]
  BY DEF Balance
<1>6. Balance(m, c, k)' = rows + old + (InMemory(c, k) + x) + (lost[c][k] + l)
  BY <1>4 DEF Balance
<1> HIDE DEF rows, old
<1>7. Balance(m, c, k)' = Balance(m, c, k) + (x + l)
  BY <1>2, <1>5, <1>6
<1>8. Balance(m, c, k) \in Int
  BY <1>2, <1>5
<1>9. /\ Balance(m, c, k)' <= recorded'[c][k]
      /\ ~stale' => Balance(m, c, k)' = recorded'[c][k]
  BY <1>1, <1>3, <1>7, <1>8
<1>10. Bounds(m, c, k)'
  <2>1. \A n \in Node : LET found == flusher'[n].found IN
            found # NoRow /\ found.id \in DOMAIN table => Share(found.row, c, k) <= m[found.id]
    BY <1>1 DEF Bounds
  <2> QED BY <1>1, <2>1 DEF Bounds
<1> QED BY <1>9, <1>10 DEF CountOK

\* What is recorded is held.
LEMMA RequestCounts ==
    ASSUME FlushAssumption, FlushInv, FlushInv', IdsInv, CountsInv,
           NEW n \in Node, NEW e \in Channel, NEW latency \in Latency, NEW isError \in BOOLEAN,
           RecordChannelRequest(n, e, latency, isError)
    PROVE  CountsInv'
<1> DEFINE adds(k) == Adds(k, latency, isError)
           old == SnapshotOf(n, e)
           new == Counted(old, latency, isError)
<1>1. latency \in Nat
  BY DEF FlushAssumption
<1>2. old \in Snapshot /\ \A k \in Counter : old[k] = CountIn(cache[n], e, k)
  <2>1. \A k \in Counter : Nothing[k] = 0
    BY DEF Nothing, Counter
  <2>2. Nothing \in Snapshot
    BY DEF Nothing, Snapshot
  <2> QED BY <2>1, <2>2 DEF SnapshotOf, CountIn, FlushInv, CachesInv, IsWork
<1>3. \A k \in Counter : new[k] = old[k] + adds(k) /\ adds(k) \in Nat
  BY <1>1, <1>2, CountedCounts, AddsNatural
<1>4. /\ cache' = [cache EXCEPT ![n] = Set(@, e, new)]
      /\ cache = [p \in Node |-> cache[p]]
      /\ UNCHANGED <<flusher, table, lost, stale, expired>>
  BY DEF RecordChannelRequest, FlushInv, CachesInv
<1> HIDE DEF old, new
<1>5. /\ \A p \in Node : p # n => cache'[p] = cache[p] /\ flusher'[p].work = flusher[p].work
      /\ cache'[n] = Set(cache[n], e, new)
  BY <1>4
<1>6. HistoryInv' /\ \A c \in Channel, k \in Counter :
        recorded'[c][k] = recorded[c][k] + (IF c = e THEN adds(k) ELSE 0)
  <2> DEFINE r == recorded[e]
             requests == r.requests + 1
             total == r.total + latency
             errors == r.errors + (IF isError THEN 1 ELSE 0)
             successes == r.successes + (IF isError THEN 0 ELSE 1)
             latencies == r.latencies \cup {latency}
             s == [r EXCEPT !.requests = requests, !.total = total, !.errors = errors,
                            !.successes = successes, !.latencies = latencies]
  <2>1. r \in Recorded
    BY DEF CountsInv, HistoryInv
  <2>2. recorded' = [recorded EXCEPT ![e] = s]
    BY Zenon DEF RecordChannelRequest
  <2>3. /\ requests \in Nat /\ total \in Nat /\ errors \in Nat /\ successes \in Nat
        /\ latencies \in SUBSET Latency
    BY <1>1, <2>1 DEF Recorded
  <2> HIDE DEF requests, total, errors, successes, latencies
  <2>4. /\ s \in Recorded
        /\ s.requests = requests /\ s.total = total /\ s.errors = errors
        /\ s.successes = successes /\ s.disables = r.disables
    BY <2>1, <2>3 DEF Recorded
  <2>5. ASSUME NEW k \in Counter PROVE s[k] = r[k] + adds(k)
    <3> HIDE DEF s, r
    <3>1. CASE k = "requests"
      BY <2>4, <3>1 DEF Adds, requests
    <3>2. CASE k = "errors"
      BY <2>4, <3>2 DEF Adds, errors
    <3>3. CASE k = "successes"
      BY <2>4, <3>3 DEF Adds, successes
    <3>4. CASE k = "disables"
      BY <2>1, <2>4, <3>4 DEF Adds, Recorded
    <3>5. CASE k = "total"
      BY <2>4, <3>5 DEF Adds, total
    <3> QED BY <3>1, <3>2, <3>3, <3>4, <3>5 DEF Counter
  <2> HIDE DEF s, adds
  <2>6. HistoryInv'
    BY <1>4, <2>2, <2>4 DEF CountsInv, HistoryInv
  <2>7. ASSUME NEW c \in Channel, NEW k \in Counter
        PROVE  recorded'[c][k] = recorded[c][k] + (IF c = e THEN adds(k) ELSE 0)
    <3>1. recorded[c][k] \in Nat
      BY Counters DEF CountsInv, HistoryInv
    <3>2. recorded'[c] = IF c = e THEN s ELSE recorded[c]
      BY <2>2 DEF CountsInv, HistoryInv
    <3> QED BY <2>5, <3>1, <3>2
  <2> QED BY <2>6, <2>7
<1>7. ASSUME NEW c \in Channel, NEW k \in Counter PROVE CountOK(c, k)'
  <2> DEFINE d == IF c = e THEN adds(k) ELSE 0
  <2>1. d \in Int /\ 0 \in Int /\ 0 + d <= d /\ 0 + d = d
    BY <1>3
  <2>2. CountIn(cache[n], c, k) \in Nat /\ CountIn(flusher[n].work, c, k) \in Nat
    BY CountNatural DEF FlushInv, CachesInv, FlushersInv, FlusherOK
  <2>3. CountIn(cache'[n], c, k) = CountIn(cache[n], c, k) + d
    <3>1. CASE c = e
      <4>1. CountIn(cache'[n], c, k) = new[k]
        BY <1>5, <3>1 DEF CountIn, Set
      <4> QED BY <1>2, <1>3, <3>1, <4>1
    <3>2. CASE c # e
      <4>1. CountIn(cache'[n], c, k) = CountIn(cache[n], c, k)
        BY <1>5, <3>2 DEF CountIn, Set
      <4> QED BY <2>2, <3>2, <4>1
    <3> QED BY <3>1, <3>2
  <2>4. Held(n, c, k)' - Held(n, c, k) = d
    <3>1. flusher'[n].work = flusher[n].work
      BY <1>4
    <3> HIDE DEF d
    <3> QED BY <2>1, <2>2, <2>3, <3>1 DEF Held
  <2>5. InMemory(c, k)' = InMemory(c, k) + d
    BY <1>5, <2>4, MemoryChanges
  <2>6. recorded'[c][k] = recorded[c][k] + d
    BY <1>6
  <2>7. lost'[c][k] = lost[c][k] + 0
    BY <1>4 DEF CountsInv, HistoryInv
  <2> HIDE DEF d
  <2> QED BY <1>4, <2>1, <2>5, <2>6, <2>7, CountsMove DEF CountsInv
<1> QED BY <1>6, <1>7 DEF CountsInv

LEMMA DisableCounts ==
    ASSUME FlushAssumption, FlushInv, FlushInv', IdsInv, CountsInv,
           NEW n \in Node, NEW e \in Channel, RecordChannelDisable(n, e)
    PROVE  CountsInv'
<1> DEFINE adds(k) == IF k = "disables" THEN 1 ELSE 0
           old == SnapshotOf(n, e)
           new == [old EXCEPT !.disables = @ + 1]
<1>1. old \in Snapshot /\ \A k \in Counter : old[k] = CountIn(cache[n], e, k)
  <2>1. \A k \in Counter : Nothing[k] = 0
    BY DEF Nothing, Counter
  <2>2. Nothing \in Snapshot
    BY DEF Nothing, Snapshot
  <2> QED BY <2>1, <2>2 DEF SnapshotOf, CountIn, FlushInv, CachesInv, IsWork
<1>2. ASSUME NEW k \in Counter PROVE new[k] = old[k] + adds(k)
  <2> HIDE DEF old
  <2>1. CASE k = "disables"
    BY <1>1, <2>1 DEF Snapshot
  <2>2. CASE k # "disables"
    <3>1. new[k] = old[k] /\ old[k] \in Nat
      BY <1>1, <2>2, Counters DEF Snapshot, Counter
    <3> QED BY <2>2, <3>1
  <2> QED BY <2>1, <2>2
<1>3. /\ cache' = [cache EXCEPT ![n] = Set(@, e, new)]
      /\ cache = [p \in Node |-> cache[p]]
      /\ recorded' = [recorded EXCEPT ![e].disables = @ + 1]
      /\ UNCHANGED <<flusher, table, lost, stale, expired>>
  BY DEF RecordChannelDisable, FlushInv, CachesInv
<1> HIDE DEF old, new
<1>4. /\ \A p \in Node : p # n => cache'[p] = cache[p] /\ flusher'[p].work = flusher[p].work
      /\ cache'[n] = Set(cache[n], e, new)
  BY <1>3
<1> DEFINE r == recorded[e]
           s == [r EXCEPT !.disables = @ + 1]
<1>5. r \in Recorded /\ recorded' = [recorded EXCEPT ![e] = s]
  BY <1>3 DEF CountsInv, HistoryInv
<1>6. HistoryInv' /\ \A c \in Channel, k \in Counter :
        recorded'[c][k] = recorded[c][k] + (IF c = e THEN adds(k) ELSE 0)
  <2>1. s \in Recorded /\ s.disables = r.disables + 1
    BY <1>5 DEF Recorded
  <2>2. ASSUME NEW k \in Counter PROVE s[k] = r[k] + adds(k)
    <3>1. CASE k = "disables"
      BY <2>1, <3>1
    <3>2. CASE k # "disables"
      <4>1. s[k] = r[k] /\ r[k] \in Nat
        BY <1>5, <3>2, Counters DEF Recorded, Counter
      <4> QED BY <3>2, <4>1
    <3> QED BY <3>1, <3>2
  <2> HIDE DEF s, adds
  <2>3. HistoryInv'
    BY <1>3, <1>5, <2>1 DEF CountsInv, HistoryInv
  <2>4. ASSUME NEW c \in Channel, NEW k \in Counter
        PROVE  recorded'[c][k] = recorded[c][k] + (IF c = e THEN adds(k) ELSE 0)
    <3>1. recorded[c][k] \in Nat
      BY Counters DEF CountsInv, HistoryInv
    <3>2. recorded'[c] = IF c = e THEN s ELSE recorded[c]
      BY <1>5 DEF CountsInv, HistoryInv
    <3> QED BY <2>2, <3>1, <3>2
  <2> QED BY <2>3, <2>4
<1> HIDE DEF s
<1>7. ASSUME NEW c \in Channel, NEW k \in Counter PROVE CountOK(c, k)'
  <2> DEFINE d == IF c = e THEN adds(k) ELSE 0
  <2>1. d \in Int /\ 0 \in Int /\ 0 + d <= d /\ 0 + d = d
    OBVIOUS
  <2>2. CountIn(cache[n], c, k) \in Nat /\ CountIn(flusher[n].work, c, k) \in Nat
    BY CountNatural DEF FlushInv, CachesInv, FlushersInv, FlusherOK
  <2>3. CountIn(cache'[n], c, k) = CountIn(cache[n], c, k) + d
    <3>1. CASE c = e
      <4>1. CountIn(cache'[n], c, k) = new[k]
        BY <1>4, <3>1 DEF CountIn, Set
      <4> QED BY <1>1, <1>2, <3>1, <4>1
    <3>2. CASE c # e
      <4>1. CountIn(cache'[n], c, k) = CountIn(cache[n], c, k)
        BY <1>4, <3>2 DEF CountIn, Set
      <4> QED BY <2>2, <3>2, <4>1
    <3> QED BY <3>1, <3>2
  <2>4. Held(n, c, k)' - Held(n, c, k) = d
    <3>1. flusher'[n].work = flusher[n].work
      BY <1>3
    <3> HIDE DEF d
    <3> QED BY <2>1, <2>2, <2>3, <3>1 DEF Held
  <2>5. InMemory(c, k)' = InMemory(c, k) + d
    BY <1>4, <2>4, MemoryChanges
  <2>6. recorded'[c][k] = recorded[c][k] + d
    BY <1>6
  <2>7. lost'[c][k] = lost[c][k] + 0
    BY <1>3 DEF CountsInv, HistoryInv
  <2> HIDE DEF d
  <2> QED BY <1>3, <2>1, <2>5, <2>6, <2>7, CountsMove DEF CountsInv
<1> QED BY <1>6, <1>7 DEF CountsInv

\* What a flusher takes is as much as what leaves the cache; what it looks for changes nothing.
LEMMA TakeCacheCounts ==
    ASSUME FlushAssumption, FlushInv, FlushInv', IdsInv, CountsInv,
           NEW n \in Node, TakeCache(n)
    PROVE  CountsInv'
<1> DEFINE f == flusher[n]
<1>1. /\ DOMAIN f = {"pc", "work", "hour", "channel", "found", "flushes"}
      /\ f.work = Empty /\ f.found = NoRow
      /\ flusher = [p \in Node |-> flusher[p]] /\ cache = [p \in Node |-> cache[p]]
  BY DEF FlushInv, FlushersInv, FlusherOK, CachesInv, IdsInv, FoundOK, TakeCache
<1>2. /\ cache'[n] = Empty /\ flusher'[n].work = cache[n] /\ flusher'[n].found = NoRow
      /\ \A p \in Node : p # n => cache'[p] = cache[p] /\ flusher'[p] = flusher[p]
      /\ UNCHANGED <<table, expired, recorded, lost, stale>>
  <2>1. Flushed(f).work = f.work /\ Flushed(f).found = f.found
    BY <1>1, FlushedFound
  <2> QED BY <1>1, <2>1 DEF TakeCache, history
<1>3. ASSUME NEW c \in Channel, NEW k \in Counter PROVE CountOK(c, k)'
  <2>1. CountIn(Empty, c, k) = 0
    BY DEF CountIn, Empty
  <2>2. CountIn(cache[n], c, k) \in Nat
    BY CountNatural DEF FlushInv, CachesInv
  <2>3. Held(n, c, k)' - Held(n, c, k) = 0
    BY <1>1, <1>2, <2>1, <2>2 DEF Held
  <2>4. InMemory(c, k)' = InMemory(c, k) + 0
    BY <1>2, <2>3, MemoryChanges
  <2>5. recorded'[c][k] = recorded[c][k] + 0 /\ lost'[c][k] = lost[c][k] + 0
    BY <1>2, Counters DEF CountsInv, HistoryInv
  <2>6. 0 \in Int /\ 0 + 0 <= 0 /\ 0 + 0 = 0
    OBVIOUS
  <2> QED BY <1>2, <2>4, <2>5, <2>6, CountsMove DEF CountsInv
<1> QED BY <1>2, <1>3 DEF CountsInv, HistoryInv

LEMMA FindCounts ==
    ASSUME FlushAssumption, FlushInv, FlushInv', IdsInv, CountsInv, NEW n \in Node, Find(n)
    PROVE  CountsInv'
<1> DEFINE f == flusher[n]
<1>1. PICK c, found :
        /\ c \in DOMAIN f.work
        /\ flusher' = [flusher EXCEPT ![n] =
                [f EXCEPT !.pc = "write", !.channel = c, !.found = found]]
        /\ \/ found = NoRow
           \/ \E id \in DOMAIN table :
                /\ found = [id |-> id, row |-> table[id]]
                /\ table[id].channel = c /\ table[id].hour = f.hour
  BY FindGives
<1>2. /\ DOMAIN f = {"pc", "work", "hour", "channel", "found", "flushes"}
      /\ flusher = [p \in Node |-> flusher[p]]
      /\ UNCHANGED <<cache, table, expired, recorded, lost, stale>>
  BY DEF FlushInv, FlushersInv, FlusherOK, Find, history
<1>3. /\ flusher'[n].work = f.work /\ flusher'[n].found = found
      /\ \A p \in Node : p # n => flusher'[p] = flusher[p]
  BY <1>1, <1>2
<1>4. \/ found = NoRow
      \/ found.id \in DOMAIN table /\ found.row = table[found.id]
  BY <1>1, FoundIsRow
<1>5. ASSUME NEW d \in Channel, NEW k \in Counter PROVE CountOK(d, k)'
  <2>1. Held(n, d, k)' = Held(n, d, k) /\ Held(n, d, k) \in Nat
    BY <1>2, <1>3, HeldNatural DEF Held
  <2>2. InMemory(d, k)' = InMemory(d, k) + 0
    BY <1>2, <1>3, <2>1, MemoryChanges
  <2>3. recorded'[d][k] = recorded[d][k] + 0 /\ lost'[d][k] = lost[d][k] + 0
    BY <1>2, Counters DEF CountsInv, HistoryInv
  <2>4. 0 \in Int /\ 0 + 0 <= 0 /\ 0 + 0 = 0
    OBVIOUS
  <2>5. \A p \in Node : LET g == flusher'[p].found IN
            \/ g = NoRow \/ g = flusher[p].found
            \/ g.id \in DOMAIN table /\ g.row = table[g.id]
    BY <1>3, <1>4
  <2> QED BY <1>2, <2>2, <2>3, <2>4, <2>5, CountsMove DEF CountsInv
<1> QED BY <1>2, <1>5 DEF CountsInv, HistoryInv

LEMMA SharesAdd ==
    ASSUME NEW row \in Row, NEW snap \in Snapshot, NEW c, NEW k \in Counter
    PROVE  /\ Share(row, c, k) \in Nat /\ snap[k] \in Nat
           /\ Share(Merged(row, snap), c, k)
                = Share(row, c, k) + (IF row.channel = c THEN snap[k] ELSE 0)
<1>1. row[k] \in Nat /\ snap[k] \in Nat
  BY Counters
<1>2. Merged(row, snap).channel = row.channel /\ Merged(row, snap)[k] = row[k] + snap[k]
  BY MergedRow, MergedCounts
<1> QED BY <1>1, <1>2 DEF Share

\* What leaves the hands of a flusher that writes.
WrittenOf(f, c, k) == IF c = f.channel THEN f.work[f.channel][k] ELSE 0

LEMMA WriteHands ==
    ASSUME FlushAssumption, FlushInv, FlushInv', IdsInv, NEW n \in Node, Write(n),
           NEW c \in Channel, NEW k \in Counter
    PROVE  /\ WrittenOf(flusher[n], c, k) \in Nat /\ InMemory(c, k) \in Int
           /\ InMemory(c, k)' = InMemory(c, k) + (-WrittenOf(flusher[n], c, k))
<1> DEFINE f == flusher[n]
           written == WrittenOf(f, c, k)
<1>1. IsWork(f.work) /\ f.channel \in DOMAIN f.work
  BY DEF FlushInv, FlushersInv, FlusherOK, Write
<1>2. written \in Nat /\ CountIn(f.work, c, k) \in Nat
  BY SMTT(60), <1>1, CountNatural DEF WrittenOf, CountIn
<1>3. /\ flusher'[n].work = Restrict(f.work, DOMAIN f.work \ {f.channel})
      /\ cache' = cache /\ \A p \in Node : p # n => flusher'[p] = flusher[p]
  BY WriteLeaves DEF Write
<1>4. CountIn(flusher'[n].work, c, k) = CountIn(f.work, c, k) - written
  <2>1. CASE c = f.channel
    <3>1. CountIn(flusher'[n].work, c, k) = 0
      BY <1>3, <2>1 DEF CountIn, Restrict
    <3>2. CountIn(f.work, c, k) = written
      BY <1>1, <2>1 DEF CountIn, WrittenOf
    <3> QED BY <1>2, <3>1, <3>2
  <2>2. CASE c # f.channel
    <3>1. CountIn(flusher'[n].work, c, k) = CountIn(f.work, c, k)
      BY <1>3, <2>2 DEF CountIn, Restrict
    <3>2. written = 0
      BY <2>2 DEF WrittenOf
    <3> QED BY <1>2, <3>1, <3>2
  <2> QED BY <2>1, <2>2
<1>5. CountIn(cache[n], c, k) \in Nat
  BY CountNatural DEF FlushInv, CachesInv
<1> HIDE DEF written
<1>6. Held(n, c, k)' - Held(n, c, k) = -written
  BY <1>2, <1>3, <1>4, <1>5 DEF Held
<1>7. InMemory(c, k) \in Int /\ InMemory(c, k)' = InMemory(c, k) + (-written)
  BY <1>3, <1>6, MemoryChanges
<1> QED BY SMTT(60), <1>2, <1>7 DEF written

\* Rows that gain what memory loses.
LEMMA RowsGain ==
    ASSUME FlushAssumption, FlushInv, IdsInv, HistoryInv, NEW c \in Channel, NEW k \in Counter,
           UNCHANGED <<expired, lost, recorded>>, stale => stale',
           NEW m, Bounds(m, c, k), Balance(m, c, k) <= recorded[c][k],
           ~stale => Balance(m, c, k) = recorded[c][k],
           NEW new, Bounds(new, c, k)', NEW x \in Int,
           SumFunctionOnSet(new, DOMAIN table') = SumFunctionOnSet(m, DOMAIN table) + x,
           InMemory(c, k)' = InMemory(c, k) + (-x)
    PROVE  CountOK(c, k)'
<1> DEFINE rows == SumFunctionOnSet(m, DOMAIN table)
<1>1. /\ rows \in Int /\ InExpired(c, k) \in Int /\ InMemory(c, k) \in Int
      /\ lost[c][k] \in Int
  BY SumsAreIntegers DEF Bounds, HistoryInv
<1>2. InExpired(c, k)' = InExpired(c, k)
  BY DEF InExpired
<1>3. Balance(m, c, k) = rows + InExpired(c, k) + InMemory(c, k) + lost[c][k]
  BY DEF Balance
<1>4. Balance(new, c, k)' = (rows + x) + InExpired(c, k) + (InMemory(c, k) + (-x)) + lost[c][k]
  BY <1>2 DEF Balance
<1> HIDE DEF rows
<1>5. Balance(new, c, k)' = Balance(m, c, k)
  BY <1>1, <1>3, <1>4
<1>6. Balance(new, c, k)' <= recorded'[c][k] /\ (~stale' => Balance(new, c, k)' = recorded'[c][k])
  BY <1>5
<1> QED BY <1>6 DEF CountOK

LEMMA InsertCounts ==
    ASSUME FlushAssumption, FlushInv, FlushInv', IdsInv, HistoryInv, NEW n \in Node, Write(n),
           NEW c \in Channel, NEW k \in Counter, CountOK(c, k),
           flusher[n].found = NoRow, table' = Stored(flusher[n]),
           stale' = (stale \/ Stale(flusher[n])), UNCHANGED lost
    PROVE  CountOK(c, k)'
<1> DEFINE f == flusher[n]
           snap == f.work[f.channel]
           row == Merged(EmptyRow(f.channel, f.hour), snap)
<1>1. PICK m : /\ Bounds(m, c, k)
               /\ Balance(m, c, k) <= recorded[c][k]
               /\ ~stale => Balance(m, c, k) = recorded[c][k]
  BY DEF CountOK
<1>2. PICK written : written = WrittenOf(f, c, k)
  OBVIOUS
<1>3. PICK next : next = NextId
  OBVIOUS
<1>4. PICK new : new = Set(m, next, written)
  OBVIOUS
<1>5. written \in Nat /\ InMemory(c, k)' = InMemory(c, k) + (-written)
  BY SMTT(60), <1>2, WriteHands
<1>6. /\ snap \in Snapshot /\ f.channel \in Channel /\ f.hour \in Nat
  BY DEF Write, FlushInv, FlushersInv, FlusherOK, IsWork
<1>7. table' = Set(table, next, row)
  BY <1>3, Zenon DEF Stored
<1>8. next \notin RowIds
  BY <1>3, NextIdIsNew DEF RowIds, FlushInv, TableInv
<1>9. Share(row, c, k) = written
  <2> DEFINE empty == EmptyRow(f.channel, f.hour)
  <2>1. empty \in Row /\ empty.channel = f.channel
    BY <1>6, EmptyRowIsRow
  <2>2. empty[k] = 0
    BY DEF EmptyRow, Counter
  <2> HIDE DEF empty, snap
  <2>3. Share(Merged(empty, snap), c, k) = Share(empty, c, k) + (IF f.channel = c THEN snap[k] ELSE 0)
    BY <1>6, <2>1, SharesAdd
  <2>4. Share(empty, c, k) = 0
    BY <2>2 DEF Share
  <2>5. snap[k] \in Nat
    BY <1>6, Counters
  <2>6. Share(Merged(empty, snap), c, k) = IF f.channel = c THEN snap[k] ELSE 0
    BY <2>3, <2>4, <2>5
  <2> QED BY <1>2, <2>6 DEF WrittenOf, empty, snap
<1> HIDE DEF row
<1>10. /\ DOMAIN table' = DOMAIN table \cup {next} /\ next \notin DOMAIN table
       /\ \A id \in DOMAIN table' : table'[id] = IF id = next THEN row ELSE table[id]
  BY <1>7, <1>8 DEF Set, RowIds
<1>11. /\ new \in [DOMAIN table' -> Nat] /\ m \in [DOMAIN table -> Nat]
       /\ new[next] = written /\ \A id \in DOMAIN table : new[id] = m[id]
  BY <1>1, <1>4, <1>5, <1>10 DEF Set, Bounds
<1>12. Bounds(new, c, k)'
  <2>1. \A id \in DOMAIN table' : Share(table'[id], c, k) <= new[id]
    BY <1>1, <1>5, <1>9, <1>10, <1>11 DEF Bounds
  <2>2. ASSUME NEW p \in Node, flusher'[p].found # NoRow, flusher'[p].found.id \in DOMAIN table'
        PROVE  Share(flusher'[p].found.row, c, k) <= new[flusher'[p].found.id]
    <3>1. p # n /\ flusher'[p] = flusher[p]
      BY <2>2, WriteLeaves
    <3>2. flusher[p].found.id \in RowIds
      BY <2>2, <3>1 DEF IdsInv, FoundOK
    <3>3. flusher[p].found.id \in DOMAIN table
      BY <1>8, <1>10, <2>2, <3>1, <3>2
    <3> QED BY <1>1, <1>11, <2>2, <3>1, <3>3 DEF Bounds
  <2>3. ~stale' => \A id \in DOMAIN table' : new[id] = Share(table'[id], c, k)
    BY <1>1, <1>9, <1>10, <1>11 DEF Bounds
  <2> QED BY <1>11, <2>1, <2>2, <2>3 DEF Bounds
<1>13. SumFunctionOnSet(new, DOMAIN table') = SumFunctionOnSet(m, DOMAIN table) + written
  <2>1. /\ IsFiniteSet(DOMAIN table)
        /\ \A id \in DOMAIN table : new[id] = m[id] /\ m[id] \in Int
        /\ new[next] \in Int
    BY <1>5, <1>11 DEF IdsInv
  <2>2. SumFunctionOnSet(new, DOMAIN table \cup {next})
          = new[next] + SumFunctionOnSet(m, DOMAIN table)
    BY <1>10, <2>1, SumWithNew
  <2>3. SumFunctionOnSet(m, DOMAIN table) \in Int
    BY <1>11, SumsAreIntegers
  <2> QED BY <1>5, <1>10, <1>11, <2>2, <2>3
<1>14. UNCHANGED <<expired, lost, recorded>> /\ (stale => stale')
  BY DEF Write
<1> QED BY <1>1, <1>5, <1>12, <1>13, <1>14, RowsGain

LEMMA UpdateCounts ==
    ASSUME FlushAssumption, FlushInv, FlushInv', IdsInv, HistoryInv, NEW n \in Node, Write(n),
           NEW c \in Channel, NEW k \in Counter, CountOK(c, k),
           flusher[n].found # NoRow, flusher[n].found.id \in DOMAIN table,
           table' = Stored(flusher[n]),
           stale' = (stale \/ Stale(flusher[n])), UNCHANGED lost
    PROVE  CountOK(c, k)'
<1> DEFINE f == flusher[n]
           snap == f.work[f.channel]
           row == Merged(f.found.row, snap)
<1>1. PICK m : /\ Bounds(m, c, k)
               /\ Balance(m, c, k) <= recorded[c][k]
               /\ ~stale => Balance(m, c, k) = recorded[c][k]
  BY DEF CountOK
<1>2. PICK written : written = WrittenOf(f, c, k)
  OBVIOUS
<1>3. PICK id \in DOMAIN table : id = f.found.id
  OBVIOUS
<1>4. PICK new : new = [m EXCEPT ![id] = @ + written]
  OBVIOUS
<1>5. written \in Nat /\ InMemory(c, k)' = InMemory(c, k) + (-written)
  BY <1>2, WriteHands
<1>6. snap \in Snapshot /\ f.found.row \in Row /\ f.found.row.channel = f.channel
  BY DEF Write, FlushInv, FlushersInv, FlusherOK, IsWork, IdsInv, FoundOK
<1>7. table' = [table EXCEPT ![id] = row]
  BY <1>3, Zenon DEF Stored
<1>8. Share(row, c, k) = Share(f.found.row, c, k) + written /\ Share(f.found.row, c, k) \in Nat
  BY <1>2, <1>6, SharesAdd DEF WrittenOf
<1> HIDE DEF row, snap
<1>9. /\ DOMAIN table' = DOMAIN table /\ table'[id] = row
      /\ \A i \in DOMAIN table : i # id => table'[i] = table[i]
  BY <1>7
<1>10. /\ m \in [DOMAIN table -> Nat] /\ new \in [DOMAIN table -> Nat]
       /\ new[id] = m[id] + written /\ \A i \in DOMAIN table : i # id => new[i] = m[i]
  BY <1>1, <1>4, <1>5 DEF Bounds
<1>11. Bounds(new, c, k)'
  <2>1. Share(f.found.row, c, k) <= m[id]
    BY <1>1, <1>3 DEF Bounds
  <2>2. Share(row, c, k) <= new[id]
    BY <1>5, <1>8, <1>10, <2>1
  <2>3. \A i \in DOMAIN table' : Share(table'[i], c, k) <= new[i]
    BY <1>1, <1>9, <1>10, <2>2 DEF Bounds
  <2>4. ASSUME NEW p \in Node, flusher'[p].found # NoRow, flusher'[p].found.id \in DOMAIN table'
        PROVE  Share(flusher'[p].found.row, c, k) <= new[flusher'[p].found.id]
    <3>1. flusher'[p] = flusher[p]
      BY <2>4, WriteLeaves
    <3> DEFINE g == flusher[p].found
    <3>2. Share(g.row, c, k) <= m[g.id] /\ g.id \in DOMAIN table
      BY <1>1, <1>9, <2>4, <3>1 DEF Bounds
    <3>3. m[g.id] <= new[g.id]
      BY <1>5, <1>10, <3>2
    <3>4. Share(g.row, c, k) \in Nat
      <4>1. g.row \in Row
        BY <2>4, <3>1 DEF FlushInv, FlushersInv, FlusherOK
      <4> QED BY <4>1, Counters DEF Share
    <3>5. m[g.id] \in Nat /\ new[g.id] \in Nat
      BY <1>10, <3>2
    <3> HIDE DEF g
    <3>6. Share(g.row, c, k) <= new[g.id]
      BY <3>2, <3>3, <3>4, <3>5
    <3> QED BY <3>1, <3>6 DEF g
  <2>5. ASSUME ~stale', NEW i \in DOMAIN table' PROVE new[i] = Share(table'[i], c, k)
    <3>1. ~stale /\ table[id] = f.found.row
      BY <1>3, <2>5 DEF Stale
    <3>2. m[id] = Share(f.found.row, c, k)
      BY <1>1, <3>1 DEF Bounds
    <3> QED BY <1>1, <1>8, <1>9, <1>10, <2>5, <3>1, <3>2 DEF Bounds
  <2> QED BY <1>9, <1>10, <2>3, <2>4, <2>5 DEF Bounds
<1>12. SumFunctionOnSet(new, DOMAIN table') = SumFunctionOnSet(m, DOMAIN table) + written
  <2>1. /\ IsFiniteSet(DOMAIN table)
        /\ \A i \in DOMAIN table : m[i] \in Int /\ new[i] \in Int
        /\ \A i \in DOMAIN table : i # id => new[i] = m[i]
    BY <1>10 DEF IdsInv
  <2>2. SumFunctionOnSet(new, DOMAIN table)
          = SumFunctionOnSet(m, DOMAIN table) + (new[id] - m[id])
    BY <2>1, SumChanges
  <2>3. new[id] - m[id] = written
    BY <1>5, <1>10
  <2> QED BY <1>9, <2>2, <2>3
<1>13. UNCHANGED <<expired, lost, recorded>> /\ (stale => stale')
  BY DEF Write
<1> QED BY <1>1, <1>5, <1>11, <1>12, <1>13, RowsGain

LEMMA WriteCounts ==
    ASSUME FlushAssumption, FlushInv, FlushInv', IdsInv, CountsInv, NEW n \in Node, Write(n)
    PROVE  CountsInv'
<1> DEFINE f == flusher[n]
<1>1. /\ f.work[f.channel] \in Snapshot /\ f.channel \in Channel
      /\ UNCHANGED <<expired, recorded>>
  BY DEF Write, FlushInv, FlushersInv, FlusherOK, IsWork
<1>2. \A p \in Node : flusher'[p].found = NoRow \/ flusher'[p].found = flusher[p].found
  BY WriteLeaves
<1>3. ASSUME NEW c \in Channel, NEW k \in Counter
      PROVE  /\ WrittenOf(f, c, k) \in Nat /\ -WrittenOf(f, c, k) \in Int
             /\ InMemory(c, k)' = InMemory(c, k) + (-WrittenOf(f, c, k))
             /\ recorded'[c][k] = recorded[c][k] + 0
  <2>1. /\ WrittenOf(f, c, k) \in Nat
        /\ InMemory(c, k)' = InMemory(c, k) + (-WrittenOf(f, c, k))
    BY WriteHands
  <2>2. recorded'[c][k] = recorded[c][k] + 0
    BY <1>1, Counters DEF CountsInv, HistoryInv
  <2> QED BY <2>1, <2>2
<1>4. CASE table' = Stored(f) /\ stale' = (stale \/ Stale(f)) /\ UNCHANGED lost
  <2>1. ASSUME NEW c \in Channel, NEW k \in Counter PROVE CountOK(c, k)'
    <3>1. CASE f.found = NoRow
      BY <1>4, <3>1, InsertCounts DEF CountsInv
    <3>2. CASE f.found # NoRow /\ f.found.id \in DOMAIN table
      BY <1>4, <3>2, UpdateCounts DEF CountsInv
    <3>3. CASE f.found # NoRow /\ f.found.id \notin DOMAIN table
      <4>1. UNCHANGED table /\ stale'
        BY <1>4, <3>3 DEF Stored, Stale
      <4>2. lost'[c][k] = lost[c][k] + 0
        BY <1>4 DEF CountsInv, HistoryInv
      <4>3. PICK x \in Int : x = -WrittenOf(f, c, k) /\ 0 + x <= 0
        BY <1>3
      <4>4. InMemory(c, k)' = InMemory(c, k) + x /\ recorded'[c][k] = recorded[c][k] + 0
        BY <1>3, <4>3
      <4>5. /\ UNCHANGED <<table, expired>> /\ (stale => stale') /\ (~stale' => UNCHANGED stale)
            /\ 0 \in Int /\ HistoryInv /\ CountOK(c, k)
        BY <1>1, <4>1 DEF CountsInv
      <4>6. \A p \in Node : LET found == flusher'[p].found IN
                \/ found = NoRow \/ found = flusher[p].found
                \/ found.id \in DOMAIN table /\ found.row = table[found.id]
        BY <1>2
      <4>7. 0 + x <= 0 /\ (stale' \/ 0 + x = 0)
        BY <4>1, <4>3
      <4> HIDE DEF f
      <4> QED BY <4>2, <4>3, <4>4, <4>5, <4>6, <4>7, CountsMove
    <3> QED BY <3>1, <3>2, <3>3
  <2> QED BY <1>1, <1>4, <2>1 DEF CountsInv, HistoryInv
<1>5. CASE lost' = [lost EXCEPT ![f.channel] = Plus(@, f.work[f.channel])]
           /\ UNCHANGED <<table, stale>>
  <2>1. Plus(lost[f.channel], f.work[f.channel]) \in [Counter -> Nat]
    <3>1. \A k \in Counter : lost[f.channel][k] \in Nat /\ f.work[f.channel][k] \in Nat
      BY <1>1, Counters DEF CountsInv, HistoryInv
    <3> QED BY <3>1 DEF Plus
  <2>2. HistoryInv'
    BY <1>1, <1>5, <2>1 DEF CountsInv, HistoryInv
  <2>3. ASSUME NEW c \in Channel, NEW k \in Counter PROVE CountOK(c, k)'
    <3>1. PICK w \in Nat : w = WrittenOf(f, c, k)
      BY <1>3
    <3>2. lost'[c][k] = lost[c][k] + w
      <4>1. lost[c][k] \in Nat
        BY DEF CountsInv, HistoryInv
      <4>2. CASE c = f.channel
        BY <1>1, <1>5, <3>1, <4>2 DEF Plus, WrittenOf, CountsInv, HistoryInv
      <4>3. CASE c # f.channel
        BY <1>5, <3>1, <4>1, <4>3 DEF WrittenOf, CountsInv, HistoryInv
      <4> QED BY <4>2, <4>3
    <3>3. PICK x \in Int : x = -w /\ w + x = 0 /\ w + x <= 0
      OBVIOUS
    <3>4. InMemory(c, k)' = InMemory(c, k) + x /\ recorded'[c][k] = recorded[c][k] + 0
      BY <1>3, <3>1, <3>3
    <3>5. /\ UNCHANGED <<table, expired>> /\ (stale => stale') /\ (~stale' => UNCHANGED stale)
          /\ 0 \in Int /\ w \in Int /\ HistoryInv /\ CountOK(c, k)
      BY <1>1, <1>5 DEF CountsInv
    <3>6. \A p \in Node : LET found == flusher'[p].found IN
              \/ found = NoRow \/ found = flusher[p].found
              \/ found.id \in DOMAIN table /\ found.row = table[found.id]
      BY <1>2
    <3> HIDE DEF f
    <3> QED BY <3>2, <3>3, <3>4, <3>5, <3>6, CountsMove
  <2> QED BY <2>2, <2>3 DEF CountsInv
<1> QED BY <1>4, <1>5 DEF Write

\* The rows a cleanup takes are counted among the expired.
LEMMA ExpiredGain ==
    ASSUME FlushInv, IdsInv, NEW gone \in SUBSET DOMAIN table,
           expired' = expired \cup {[id |-> id, row |-> table[id]] : id \in gone},
           NEW c, NEW k \in Counter, NEW g, g = [id \in gone |-> Share(table[id], c, k)]
    PROVE  /\ InExpired(c, k)' = InExpired(c, k) + SumFunctionOnSet(g, gone)
           /\ \A id \in gone : g[id] \in Nat
<1>1. PICK entry : entry = [id \in gone |-> [id |-> id, row |-> table[id]]]
  OBVIOUS
<1>2. PICK before : before = [e \in expired |-> Share(e.row, c, k)]
  OBVIOUS
<1>3. PICK after : after = [e \in expired' |-> Share(e.row, c, k)]
  OBVIOUS
<1>4. \A id \in gone : /\ entry[id].id = id /\ entry[id].row = table[id]
                       /\ entry[id] \in expired'
  BY <1>1
<1>5. expired' = expired \cup {entry[id] : id \in gone}
  BY <1>1
<1>6. /\ \A id \in gone : entry[id] \notin expired
      /\ \A i, j \in gone : entry[i] = entry[j] => i = j
  BY <1>4 DEF IdsInv
<1>7. \A id \in gone : g[id] \in Nat /\ after[entry[id]] = g[id]
  <2>1. \A id \in gone : table[id] \in Row
    BY DEF FlushInv, TableInv
  <2>2. \A id \in gone : Share(table[id], c, k) \in Nat
    BY <2>1, Counters DEF Share
  <2> QED BY <1>3, <1>4, <2>2
<1>8. \A e \in expired : after[e] = before[e] /\ after[e] \in Int
  <2>1. \A e \in expired : Share(e.row, c, k) \in Nat
    BY Counters DEF IdsInv, Share
  <2> QED BY <1>2, <1>3, <1>5, <2>1
<1>9. IsFiniteSet(expired) /\ IsFiniteSet(gone)
  BY FS_Subset DEF IdsInv
<1>10. \A id \in gone : g[id] \in Int
  BY <1>7
<1>11. SumFunctionOnSet(after, expired \cup {entry[id] : id \in gone})
         = SumFunctionOnSet(after, expired) + SumFunctionOnSet(g, gone)
  BY <1>6, <1>7, <1>8, <1>9, <1>10, SumOfUnion
<1>12. SumFunctionOnSet(after, expired) = SumFunctionOnSet(before, expired)
  BY <1>8, <1>9, SumOfEquals
<1>13. InExpired(c, k) = SumFunctionOnSet(before, expired)
  BY <1>2 DEF InExpired
<1>14. InExpired(c, k)' = SumFunctionOnSet(after, expired')
  BY <1>3 DEF InExpired
<1> QED BY <1>5, <1>7, <1>11, <1>12, <1>13, <1>14

LEMMA CleanupCounts ==
    ASSUME FlushAssumption, FlushInv, FlushInv', IdsInv, CountsInv, NEW n \in Node, Cleanup(n)
    PROVE  CountsInv'
<1>1. PICK gone \in SUBSET DOMAIN table :
        /\ table' = Restrict(table, DOMAIN table \ gone)
        /\ expired' = expired \cup {[id |-> id, row |-> table[id]] : id \in gone}
  BY CleanupTakes
<1>2. /\ UNCHANGED <<cache, recorded, lost, stale>>
      /\ flusher' = [flusher EXCEPT ![n].pc = "sleep"]
      /\ DOMAIN flusher[n] = {"pc", "work", "hour", "channel", "found", "flushes"}
      /\ flusher = [p \in Node |-> flusher[p]]
  BY DEF Cleanup, FlushInv, FlushersInv, FlusherOK
<1>3. \A p \in Node : flusher'[p].work = flusher[p].work /\ flusher'[p].found = flusher[p].found
  BY <1>2
<1>4. /\ DOMAIN table' = DOMAIN table \ gone
      /\ \A id \in DOMAIN table' : table'[id] = table[id]
  BY <1>1 DEF Restrict
<1>5. ASSUME NEW c \in Channel, NEW k \in Counter PROVE CountOK(c, k)'
  <2>1. PICK m : /\ Bounds(m, c, k)
                 /\ Balance(m, c, k) <= recorded[c][k]
                 /\ ~stale => Balance(m, c, k) = recorded[c][k]
    BY DEF CountOK, CountsInv
  <2>2. PICK new : new = [id \in DOMAIN table \ gone |-> m[id]]
    OBVIOUS
  <2>3. PICK g : g = [id \in gone |-> Share(table[id], c, k)]
    OBVIOUS
  <2>4. /\ m \in [DOMAIN table -> Nat] /\ \A id \in gone : g[id] <= m[id]
        /\ ~stale => \A id \in gone : g[id] = m[id]
    BY <2>1, <2>3 DEF Bounds
  <2>5. /\ InExpired(c, k)' = InExpired(c, k) + SumFunctionOnSet(g, gone)
        /\ \A id \in gone : g[id] \in Nat
    BY <1>1, <2>3, ExpiredGain
  <2>6. IsFiniteSet(DOMAIN table) /\ IsFiniteSet(gone) /\ IsFiniteSet(DOMAIN table \ gone)
    BY FS_Subset DEF IdsInv
  <2> DEFINE rows == SumFunctionOnSet(m, DOMAIN table)
             taken == SumFunctionOnSet(m, gone)
             entered == SumFunctionOnSet(g, gone)
             left == SumFunctionOnSet(m, DOMAIN table \ gone)
  <2>7. rows = left + taken /\ left \in Int /\ taken \in Int
    <3>1. \A id \in DOMAIN table : m[id] \in Int
      BY <2>4
    <3> QED BY <2>6, <3>1, SumSplits
  <2>8. entered <= taken /\ (~stale => entered = taken) /\ entered \in Int
    <3>1. \A id \in gone : g[id] \in Int /\ m[id] \in Int /\ g[id] <= m[id]
      BY <2>4, <2>5
    <3>2. entered <= taken
      BY <2>6, <3>1, SumAtMost
    <3>3. ~stale => entered = taken
      BY <2>4, <2>6, SumOfEquals
    <3>4. entered \in Int
      BY <2>6, <3>1, SumTakesOut
    <3> QED BY <3>2, <3>3, <3>4
  <2>9. SumFunctionOnSet(new, DOMAIN table') = left
    <3>1. \A id \in DOMAIN table \ gone : new[id] = m[id]
      BY <2>2
    <3> QED BY <1>4, <2>6, <3>1, SumOfEquals
  <2>10. InMemory(c, k)' = InMemory(c, k)
    BY <1>2, <1>3 DEF InMemory, Held
  <2>11. /\ InExpired(c, k) \in Int /\ InMemory(c, k) \in Int /\ lost[c][k] \in Int
         /\ recorded[c][k] \in Int
    BY SumsAreIntegers, Counters DEF CountsInv, HistoryInv
  <2>12. Balance(m, c, k) = rows + InExpired(c, k) + InMemory(c, k) + lost[c][k]
    BY DEF Balance
  <2>13. Balance(new, c, k)'
           = left + (InExpired(c, k) + entered) + InMemory(c, k) + lost[c][k]
    BY <1>2, <2>5, <2>9, <2>10 DEF Balance
  <2> HIDE DEF rows, taken, entered, left
  <2>14. Balance(new, c, k)' = Balance(m, c, k) + (entered - taken)
    BY <2>7, <2>8, <2>11, <2>12, <2>13
  <2>15. Balance(m, c, k) \in Int
    BY <2>7, <2>11, <2>12
  <2>16. /\ Balance(new, c, k)' <= recorded'[c][k]
         /\ ~stale' => Balance(new, c, k)' = recorded'[c][k]
    <3>1. Balance(new, c, k)' <= recorded[c][k]
      BY <2>1, <2>7, <2>8, <2>11, <2>14, <2>15
    <3>2. ~stale => Balance(new, c, k)' = recorded[c][k]
      BY <2>1, <2>7, <2>8, <2>11, <2>14, <2>15
    <3> QED BY <1>2, <3>1, <3>2
  <2>17. Bounds(new, c, k)'
    <3>1. new \in [DOMAIN table' -> Nat] /\ \A id \in DOMAIN table' : new[id] = m[id]
      BY <1>4, <2>2, <2>4
    <3> QED BY <1>2, <1>3, <1>4, <2>1, <3>1 DEF Bounds
  <2> QED BY <2>16, <2>17 DEF CountOK
<1> QED BY <1>2, <1>5 DEF CountsInv, HistoryInv

\* What a process held is lost with it.
LEMMA CrashCounts ==
    ASSUME FlushAssumption, FlushInv, FlushInv', IdsInv, CountsInv, NEW n \in Node, Crash(n)
    PROVE  CountsInv'
<1> DEFINE f == flusher[n]
<1>1. /\ DOMAIN f = {"pc", "work", "hour", "channel", "found", "flushes"}
      /\ flusher = [p \in Node |-> flusher[p]] /\ cache = [p \in Node |-> cache[p]]
      /\ UNCHANGED <<table, expired, recorded, stale>>
      /\ lost' = [c \in Channel |-> Plus(lost[c], [k \in Counter |-> Held(n, c, k)])]
  BY DEF FlushInv, FlushersInv, FlusherOK, CachesInv, Crash
<1>2. /\ cache'[n] = Empty /\ flusher'[n].work = Empty /\ flusher'[n].found = NoRow
      /\ \A p \in Node : p # n => cache'[p] = cache[p] /\ flusher'[p] = flusher[p]
  BY <1>1 DEF Crash
<1>3. \A c \in Channel, k \in Counter :
        /\ Held(n, c, k) \in Nat /\ lost[c][k] \in Nat
        /\ lost'[c][k] = lost[c][k] + Held(n, c, k)
  BY <1>1, HeldNatural DEF Plus, CountsInv, HistoryInv
<1>4. HistoryInv'
  <2>1. lost' = [c \in Channel |-> [k \in Counter |-> lost[c][k] + Held(n, c, k)]]
    BY <1>1 DEF Plus
  <2>2. \A c \in Channel, k \in Counter : lost[c][k] + Held(n, c, k) \in Nat
    BY <1>3
  <2>3. lost' \in [Channel -> [Counter -> Nat]]
    BY <2>1, <2>2
  <2>4. recorded' \in [Channel -> Recorded]
    BY <1>1 DEF CountsInv, HistoryInv
  <2> QED BY <2>3, <2>4 DEF HistoryInv
<1>5. ASSUME NEW c \in Channel, NEW k \in Counter PROVE CountOK(c, k)'
  <2>1. PICK w \in Nat : w = Held(n, c, k)
    BY <1>3
  <2>2. PICK x \in Int : x = -w /\ w + x = 0 /\ w + x <= 0
    OBVIOUS
  <2>3. Held(n, c, k)' = 0
    <3>1. CountIn(Empty, c, k) = 0
      BY DEF CountIn, Empty
    <3> QED BY <1>2, <3>1 DEF Held
  <2>4. InMemory(c, k)' = InMemory(c, k) + x
    <3>1. Held(n, c, k)' - Held(n, c, k) = x
      BY <2>1, <2>2, <2>3
    <3> QED BY <1>2, <3>1, MemoryChanges
  <2>5. lost'[c][k] = lost[c][k] + w /\ recorded'[c][k] = recorded[c][k] + 0
    <3>1. recorded[c][k] \in Nat
      BY Counters DEF CountsInv, HistoryInv
    <3> QED BY <1>1, <1>3, <2>1, <3>1
  <2>6. /\ UNCHANGED <<table, expired>> /\ (stale => stale') /\ (~stale' => UNCHANGED stale)
        /\ 0 \in Int /\ w \in Int /\ HistoryInv /\ CountOK(c, k)
    BY <1>1 DEF CountsInv
  <2>7. \A p \in Node : LET found == flusher'[p].found IN
            \/ found = NoRow \/ found = flusher[p].found
            \/ found.id \in DOMAIN table /\ found.row = table[found.id]
    BY <1>2
  <2> QED BY <2>2, <2>4, <2>5, <2>6, <2>7, CountsMove
<1> QED BY <1>4, <1>5 DEF CountsInv

LEMMA CountsStep ==
    ASSUME FlushAssumption, FlushInv, FlushInv', IdsInv, CountsInv, [Next]_vars
    PROVE  CountsInv'
<1>1. ASSUME NEW n \in Node, NEW c \in Channel, NEW latency \in Latency, NEW isError \in BOOLEAN,
             RecordChannelRequest(n, c, latency, isError)
      PROVE  CountsInv'
  BY <1>1, RequestCounts
<1>2. ASSUME NEW n \in Node, NEW c \in Channel, RecordChannelDisable(n, c)
      PROVE  CountsInv'
  BY <1>2, DisableCounts
<1>3. ASSUME NEW n \in Node, TakeCache(n) PROVE CountsInv'
  BY <1>3, TakeCacheCounts
<1>4. ASSUME NEW n \in Node, Find(n) PROVE CountsInv'
  BY <1>4, FindCounts
<1>5. ASSUME NEW n \in Node, Write(n) PROVE CountsInv'
  BY <1>5, WriteCounts
<1>6. ASSUME NEW n \in Node, Cleanup(n) PROVE CountsInv'
  BY <1>6, CleanupCounts
<1>7. ASSUME NEW n \in Node, Crash(n) PROVE CountsInv'
  BY <1>7, CrashCounts
<1>8. CASE HourPasses \/ UNCHANGED vars
  <2>1. UNCHANGED <<cache, flusher, table, recorded, lost, stale, expired>>
    BY <1>8 DEF HourPasses, vars, history
  <2>2. \A c \in Channel, k \in Counter :
          /\ InExpired(c, k)' = InExpired(c, k) /\ InMemory(c, k)' = InMemory(c, k)
    BY <2>1 DEF InExpired, InMemory, Held
  <2>3. ASSUME NEW c \in Channel, NEW k \in Counter PROVE CountOK(c, k)'
    <3>1. PICK m : /\ Bounds(m, c, k)
                   /\ Balance(m, c, k) <= recorded[c][k]
                   /\ ~stale => Balance(m, c, k) = recorded[c][k]
      BY DEF CountOK, CountsInv
    <3>2. Balance(m, c, k)' = Balance(m, c, k)
      BY <2>1, <2>2 DEF Balance
    <3>3. Bounds(m, c, k)'
      BY <2>1, <3>1 DEF Bounds
    <3> QED BY <2>1, <3>1, <3>2, <3>3 DEF CountOK
  <2> QED BY <2>1, <2>3 DEF CountsInv, HistoryInv
<1> QED BY <1>1, <1>2, <1>3, <1>4, <1>5, <1>6, <1>7, <1>8 DEF Next

LEMMA CountsInit == ASSUME FlushAssumption, Init PROVE CountsInv
<1>1. HistoryInv
  <2> DEFINE r == [requests |-> 0, errors |-> 0, successes |-> 0, disables |-> 0,
                   total |-> 0, latencies |-> {}]
  <2>1. r \in Recorded
    BY DEF Recorded
  <2>2. recorded = [c \in Channel |-> r]
    BY DEF Init
  <2> HIDE DEF r
  <2> QED BY <2>1, <2>2 DEF Init, HistoryInv
<1>2. ASSUME NEW c \in Channel, NEW k \in Counter PROVE CountOK(c, k)
  <2>1. /\ DOMAIN table = {} /\ expired = {} /\ table = [id \in {} |-> Nothing]
        /\ \A n \in Node : cache[n] = Empty /\ flusher[n].work = Empty /\ flusher[n].found = NoRow
        /\ lost[c][k] = 0
    BY DEF Init
  <2>2. InMemory(c, k) = 0
    <3> DEFINE g == [n \in Node |-> Held(n, c, k)]
    <3>1. \A n \in Node : g[n] = 0
      BY <2>1 DEF Held, CountIn, Empty
    <3>2. SumFunctionOnSet(g, Node) = 0
      <4> HIDE DEF g
      <4> QED BY <3>1, SumOfZeros DEF FlushAssumption
    <3> QED BY <3>2 DEF InMemory
  <2>3. InExpired(c, k) = 0
    BY <2>1, SumOfNothing DEF InExpired
  <2>4. SumFunctionOnSet(table, DOMAIN table) = 0
    BY <2>1, SumOfNothing
  <2>5. recorded[c][k] = 0
    <3> DEFINE r == [requests |-> 0, errors |-> 0, successes |-> 0, disables |-> 0,
                     total |-> 0, latencies |-> {}]
    <3>1. r[k] = 0
      BY DEF Counter
    <3>2. recorded[c] = r
      BY DEF Init
    <3> HIDE DEF r
    <3> QED BY <3>1, <3>2
  <2>6. Balance(table, c, k) = 0
    BY <2>1, <2>2, <2>3, <2>4 DEF Balance
  <2>7. Bounds(table, c, k)
    BY <2>1 DEF Bounds
  <2> QED BY <2>5, <2>6, <2>7 DEF CountOK
<1> QED BY <1>1, <1>2 DEF CountsInv

LEMMA CountsInvariant == Spec => []CountsInv
<1>1. Init => CountsInv
  BY CountsInit, FlushAssumption
<1>2. FlushInv /\ FlushInv' /\ IdsInv /\ CountsInv /\ [Next]_vars => CountsInv'
  BY CountsStep, FlushAssumption
<1> QED BY <1>1, <1>2, FlushInvariant, IdsInvariant, PTL DEF Spec

\* Whatever fails, whenever processes end, and with any nodes at work on the same rows, no
\* request or disable is counted twice among the caches, the flushers' hands, the rows and what
\* was lost; and each one is counted, unless a row changed between its reading and its writing
\* (RecordChannelRequest, FlushHealthCache, DeleteOldChannelHealth).
THEOREM NothingIsCountedTwice == Spec => []CountedOnce
<1>1. FlushInv /\ IdsInv /\ CountsInv => CountedOnce
  <2> SUFFICES ASSUME FlushInv, IdsInv, CountsInv, NEW c \in Channel, NEW k \in Counter
               PROVE  /\ Accounted(c, k) <= recorded[c][k]
                      /\ ~stale => Accounted(c, k) = recorded[c][k]
    BY DEF CountedOnce
  <2>1. PICK m : /\ Bounds(m, c, k)
                 /\ Balance(m, c, k) <= recorded[c][k]
                 /\ ~stale => Balance(m, c, k) = recorded[c][k]
    BY DEF CountOK, CountsInv
  <2>2. PICK g : g = [id \in DOMAIN table |-> Share(table[id], c, k)]
    OBVIOUS
  <2>3. /\ IsFiniteSet(DOMAIN table)
        /\ \A id \in DOMAIN table : g[id] \in Int /\ m[id] \in Int /\ g[id] <= m[id]
        /\ ~stale => \A id \in DOMAIN table : g[id] = m[id]
    <3>1. \A id \in DOMAIN table : table[id][k] \in Nat
      BY Counters DEF FlushInv, TableInv
    <3> QED BY <2>1, <2>2, <3>1 DEF Bounds, Share, IdsInv
  <2>4. SumFunctionOnSet(g, DOMAIN table) <= SumFunctionOnSet(m, DOMAIN table)
    BY <2>3, SumAtMost
  <2>5. ~stale => SumFunctionOnSet(g, DOMAIN table) = SumFunctionOnSet(m, DOMAIN table)
    BY <2>3, SumOfEquals
  <2>6. /\ SumFunctionOnSet(g, DOMAIN table) \in Int /\ SumFunctionOnSet(m, DOMAIN table) \in Int
    BY <2>3, SumTakesOut
  <2>7. /\ InExpired(c, k) \in Int /\ InMemory(c, k) \in Int /\ lost[c][k] \in Int
        /\ recorded[c][k] \in Int
    BY SumsAreIntegers, Counters, FlushAssumption DEF CountsInv, HistoryInv
  <2>8. Accounted(c, k)
          = SumFunctionOnSet(g, DOMAIN table) + InExpired(c, k) + InMemory(c, k) + lost[c][k]
    BY <2>2 DEF Accounted, InTable
  <2>9. Balance(m, c, k)
          = SumFunctionOnSet(m, DOMAIN table) + InExpired(c, k) + InMemory(c, k) + lost[c][k]
    BY DEF Balance
  <2>10. Accounted(c, k) <= recorded[c][k]
    BY <2>1, <2>4, <2>6, <2>7, <2>8, <2>9
  <2>11. ~stale => Accounted(c, k) = recorded[c][k]
    BY <2>1, <2>5, <2>8, <2>9
  <2> QED BY <2>10, <2>11
<1> QED BY <1>1, FlushInvariant, IdsInvariant, CountsInvariant, PTL

-----------------------------------------------------------------------------
(* The extreme latencies.                                                  *)

All(c) == Snapshots(c) \cup Kept(c)

\* Where the least latency is kept: no disable was recorded and no request took 0 ms.
LeastIsKept(c) == recorded[c].disables = 0 /\ 0 \notin recorded[c].latencies

\* What is held or kept of a channel has extremes that were recorded, and some of it the
\* extremes of each latency recorded.
Extremes(c) ==
    /\ \A s \in All(c) : s.max \in {0} \cup recorded[c].latencies
    /\ \A l \in recorded[c].latencies : l # 0 => \E s \in All(c) : l <= s.max
    /\ LeastIsKept(c) =>
        /\ \A s \in All(c) : s.min \in recorded[c].latencies
        /\ \A l \in recorded[c].latencies : \E s \in All(c) : s.min <= l

\* A snapshot with no request comes from a disable, and has no latency.
ExtremesOK(c) ==
    /\ \E bound \in Nat : \A l \in recorded[c].latencies : l <= bound
    /\ recorded[c].requests > 0 => recorded[c].latencies # {}
    /\ \A s \in Snapshots(c) : /\ s.requests = 0 => s.max = 0
                               /\ recorded[c].disables = 0 => s.requests > 0
    /\ ~stale /\ lost[c].requests = 0 => Extremes(c)

ExtremesInv == \A c \in Channel : ExtremesOK(c)

\* Snapshots and rows are made of naturals.
LEMMA AllNatural ==
    ASSUME FlushInv, IdsInv, NEW c, NEW s \in All(c)
    PROVE  /\ s.max \in Nat /\ s.min \in Nat /\ s.requests \in Nat
           /\ s \in Snapshots(c) => s \in Snapshot
<1>1. CASE s \in Snapshots(c)
  <2>1. s \in Snapshot
    BY <1>1 DEF Snapshots, FlushInv, CachesInv, FlushersInv, FlusherOK, IsWork
  <2> QED BY <2>1 DEF Snapshot
<1>2. CASE s \notin Snapshots(c)
  <2>1. s \in Row
    BY <1>2 DEF All, Kept, FlushInv, TableInv, IdsInv
  <2> QED BY <1>2, <2>1 DEF Row
<1> QED BY <1>1, <1>2

\* The extremes of two steps of one record agree where each is among the other's.
LEMMA ExtremesMove ==
    ASSUME FlushInv, FlushInv', IdsInv, IdsInv', NEW c \in Channel, ExtremesOK(c),
           recorded'[c] = recorded[c], recorded[c] \in Recorded,
           Snapshots(c)' \subseteq Snapshots(c),
           ~stale' => ~stale, lost'[c].requests = 0 => lost[c].requests = 0,
           ~stale' /\ lost'[c].requests = 0 =>
               /\ \A s \in All(c)' : \E a \in All(c) : s.max = a.max
               /\ \A a \in All(c) : a.max # 0 => \E s \in All(c)' : a.max <= s.max
               /\ LeastIsKept(c) =>
                   /\ \A s \in All(c)' : \E a \in All(c) : s.min = a.min
                   /\ \A a \in All(c) : \E s \in All(c)' : s.min <= a.min
    PROVE  ExtremesOK(c)'
<1> DEFINE latencies == recorded[c].latencies
<1>1. LeastIsKept(c)' <=> LeastIsKept(c)
  BY DEF LeastIsKept
<1>2. latencies \in SUBSET Nat
  BY FlushAssumption DEF Recorded, FlushAssumption
<1>3. ASSUME ~stale', lost'[c].requests = 0 PROVE Extremes(c)'
  <2>1. Extremes(c)
    BY <1>3 DEF ExtremesOK
  <2>2. \A s \in All(c)' : s.max \in {0} \cup latencies
    BY <1>3, <2>1 DEF Extremes
  <2>3. ASSUME NEW l \in latencies, l # 0 PROVE \E s \in All(c)' : l <= s.max
    <3>1. PICK a \in All(c) : l <= a.max
      BY <2>1, <2>3 DEF Extremes
    <3>2. l \in Nat /\ a.max \in Nat
      BY <1>2, <3>1, AllNatural
    <3>3. a.max # 0
      BY <2>3, <3>1, <3>2
    <3>4. PICK s \in All(c)' : a.max <= s.max
      BY <1>3, <3>3
    <3>5. s.max \in Nat
      <4>1. s.max \in {0} \cup latencies
        BY <2>2, <3>4
      <4> QED BY <1>2, <4>1
    <3> QED BY <3>1, <3>2, <3>4, <3>5
  <2>4. ASSUME LeastIsKept(c)
        PROVE  /\ \A s \in All(c)' : s.min \in latencies
               /\ \A l \in latencies : \E s \in All(c)' : s.min <= l
    <3>1. \A s \in All(c)' : s.min \in latencies
      BY <1>3, <2>1, <2>4 DEF Extremes
    <3>2. ASSUME NEW l \in latencies PROVE \E s \in All(c)' : s.min <= l
      <4>1. PICK a \in All(c) : a.min <= l
        BY <2>1, <2>4, <3>2 DEF Extremes
      <4>2. PICK s \in All(c)' : s.min <= a.min
        BY <1>3, <2>4, <4>1
      <4>3. l \in Nat /\ a.min \in Nat /\ s.min \in Nat
        BY <1>2, <3>1, <4>1, <4>2, AllNatural
      <4> QED BY <4>1, <4>2, <4>3
    <3> QED BY <3>1, <3>2
  <2> QED BY <1>1, <2>2, <2>3, <2>4 DEF Extremes
<1> QED BY <1>3 DEF ExtremesOK

\* Nothing of a channel is held or kept elsewhere than before.
LEMMA ExtremesStay ==
    ASSUME FlushInv, FlushInv', IdsInv, IdsInv', NEW c \in Channel, ExtremesOK(c),
           recorded'[c] = recorded[c], recorded[c] \in Recorded,
           Snapshots(c)' = Snapshots(c), Kept(c)' = Kept(c), ~stale' => ~stale,
           lost'[c] = lost[c]
    PROVE  ExtremesOK(c)'
<1>1. All(c)' = All(c)
  BY DEF All
<1>2. /\ \A a \in All(c) : a.max <= a.max /\ a.min <= a.min
  BY AllNatural
<1>3. Snapshots(c)' \subseteq Snapshots(c)
  OBVIOUS
<1>4. /\ \A s \in All(c)' : \E a \in All(c) : s.max = a.max
      /\ \A a \in All(c) : a.max # 0 => \E s \in All(c)' : a.max <= s.max
      /\ \A s \in All(c)' : \E a \in All(c) : s.min = a.min
      /\ \A a \in All(c) : \E s \in All(c)' : s.min <= a.min
  BY <1>1, <1>2
<1> QED BY <1>3, <1>4, ExtremesMove

\* A snapshot in a node's cache is replaced by a new one.
LEMMA CacheReplaced ==
    ASSUME FlushInv, NEW n \in Node, NEW e \in Channel, NEW new,
           cache' = [cache EXCEPT ![n] = Set(@, e, new)], UNCHANGED <<flusher, table, expired>>
    PROVE  /\ \A s \in Snapshots(e)' : s \in Snapshots(e) \/ s = new
           /\ new \in Snapshots(e)'
           /\ \A a \in Snapshots(e) :
                a \in Snapshots(e)' \/ (e \in DOMAIN cache[n] /\ a = cache[n][e])
           /\ \A c : c # e => Snapshots(c)' = Snapshots(c)
           /\ \A c : Kept(c)' = Kept(c)
           /\ e \in DOMAIN cache[n] => cache[n][e] \in Snapshots(e)
<1>1. /\ cache = [p \in Node |-> cache[p]]
      /\ cache'[n] = Set(cache[n], e, new)
      /\ \A p \in Node : p # n => cache'[p] = cache[p]
  BY DEF FlushInv, CachesInv
<1>2. /\ DOMAIN cache'[n] = DOMAIN cache[n] \cup {e}
      /\ cache'[n][e] = new
      /\ \A c \in DOMAIN cache[n] : c # e => cache'[n][c] = cache[n][c]
  BY <1>1 DEF Set
<1>3. \A s \in Snapshots(e)' : s \in Snapshots(e) \/ s = new
  BY <1>1, <1>2 DEF Snapshots
<1>4. new \in Snapshots(e)'
  BY <1>2 DEF Snapshots
<1>5. \A a \in Snapshots(e) : a \in Snapshots(e)' \/ (e \in DOMAIN cache[n] /\ a = cache[n][e])
  BY <1>1 DEF Snapshots
<1>6. ASSUME NEW c, c # e PROVE Snapshots(c)' = Snapshots(c)
  <2>1. \A p \in Node : /\ c \in DOMAIN cache'[p] <=> c \in DOMAIN cache[p]
                        /\ c \in DOMAIN cache[p] => cache'[p][c] = cache[p][c]
    BY <1>1, <1>2, <1>6
  <2>2. {cache'[p][c] : p \in {m \in Node : c \in DOMAIN cache'[m]}}
          = {cache[p][c] : p \in {m \in Node : c \in DOMAIN cache[m]}}
    BY <2>1
  <2> QED BY <2>2 DEF Snapshots
<1>7. \A c : Kept(c)' = Kept(c)
  BY DEF Kept
<1>8. e \in DOMAIN cache[n] => cache[n][e] \in Snapshots(e)
  BY DEF Snapshots
<1> QED BY <1>3, <1>4, <1>5, <1>6, <1>7, <1>8

\* The extremes of a snapshot after one more request.
LEMMA CountedExtremes ==
    ASSUME NEW snap \in Snapshot, NEW latency \in Nat, NEW isError \in BOOLEAN
    PROVE  LET new == Counted(snap, latency, isError)
           IN  /\ new.max \in {snap.max, latency} /\ snap.max <= new.max /\ latency <= new.max
               /\ new.min = LowerOf(snap.min, latency)
               /\ new.requests = snap.requests + 1
<1> DEFINE requests == snap.requests + 1
           total == snap.total + latency
           max == Max({snap.max, latency})
           min == LowerOf(snap.min, latency)
           errors == IF isError THEN snap.errors + 1 ELSE snap.errors
           successes == IF isError THEN snap.successes ELSE snap.successes + 1
           new == [snap EXCEPT !.requests = requests, !.total = total, !.max = max,
                               !.min = min, !.errors = errors, !.successes = successes]
<1>1. Counted(snap, latency, isError) = new
  BY Zenon DEF Counted
<1>2. max \in {snap.max, latency} /\ snap.max <= max /\ latency <= max
  BY GreaterOfTwo DEF Snapshot
<1> HIDE DEF requests, errors, successes, total, max, min
<1>3. new.requests = requests /\ new.max = max /\ new.min = min
  BY DEF Snapshot
<1> HIDE DEF new
<1> QED BY <1>1, <1>2, <1>3 DEF requests, min

\* A request of a channel.
LEMMA RequestExtremes ==
    ASSUME FlushAssumption, FlushInv, FlushInv', IdsInv, IdsInv', HistoryInv,
           NEW n \in Node, NEW e \in Channel, NEW latency \in Latency, NEW isError \in BOOLEAN,
           RecordChannelRequest(n, e, latency, isError), ExtremesOK(e)
    PROVE  ExtremesOK(e)'
<1> DEFINE old == SnapshotOf(n, e)
           new == Counted(old, latency, isError)
           lat == recorded[e].latencies
<1>1. /\ latency \in Nat /\ lat \in SUBSET Nat
  BY DEF FlushAssumption, HistoryInv, Recorded
<1>2. /\ recorded'[e].latencies = lat \cup {latency}
      /\ recorded'[e].requests = recorded[e].requests + 1
      /\ recorded'[e].disables = recorded[e].disables
      /\ UNCHANGED <<flusher, table, lost, stale, expired>>
      /\ cache' = [cache EXCEPT ![n] = Set(@, e, new)]
  BY DEF RecordChannelRequest, HistoryInv, Recorded
<1>3. \/ e \in DOMAIN cache[n] /\ old = cache[n][e]
      \/ e \notin DOMAIN cache[n] /\ old = Nothing
  BY DEF SnapshotOf
<1>4. old \in Snapshot
  BY <1>3 DEF Nothing, Snapshot, FlushInv, CachesInv, IsWork
<1>5. /\ new.max \in {old.max, latency} /\ old.max <= new.max /\ latency <= new.max
      /\ new.min = LowerOf(old.min, latency)
      /\ new.requests = old.requests + 1
  BY <1>1, <1>4, CountedExtremes
<1>6. old.max \in Nat /\ old.min \in Nat /\ old.requests \in Nat
  BY <1>4 DEF Snapshot
<1> HIDE DEF new
<1>7. /\ \A s \in Snapshots(e)' : s \in Snapshots(e) \/ s = new
      /\ new \in Snapshots(e)'
      /\ \A a \in Snapshots(e) :
            a \in Snapshots(e)' \/ (e \in DOMAIN cache[n] /\ a = cache[n][e])
      /\ Kept(e)' = Kept(e)
      /\ e \in DOMAIN cache[n] => cache[n][e] \in Snapshots(e)
  BY <1>2, CacheReplaced
<1>8. /\ \A s \in All(e)' : s \in All(e) \/ s = new
      /\ new \in All(e)'
      /\ \A a \in All(e) : a \in All(e)' \/ (a = old /\ e \in DOMAIN cache[n])
      /\ e \in DOMAIN cache[n] => old \in All(e)
  BY <1>3, <1>7 DEF All
<1> HIDE DEF old
<1>9. \E bound \in Nat : \A l \in lat \cup {latency} : l <= bound
  <2>1. PICK bound \in Nat : \A l \in lat : l <= bound
    BY DEF ExtremesOK
  <2>2. \A l \in lat \cup {latency} : l <= bound + latency
    BY <1>1, <2>1
  <2>3. bound + latency \in Nat
    BY <1>1
  <2> QED BY <2>2, <2>3
<1>10. \A s \in Snapshots(e)' : /\ s.requests = 0 => s.max = 0
                                /\ recorded'[e].disables = 0 => s.requests > 0
  <2>1. new.requests > 0
    BY <1>5, <1>6
  <2> QED BY <1>2, <1>7, <2>1 DEF ExtremesOK
<1>11. ASSUME ~stale, lost[e].requests = 0 PROVE Extremes(e)'
  <2>1. Extremes(e)
    BY <1>11 DEF ExtremesOK
  <2>2. \A s \in All(e)' : s.max \in {0} \cup (lat \cup {latency})
    <3>1. old.max \in {0} \cup lat
      <4>1. CASE e \in DOMAIN cache[n]
        BY <1>8, <2>1, <4>1 DEF Extremes
      <4>2. CASE e \notin DOMAIN cache[n]
        BY <1>3, <4>2 DEF Nothing
      <4> QED BY <4>1, <4>2
    <3> QED BY <1>5, <1>8, <2>1, <3>1 DEF Extremes
  <2>3. ASSUME NEW l \in lat \cup {latency}, l # 0 PROVE \E s \in All(e)' : l <= s.max
    <3>1. CASE l = latency
      BY <1>5, <1>8, <3>1
    <3>2. CASE l \in lat
      <4>1. PICK a \in All(e) : l <= a.max
        BY <2>1, <2>3, <3>2 DEF Extremes
      <4>2. CASE a \in All(e)'
        BY <4>1, <4>2
      <4>3. CASE a = old
        <5>1. new.max \in Nat
          BY <1>1, <1>5, <1>6
        <5>2. l <= new.max
          BY <1>1, <1>5, <1>6, <3>2, <4>1, <4>3, <5>1
        <5> QED BY <1>8, <5>2
      <4> QED BY <1>8, <4>2, <4>3
    <3> QED BY <3>1, <3>2
  <2>4. ASSUME recorded[e].disables = 0, 0 \notin lat \cup {latency}
        PROVE  /\ \A s \in All(e)' : s.min \in lat \cup {latency}
               /\ \A l \in lat \cup {latency} : \E s \in All(e)' : s.min <= l
    <3>1. /\ \A s \in All(e) : s.min \in lat
          /\ \A l \in lat : \E s \in All(e) : s.min <= l
      BY <2>1, <2>4 DEF Extremes, LeastIsKept
    <3>2. /\ new.min \in lat \cup {latency} /\ new.min <= latency
          /\ e \in DOMAIN cache[n] => new.min <= old.min
      <4>1. CASE e \in DOMAIN cache[n]
        <5>1. old.min \in lat /\ old.min # 0
          BY <1>8, <2>4, <3>1, <4>1
        <5> QED BY <1>1, <1>5, <1>6, <5>1 DEF LowerOf
      <4>2. CASE e \notin DOMAIN cache[n]
        <5>1. old.min = 0
          BY <1>3, <4>2 DEF Nothing
        <5> QED BY <1>1, <1>5, <4>2, <5>1 DEF LowerOf
      <4> QED BY <4>1, <4>2
    <3>3. \A s \in All(e)' : s.min \in lat \cup {latency}
      BY <1>8, <3>1, <3>2
    <3>4. ASSUME NEW l \in lat \cup {latency} PROVE \E s \in All(e)' : s.min <= l
      <4>1. CASE l = latency
        BY <1>8, <3>2, <4>1
      <4>2. CASE l \in lat
        <5>1. PICK a \in All(e) : a.min <= l
          BY <3>1, <4>2
        <5>2. CASE a \in All(e)'
          BY <5>1, <5>2
        <5>3. CASE a = old /\ e \in DOMAIN cache[n]
          <6>1. new.min \in Nat
            BY <1>1, <3>2
          <6>2. new.min <= l
            BY <1>1, <1>6, <3>2, <4>2, <5>1, <5>3, <6>1
          <6> QED BY <1>8, <6>2
        <5> QED BY <1>8, <5>2, <5>3
      <4> QED BY <4>1, <4>2
    <3> QED BY <3>3, <3>4
  <2> QED BY <1>2, <2>2, <2>3, <2>4 DEF Extremes, LeastIsKept
<1>12. recorded'[e].latencies # {}
  BY <1>2
<1> QED BY <1>2, <1>9, <1>10, <1>11, <1>12 DEF ExtremesOK

\* A disable of a channel.
LEMMA DisableExtremes ==
    ASSUME FlushAssumption, FlushInv, FlushInv', IdsInv, IdsInv', HistoryInv,
           NEW n \in Node, NEW e \in Channel, RecordChannelDisable(n, e), ExtremesOK(e)
    PROVE  ExtremesOK(e)'
<1> DEFINE old == SnapshotOf(n, e)
           new == [old EXCEPT !.disables = @ + 1]
           lat == recorded[e].latencies
<1>1. /\ recorded'[e].latencies = lat /\ recorded'[e].requests = recorded[e].requests
      /\ recorded'[e].disables = recorded[e].disables + 1 /\ recorded[e].disables \in Nat
      /\ UNCHANGED <<flusher, table, lost, stale, expired>>
      /\ cache' = [cache EXCEPT ![n] = Set(@, e, new)]
  BY DEF RecordChannelDisable, HistoryInv, Recorded
<1>2. \/ e \in DOMAIN cache[n] /\ old = cache[n][e]
      \/ e \notin DOMAIN cache[n] /\ old = Nothing
  BY DEF SnapshotOf
<1>3. old \in Snapshot
  BY <1>2 DEF Nothing, Snapshot, FlushInv, CachesInv, IsWork
<1> HIDE DEF old
<1>4. new.max = old.max /\ new.min = old.min /\ new.requests = old.requests
  BY <1>3 DEF Snapshot
<1> HIDE DEF new
<1>5. /\ \A s \in Snapshots(e)' : s \in Snapshots(e) \/ s = new
      /\ new \in Snapshots(e)'
      /\ \A a \in Snapshots(e) :
            a \in Snapshots(e)' \/ (e \in DOMAIN cache[n] /\ a = cache[n][e])
      /\ Kept(e)' = Kept(e)
      /\ e \in DOMAIN cache[n] => cache[n][e] \in Snapshots(e)
  BY <1>1, CacheReplaced
<1>6. old.requests = 0 => old.max = 0
  BY <1>2, <1>5 DEF Nothing, ExtremesOK
<1>7. /\ \A s \in All(e)' : s \in All(e) \/ s = new
      /\ new \in All(e)'
      /\ \A a \in All(e) : a \in All(e)' \/ a = old
      /\ old \in All(e) \/ old = Nothing
  BY <1>2, <1>5 DEF All
<1>8. recorded'[e].disables # 0
  BY <1>1
<1>9. ASSUME ~stale, lost[e].requests = 0 PROVE Extremes(e)'
  <2>1. Extremes(e)
    BY <1>9 DEF ExtremesOK
  <2>2. \A s \in All(e)' : s.max \in {0} \cup lat
    <3>1. old.max \in {0} \cup lat
      BY <1>7, <2>1 DEF Extremes, Nothing
    <3> QED BY <1>4, <1>7, <2>1, <3>1 DEF Extremes
  <2>3. \A l \in lat : l # 0 => \E s \in All(e)' : l <= s.max
    BY <1>4, <1>7, <2>1 DEF Extremes
  <2> QED BY <1>1, <1>8, <2>2, <2>3 DEF Extremes, LeastIsKept
<1>10. \A s \in Snapshots(e)' : s.requests = 0 => s.max = 0
  BY <1>4, <1>5, <1>6 DEF ExtremesOK
<1> QED BY <1>1, <1>8, <1>9, <1>10 DEF ExtremesOK

\* What changes hands stays in memory.
LEMMA SnapshotsStay ==
    ASSUME NEW c,
           \A p \in Node : c \in DOMAIN cache'[p] \/ c \in DOMAIN flusher'[p].work
                            <=> c \in DOMAIN cache[p] \/ c \in DOMAIN flusher[p].work,
           \A p \in Node : c \in DOMAIN cache'[p] =>
                \/ c \in DOMAIN cache[p] /\ cache'[p][c] = cache[p][c]
                \/ c \in DOMAIN flusher[p].work /\ cache'[p][c] = flusher[p].work[c],
           \A p \in Node : c \in DOMAIN flusher'[p].work =>
                \/ c \in DOMAIN cache[p] /\ flusher'[p].work[c] = cache[p][c]
                \/ c \in DOMAIN flusher[p].work /\ flusher'[p].work[c] = flusher[p].work[c],
           \A p \in Node : c \in DOMAIN cache[p] =>
                \/ c \in DOMAIN cache'[p] /\ cache'[p][c] = cache[p][c]
                \/ c \in DOMAIN flusher'[p].work /\ flusher'[p].work[c] = cache[p][c],
           \A p \in Node : c \in DOMAIN flusher[p].work =>
                \/ c \in DOMAIN cache'[p] /\ cache'[p][c] = flusher[p].work[c]
                \/ c \in DOMAIN flusher'[p].work /\ flusher'[p].work[c] = flusher[p].work[c]
    PROVE  Snapshots(c)' = Snapshots(c)
BY DEF Snapshots

LEMMA TakeCacheExtremes ==
    ASSUME FlushInv, FlushInv', IdsInv, IdsInv', HistoryInv, ExtremesInv,
           NEW n \in Node, TakeCache(n)
    PROVE  ExtremesInv'
<1> DEFINE f == flusher[n]
<1>1. /\ DOMAIN f = {"pc", "work", "hour", "channel", "found", "flushes"}
      /\ f.work = Empty
      /\ flusher = [p \in Node |-> flusher[p]] /\ cache = [p \in Node |-> cache[p]]
  BY DEF FlushInv, FlushersInv, FlusherOK, CachesInv, IdsInv, FoundOK, TakeCache
<1>2. /\ cache'[n] = Empty /\ flusher'[n].work = cache[n]
      /\ \A p \in Node : p # n => cache'[p] = cache[p] /\ flusher'[p] = flusher[p]
      /\ UNCHANGED <<table, expired, recorded, lost, stale>>
  <2>1. Flushed(f).work = f.work
    BY <1>1, FlushedFound
  <2> QED BY <1>1, <2>1 DEF TakeCache, history
<1>3. DOMAIN Empty = {}
  BY DEF Empty
<1>4. ASSUME NEW c \in Channel PROVE ExtremesOK(c)'
  <2>1. Snapshots(c)' = Snapshots(c)
    BY <1>1, <1>2, <1>3, SnapshotsStay
  <2>2. Kept(c)' = Kept(c)
    BY <1>2 DEF Kept
  <2> QED BY <1>2, <2>1, <2>2, ExtremesStay DEF ExtremesInv, HistoryInv
<1> QED BY SMTT(60), <1>4 DEF ExtremesInv

\* A step that leaves memory and rows alone.
LEMMA QuietExtremes ==
    ASSUME FlushInv, FlushInv', IdsInv, IdsInv', HistoryInv, ExtremesInv,
           \A p \in Node : cache'[p] = cache[p] /\ flusher'[p].work = flusher[p].work,
           UNCHANGED <<table, expired, recorded, lost, stale>>
    PROVE  ExtremesInv'
<1>1. ASSUME NEW c \in Channel PROVE ExtremesOK(c)'
  <2>1. Snapshots(c)' = Snapshots(c) /\ Kept(c)' = Kept(c)
    BY SnapshotsStay DEF Kept
  <2> QED BY <2>1, ExtremesStay DEF ExtremesInv, HistoryInv
<1> QED BY <1>1 DEF ExtremesInv

LEMMA FindExtremes ==
    ASSUME FlushInv, FlushInv', IdsInv, IdsInv', HistoryInv, ExtremesInv,
           NEW n \in Node, Find(n)
    PROVE  ExtremesInv'
<1> DEFINE f == flusher[n]
<1>1. PICK c, found :
        /\ c \in DOMAIN f.work
        /\ flusher' = [flusher EXCEPT ![n] =
                [f EXCEPT !.pc = "write", !.channel = c, !.found = found]]
        /\ \/ found = FirstRow(c, f.hour) /\ failures' = failures
           \/ found = NoRow /\ failures' = failures + 1
  BY FindGives
<1>2. /\ DOMAIN f = {"pc", "work", "hour", "channel", "found", "flushes"}
      /\ flusher = [p \in Node |-> flusher[p]]
      /\ UNCHANGED <<cache, table, expired, recorded, lost, stale>>
  BY DEF FlushInv, FlushersInv, FlusherOK, Find, history
<1>3. \A p \in Node : cache'[p] = cache[p] /\ flusher'[p].work = flusher[p].work
  BY <1>1, <1>2
<1> QED BY <1>2, <1>3, QuietExtremes

\* What a cleanup takes is kept among the expired.
LEMMA CleanupExtremes ==
    ASSUME FlushAssumption, FlushInv, FlushInv', IdsInv, IdsInv', HistoryInv, ExtremesInv,
           NEW n \in Node, Cleanup(n)
    PROVE  ExtremesInv'
<1>1. PICK gone \in SUBSET DOMAIN table :
        /\ table' = Restrict(table, DOMAIN table \ gone)
        /\ expired' = expired \cup {[id |-> id, row |-> table[id]] : id \in gone}
  BY CleanupTakes
<1>2. /\ UNCHANGED <<cache, recorded, lost, stale>>
      /\ flusher' = [flusher EXCEPT ![n].pc = "sleep"]
      /\ DOMAIN flusher[n] = {"pc", "work", "hour", "channel", "found", "flushes"}
      /\ flusher = [p \in Node |-> flusher[p]]
  BY DEF Cleanup, FlushInv, FlushersInv, FlusherOK
<1>3. \A p \in Node : cache'[p] = cache[p] /\ flusher'[p].work = flusher[p].work
  BY <1>2
<1>4. /\ DOMAIN table' = DOMAIN table \ gone
      /\ \A id \in DOMAIN table' : table'[id] = table[id]
  BY <1>1 DEF Restrict
<1>5. ASSUME NEW c \in Channel PROVE ExtremesOK(c)'
  <2>1. Snapshots(c)' = Snapshots(c)
    BY <1>3, SnapshotsStay
  <2>2. ASSUME NEW r \in Kept(c)' PROVE r \in Kept(c)
    <3>1. CASE \E id \in DOMAIN table' : table'[id].channel = c /\ r = table'[id]
      BY <1>4, <3>1 DEF Kept
    <3>2. CASE \E e \in expired' : e.row.channel = c /\ r = e.row
      <4>1. PICK e \in expired' : e.row.channel = c /\ r = e.row
        BY <3>2
      <4>2. CASE e \in expired
        BY <4>1, <4>2 DEF Kept
      <4>3. CASE e \notin expired
        <5>1. PICK id \in gone : e = [id |-> id, row |-> table[id]]
          BY <1>1, <4>3
        <5>2. r = table[id] /\ table[id].channel = c
          BY <4>1, <5>1
        <5> QED BY <5>2 DEF Kept
      <4> QED BY <4>2, <4>3
    <3> QED BY <2>2, <3>1, <3>2 DEF Kept
  <2>3. ASSUME NEW r \in Kept(c) PROVE r \in Kept(c)'
    <3>1. CASE \E id \in DOMAIN table : table[id].channel = c /\ r = table[id]
      <4>1. PICK id \in DOMAIN table : table[id].channel = c /\ r = table[id]
        BY <3>1
      <4>2. CASE id \in gone
        <5>1. PICK e : e = [id |-> id, row |-> table[id]]
          OBVIOUS
        <5>2. e \in expired' /\ e.row = r
          BY <1>1, <4>1, <4>2, <5>1
        <5> QED BY <4>1, <5>2 DEF Kept
      <4>3. CASE id \notin gone
        BY <1>4, <4>1, <4>3 DEF Kept
      <4> QED BY <4>2, <4>3
    <3>2. CASE \E e \in expired : e.row.channel = c /\ r = e.row
      BY <1>1, <3>2 DEF Kept
    <3> QED BY <2>3, <3>1, <3>2 DEF Kept
  <2>4. Kept(c)' = Kept(c)
    BY <2>2, <2>3
  <2> QED BY <1>2, <2>1, <2>4, ExtremesStay DEF ExtremesInv, HistoryInv
<1> QED BY <1>5 DEF ExtremesInv

LEMMA CrashExtremes ==
    ASSUME FlushInv, FlushInv', IdsInv, IdsInv', HistoryInv, ExtremesInv,
           NEW n \in Node, Crash(n)
    PROVE  ExtremesInv'
<1> DEFINE f == flusher[n]
<1>1. /\ DOMAIN f = {"pc", "work", "hour", "channel", "found", "flushes"}
      /\ flusher = [p \in Node |-> flusher[p]] /\ cache = [p \in Node |-> cache[p]]
      /\ UNCHANGED <<table, expired, recorded, stale>>
      /\ lost' = [c \in Channel |-> Plus(lost[c], [k \in Counter |-> Held(n, c, k)])]
  BY DEF FlushInv, FlushersInv, FlusherOK, CachesInv, Crash
<1>2. /\ cache'[n] = Empty /\ flusher'[n].work = Empty
      /\ \A p \in Node : p # n => cache'[p] = cache[p] /\ flusher'[p] = flusher[p]
  BY <1>1 DEF Crash
<1>3. DOMAIN Empty = {}
  BY DEF Empty
<1>4. ASSUME NEW c \in Channel PROVE ExtremesOK(c)'
  <2>1. /\ lost'[c].requests = lost[c].requests + Held(n, c, "requests")
        /\ lost[c].requests \in Nat
    BY <1>1 DEF Plus, Counter, HistoryInv
  <2>2. /\ Held(n, c, "requests") = CountIn(cache[n], c, "requests")
                                      + CountIn(f.work, c, "requests")
        /\ CountIn(cache[n], c, "requests") \in Nat /\ CountIn(f.work, c, "requests") \in Nat
    BY CountNatural DEF Held, Counter, FlushInv, CachesInv, FlushersInv, FlusherOK
  <2>3. Snapshots(c)' \subseteq Snapshots(c)
    BY <1>2, <1>3 DEF Snapshots
  <2>4. lost'[c].requests = 0 => lost[c].requests = 0
    BY <2>1, <2>2
  <2>5. Kept(c)' = Kept(c)
    BY <1>1 DEF Kept
  <2>6. ASSUME lost'[c].requests = 0, NEW a \in Snapshots(c), a \notin Snapshots(c)'
        PROVE  a.max = 0 /\ recorded[c].disables # 0
    <3>1. CountIn(cache[n], c, "requests") = 0 /\ CountIn(f.work, c, "requests") = 0
      BY <2>1, <2>2, <2>6
    <3>2. \/ c \in DOMAIN cache[n] /\ a = cache[n][c]
          \/ c \in DOMAIN f.work /\ a = f.work[c]
      BY <1>2, <2>6 DEF Snapshots
    <3>3. a.requests = 0
      BY <3>1, <3>2 DEF CountIn
    <3> QED BY <3>3 DEF ExtremesInv, ExtremesOK
  <2>7. \A a \in All(c) : a.max <= a.max /\ a.min <= a.min
    BY AllNatural
  <2>8. ASSUME lost'[c].requests = 0
        PROVE  /\ \A s \in All(c)' : \E a \in All(c) : s.max = a.max
               /\ \A a \in All(c) : a.max # 0 => \E s \in All(c)' : a.max <= s.max
               /\ LeastIsKept(c) =>
                   /\ \A s \in All(c)' : \E a \in All(c) : s.min = a.min
                   /\ \A a \in All(c) : \E s \in All(c)' : s.min <= a.min
    <3>1. \A s \in All(c)' : s \in All(c)
      BY <2>3, <2>5 DEF All
    <3>2. \A a \in All(c) : a \in All(c)' \/ (a.max = 0 /\ recorded[c].disables # 0)
      BY <2>5, <2>6, <2>8 DEF All
    <3> QED BY <2>7, <3>1, <3>2 DEF LeastIsKept
  <2>9. recorded'[c] = recorded[c] /\ recorded[c] \in Recorded /\ ExtremesOK(c)
        /\ (~stale' => ~stale)
    BY <1>1 DEF ExtremesInv, HistoryInv
  <2> QED BY <2>3, <2>4, <2>8, <2>9, ExtremesMove
<1> QED BY <1>4 DEF ExtremesInv

\* A write leaves the other snapshots in hand.
LEMMA WriteSnapshots ==
    ASSUME FlushInv, IdsInv, NEW n \in Node, Write(n), NEW c
    PROVE  /\ Snapshots(c)' \subseteq Snapshots(c)
           /\ c # flusher[n].channel => Snapshots(c)' = Snapshots(c)
           /\ c = flusher[n].channel =>
                /\ \A a \in Snapshots(c) : a \in Snapshots(c)' \/ a = flusher[n].work[c]
                /\ flusher[n].work[c] \in Snapshots(c)
<1> DEFINE f == flusher[n]
<1>1. /\ flusher'[n].work = Restrict(f.work, DOMAIN f.work \ {f.channel})
      /\ cache' = cache /\ \A p \in Node : p # n => flusher'[p] = flusher[p]
      /\ f.channel \in DOMAIN f.work
  BY WriteLeaves DEF Write, FlushInv, FlushersInv, FlusherOK
<1>2. /\ DOMAIN flusher'[n].work = DOMAIN f.work \ {f.channel}
      /\ \A e \in DOMAIN f.work : e # f.channel => flusher'[n].work[e] = f.work[e]
  BY <1>1 DEF Restrict
<1>3. ASSUME NEW p \in Node, c \in DOMAIN flusher'[p].work
      PROVE  c \in DOMAIN flusher[p].work /\ flusher'[p].work[c] = flusher[p].work[c]
  BY <1>1, <1>2, <1>3
<1>4. ASSUME NEW s \in Snapshots(c)' PROVE s \in Snapshots(c)
  <2>1. CASE \E p \in Node : c \in DOMAIN cache'[p] /\ s = cache'[p][c]
    BY <1>1, <2>1 DEF Snapshots
  <2>2. CASE \E p \in Node : c \in DOMAIN flusher'[p].work /\ s = flusher'[p].work[c]
    <3>1. PICK p \in Node : c \in DOMAIN flusher'[p].work /\ s = flusher'[p].work[c]
      BY <2>2
    <3>2. c \in DOMAIN flusher[p].work /\ s = flusher[p].work[c]
      BY <1>3, <3>1
    <3> QED BY <3>2 DEF Snapshots
  <2> QED BY <1>4, <2>1, <2>2 DEF Snapshots
<1>5. ASSUME NEW a \in Snapshots(c), ~(c = f.channel /\ a = f.work[c])
      PROVE  a \in Snapshots(c)'
  <2>1. CASE \E p \in Node : c \in DOMAIN cache[p] /\ a = cache[p][c]
    BY <1>1, <2>1 DEF Snapshots
  <2>2. CASE \E p \in Node : c \in DOMAIN flusher[p].work /\ a = flusher[p].work[c]
    <3>1. PICK p \in Node : c \in DOMAIN flusher[p].work /\ a = flusher[p].work[c]
      BY <2>2
    <3>2. c \in DOMAIN flusher'[p].work /\ a = flusher'[p].work[c]
      <4>1. CASE p = n
        BY <1>2, <1>5, <3>1, <4>1
      <4>2. CASE p # n
        BY <1>1, <3>1, <4>2
      <4> QED BY <4>1, <4>2
    <3> QED BY <3>2 DEF Snapshots
  <2> QED BY <1>5, <2>1, <2>2 DEF Snapshots
<1>6. c = f.channel => f.work[c] \in Snapshots(c)
  BY <1>1 DEF Snapshots
<1> QED BY SMTT(60), <1>4, <1>5, <1>6

\* The extremes of a row after a merge.
LEMMA MergedExtremes ==
    ASSUME NEW row \in Row, NEW snap \in Snapshot
    PROVE  LET new == Merged(row, snap)
           IN  /\ new.max \in {row.max, snap.max} /\ row.max <= new.max /\ snap.max <= new.max
               /\ new.min = LowerOf(row.min, snap.min)
<1> DEFINE max == Max({row.max, snap.max})
           min == LowerOf(row.min, snap.min)
           requests == row.requests + snap.requests
           errors == row.errors + snap.errors
           successes == row.successes + snap.successes
           disables == row.disables + snap.disables
           total == row.total + snap.total
           new == [row EXCEPT !.requests = requests, !.errors = errors,
                              !.successes = successes, !.disables = disables,
                              !.total = total, !.max = max, !.min = min]
<1>1. Merged(row, snap) = new
  BY Zenon DEF Merged
<1>2. max \in {row.max, snap.max} /\ row.max <= max /\ snap.max <= max
  BY GreaterOfTwo DEF Row, Snapshot
<1> HIDE DEF requests, errors, successes, disables, total, max, min
<1>3. new.max = max /\ new.min = min
  BY DEF Row
<1> HIDE DEF new
<1> QED BY <1>1, <1>2, <1>3 DEF min

\* A row of one channel that changes or appears: the other channels keep theirs.
LEMMA RowWritten ==
    ASSUME NEW id, DOMAIN table' = DOMAIN table \cup {id}, expired' = expired,
           \A i \in DOMAIN table : i # id => table'[i] = table[i],
           NEW e, table'[id].channel = e, id \in DOMAIN table => table[id].channel = e,
           NEW c
    PROVE  /\ c # e => Kept(c)' = Kept(c)
           /\ \A r \in Kept(c)' : r \in Kept(c) \/ r = table'[id]
           /\ \A r \in Kept(c) : r \in Kept(c)' \/ (id \in DOMAIN table /\ r = table[id])
           /\ table'[id] \in Kept(e)'
           /\ id \in DOMAIN table => table[id] \in Kept(e)
<1>1. ASSUME NEW r \in Kept(c)' PROVE r \in Kept(c) \/ (c = e /\ r = table'[id])
  <2>1. CASE \E i \in DOMAIN table' : table'[i].channel = c /\ r = table'[i]
    <3>1. PICK i \in DOMAIN table' : table'[i].channel = c /\ r = table'[i]
      BY <2>1
    <3>2. i # id => i \in DOMAIN table /\ table[i] = r /\ table[i].channel = c
      BY <3>1
    <3> QED BY <3>1, <3>2 DEF Kept
  <2>2. CASE \E x \in expired : x.row.channel = c /\ r = x.row
    BY <2>2 DEF Kept
  <2> QED BY <1>1, <2>1, <2>2 DEF Kept
<1>2. ASSUME NEW r \in Kept(c)
      PROVE  r \in Kept(c)' \/ (c = e /\ id \in DOMAIN table /\ r = table[id])
  <2>1. CASE \E i \in DOMAIN table : table[i].channel = c /\ r = table[i]
    <3>1. PICK i \in DOMAIN table : table[i].channel = c /\ r = table[i]
      BY <2>1
    <3>2. i # id => i \in DOMAIN table' /\ table'[i] = r /\ table'[i].channel = c
      BY <3>1
    <3> QED BY <3>1, <3>2 DEF Kept
  <2>2. CASE \E x \in expired : x.row.channel = c /\ r = x.row
    BY <2>2 DEF Kept
  <2> QED BY <1>2, <2>1, <2>2 DEF Kept
<1>3. table'[id] \in Kept(e)' /\ (id \in DOMAIN table => table[id] \in Kept(e))
  BY DEF Kept
<1> QED BY <1>1, <1>2, <1>3

\* A write that fails takes a snapshot with it, one of a disable where no request is lost.
LEMMA LostExtremes ==
    ASSUME FlushInv, FlushInv', IdsInv, IdsInv', HistoryInv, NEW n \in Node, Write(n),
           NEW c \in Channel, ExtremesOK(c),
           lost' = [lost EXCEPT ![flusher[n].channel] =
                        Plus(@, flusher[n].work[flusher[n].channel])],
           UNCHANGED <<table, stale>>
    PROVE  ExtremesOK(c)'
<1> DEFINE f == flusher[n]
           snap == f.work[f.channel]
<1>1. /\ f.channel \in Channel /\ snap \in Snapshot /\ recorded[c] \in Recorded
      /\ UNCHANGED <<recorded, expired>> /\ (~stale' => ~stale)
  BY DEF Write, FlushInv, FlushersInv, FlusherOK, IsWork, HistoryInv
<1>2. /\ Snapshots(c)' \subseteq Snapshots(c)
      /\ c # f.channel => Snapshots(c)' = Snapshots(c)
      /\ c = f.channel => \A a \in Snapshots(c) : a \in Snapshots(c)' \/ a = snap
      /\ c = f.channel => snap \in Snapshots(c)
  BY WriteSnapshots
<1>3. Kept(c)' = Kept(c)
  BY <1>1 DEF Kept
<1>4. CASE c # f.channel
  <2>1. lost'[c] = lost[c]
    BY <1>4 DEF HistoryInv
  <2> QED BY <1>1, <1>2, <1>3, <1>4, <2>1, ExtremesStay
<1>5. CASE c = f.channel
  <2>1. /\ lost'[c].requests = lost[c].requests + snap.requests
        /\ lost[c].requests \in Nat /\ snap.requests \in Nat
    BY <1>1, <1>5 DEF Plus, Counter, HistoryInv, Snapshot
  <2>2. lost'[c].requests = 0 => lost[c].requests = 0 /\ snap.requests = 0
    BY SMTT(60), <2>1
  <2>3. snap.requests = 0 => snap.max = 0 /\ recorded[c].disables # 0
    BY <1>2, <1>5 DEF ExtremesOK
  <2> HIDE DEF snap
  <2>4. \A a \in All(c) : a.max <= a.max /\ a.min <= a.min
    BY AllNatural
  <2>5. ASSUME lost'[c].requests = 0
        PROVE  /\ \A s \in All(c)' : \E a \in All(c) : s.max = a.max
               /\ \A a \in All(c) : a.max # 0 => \E s \in All(c)' : a.max <= s.max
               /\ LeastIsKept(c) =>
                   /\ \A s \in All(c)' : \E a \in All(c) : s.min = a.min
                   /\ \A a \in All(c) : \E s \in All(c)' : s.min <= a.min
    <3>1. \A s \in All(c)' : s \in All(c)
      BY <1>2, <1>3 DEF All
    <3>2. \A a \in All(c) : a \in All(c)' \/ (a.max = 0 /\ recorded[c].disables # 0)
      BY <1>2, <1>3, <1>5, <2>2, <2>3, <2>5 DEF All
    <3> QED BY <2>4, <3>1, <3>2 DEF LeastIsKept
  <2> QED BY <1>1, <1>2, <2>2, <2>5, ExtremesMove
<1> QED BY SMTT(60), <1>4, <1>5

\* An insert makes a row of the snapshot, with its extremes.
LEMMA InsertExtremes ==
    ASSUME FlushInv, FlushInv', IdsInv, IdsInv', HistoryInv, NEW n \in Node, Write(n),
           NEW c \in Channel, ExtremesOK(c), flusher[n].found = NoRow,
           table' = Stored(flusher[n]), stale' = (stale \/ Stale(flusher[n])), UNCHANGED lost
    PROVE  ExtremesOK(c)'
<1> DEFINE f == flusher[n]
           snap == f.work[f.channel]
           empty == EmptyRow(f.channel, f.hour)
           row == Merged(empty, snap)
<1>1. /\ f.channel \in Channel /\ snap \in Snapshot /\ f.hour \in Nat
      /\ recorded[c] \in Recorded
      /\ UNCHANGED <<recorded, expired>> /\ (~stale' => ~stale)
  BY ZenonT(60) DEF Write, FlushInv, FlushersInv, FlusherOK, IsWork, HistoryInv
<1>2. /\ Snapshots(c)' \subseteq Snapshots(c)
      /\ c # f.channel => Snapshots(c)' = Snapshots(c)
      /\ c = f.channel => \A a \in Snapshots(c) : a \in Snapshots(c)' \/ a = snap
      /\ c = f.channel => snap \in Snapshots(c)
  BY WriteSnapshots
<1>3. empty \in Row /\ empty.channel = f.channel /\ empty.max = 0 /\ empty.min = 0
  BY <1>1, EmptyRowIsRow DEF EmptyRow
<1>4. PICK next : next = NextId
  OBVIOUS
<1>5. table' = Set(table, next, row)
  BY <1>4, Zenon DEF Stored
<1>6. next \notin DOMAIN table
  BY <1>4, NextIdIsNew DEF FlushInv, TableInv
<1> HIDE DEF empty, snap
<1>7. row.channel = f.channel /\ row.max = snap.max /\ row.min = snap.min
  <2>1. row.channel = f.channel
    BY <1>1, <1>3, MergedRow
  <2>2. /\ row.max \in {empty.max, snap.max} /\ snap.max <= row.max
        /\ row.min = LowerOf(empty.min, snap.min)
    BY <1>1, <1>3, MergedExtremes
  <2>3. snap.max \in Nat /\ snap.min \in Nat
    BY <1>1 DEF Snapshot
  <2> QED BY <1>3, <2>1, <2>2, <2>3 DEF LowerOf
<1> HIDE DEF row
<1>8. /\ DOMAIN table' = DOMAIN table \cup {next} /\ table'[next] = row
      /\ \A i \in DOMAIN table : i # next => table'[i] = table[i]
  BY <1>5, <1>6 DEF Set
<1>9. PICK e : e = f.channel
  OBVIOUS
<1>10. /\ c # e => Kept(c)' = Kept(c)
       /\ \A r \in Kept(c)' : r \in Kept(c) \/ r = row
       /\ \A r \in Kept(c) : r \in Kept(c)'
       /\ row \in Kept(e)'
  BY <1>1, <1>6, <1>7, <1>8, <1>9, RowWritten
<1>11. CASE c # e
  BY <1>1, <1>2, <1>9, <1>10, <1>11, ExtremesStay
<1>12. CASE c = e
  <2>1. \A a \in All(c) : a.max <= a.max /\ a.min <= a.min
    BY AllNatural
  <2>2. \A s \in All(c)' : s \in All(c) \/ (s.max = snap.max /\ s.min = snap.min)
    BY <1>2, <1>7, <1>10 DEF All
  <2>3. snap \in All(c) /\ row \in All(c)'
    BY <1>2, <1>9, <1>10, <1>12 DEF All
  <2>4. \A a \in All(c) : a \in All(c)' \/ (a.max = row.max /\ a.min = row.min)
    BY <1>2, <1>7, <1>9, <1>10, <1>12 DEF All
  <2>5. /\ \A s \in All(c)' : \E a \in All(c) : s.max = a.max
        /\ \A a \in All(c) : \E s \in All(c)' : a.max <= s.max
        /\ \A s \in All(c)' : \E a \in All(c) : s.min = a.min
        /\ \A a \in All(c) : \E s \in All(c)' : s.min <= a.min
    BY <2>1, <2>2, <2>3, <2>4
  <2> QED BY <1>1, <1>2, <2>5, ExtremesMove
<1> QED BY <1>11, <1>12

\* An update gives the row the extremes of both, where the row is still as it was.
LEMMA UpdateExtremes ==
    ASSUME FlushInv, FlushInv', IdsInv, IdsInv', HistoryInv, NEW n \in Node, Write(n),
           NEW c \in Channel, ExtremesOK(c), flusher[n].found # NoRow,
           flusher[n].found.id \in DOMAIN table,
           table' = Stored(flusher[n]), stale' = (stale \/ Stale(flusher[n])), UNCHANGED lost
    PROVE  ExtremesOK(c)'
<1> DEFINE f == flusher[n]
           snap == f.work[f.channel]
           old == f.found.row
           row == Merged(old, snap)
<1>1. /\ f.channel \in Channel /\ snap \in Snapshot
      /\ recorded[c] \in Recorded /\ recorded[c].latencies \subseteq Nat
      /\ UNCHANGED <<recorded, expired>> /\ (~stale' => ~stale)
      /\ old \in Row /\ old.channel = f.channel /\ table[f.found.id].channel = f.channel
  <2>1. f.pc = "write" /\ FlusherOK(f, hour) /\ FoundOK(f)
    BY DEF Write, FlushInv, FlushersInv, IdsInv
  <2>2. f.channel \in Channel /\ snap \in Snapshot
    BY <2>1 DEF FlusherOK, IsWork
  <2>3. recorded[c] \in Recorded /\ recorded[c].latencies \subseteq Nat
    BY FlushAssumption DEF HistoryInv, Recorded, FlushAssumption
  <2>4. UNCHANGED <<recorded, expired>> /\ (~stale' => ~stale)
    BY DEF Write
  <2>5. old \in Row /\ old.channel = f.channel /\ table[f.found.id].channel = f.channel
    BY <2>1 DEF FlusherOK, FoundOK
  <2> QED BY <2>2, <2>3, <2>4, <2>5
<1>2. /\ Snapshots(c)' \subseteq Snapshots(c)
      /\ c # f.channel => Snapshots(c)' = Snapshots(c)
      /\ c = f.channel => \A a \in Snapshots(c) : a \in Snapshots(c)' \/ a = snap
      /\ c = f.channel => snap \in Snapshots(c)
  BY WriteSnapshots
<1>3. PICK id \in DOMAIN table : id = f.found.id
  OBVIOUS
<1>4. table' = [table EXCEPT ![id] = row]
  BY <1>3, Zenon DEF Stored
<1>5. ~stale' => table[id] = old
  BY <1>3 DEF Stale
<1>6. /\ row.channel = f.channel
      /\ row.max \in {old.max, snap.max} /\ old.max <= row.max /\ snap.max <= row.max
      /\ row.min = LowerOf(old.min, snap.min)
  BY <1>1, MergedRow, MergedExtremes
<1>7. old.min \in Nat /\ snap.min \in Nat
  BY <1>1 DEF Row, Snapshot
<1> HIDE DEF row, snap
<1>8. /\ DOMAIN table' = DOMAIN table \cup {id} /\ table'[id] = row
      /\ \A i \in DOMAIN table : i # id => table'[i] = table[i]
      /\ table[id].channel = f.channel
  BY <1>1, <1>3, <1>4
<1>9. PICK e : e = f.channel
  OBVIOUS
<1>10. /\ c # e => Kept(c)' = Kept(c)
       /\ \A r \in Kept(c)' : r \in Kept(c) \/ r = row
       /\ \A r \in Kept(c) : r \in Kept(c)' \/ r = table[id]
       /\ row \in Kept(e)' /\ table[id] \in Kept(e)
  BY <1>1, <1>6, <1>8, <1>9, RowWritten
<1>11. CASE c # e
  BY <1>1, <1>2, <1>9, <1>10, <1>11, ExtremesStay
<1>12. CASE c = e
  <2>1. \A a \in All(c) : a.max <= a.max /\ a.min <= a.min
    BY AllNatural
  <2>2. ASSUME ~stale', lost'[c].requests = 0
        PROVE  /\ \A s \in All(c)' : \E a \in All(c) : s.max = a.max
               /\ \A a \in All(c) : a.max # 0 => \E s \in All(c)' : a.max <= s.max
               /\ LeastIsKept(c) =>
                   /\ \A s \in All(c)' : \E a \in All(c) : s.min = a.min
                   /\ \A a \in All(c) : \E s \in All(c)' : s.min <= a.min
    <3>1. /\ snap \in All(c) /\ old \in All(c) /\ row \in All(c)'
          /\ \A s \in All(c)' : s \in All(c) \/ s = row
          /\ \A a \in All(c) : a \in All(c)' \/ a = snap \/ a = old
      BY <1>2, <1>5, <1>9, <1>10, <1>12, <2>2 DEF All
    <3> HIDE DEF old
    <3>2. /\ \A s \in All(c)' : \E a \in All(c) : s.max = a.max
          /\ \A a \in All(c) : a.max # 0 => \E s \in All(c)' : a.max <= s.max
      BY <1>6, <2>1, <3>1
    <3>3. ASSUME LeastIsKept(c)
          PROVE  row.min \in {old.min, snap.min} /\ row.min <= old.min /\ row.min <= snap.min
      <4>1. Extremes(c)
        BY <1>1, <2>2 DEF ExtremesOK
      <4>2. old.min # 0
        BY <3>1, <3>3, <4>1 DEF Extremes, LeastIsKept
      <4> QED BY <1>6, <1>7, <4>2 DEF LowerOf
    <3> QED BY <2>1, <3>1, <3>2, <3>3
  <2> QED BY <1>1, <1>2, <2>2, ExtremesMove
<1> QED BY <1>11, <1>12

LEMMA WriteExtremes ==
    ASSUME FlushInv, FlushInv', IdsInv, IdsInv', HistoryInv, ExtremesInv,
           NEW n \in Node, Write(n)
    PROVE  ExtremesInv'
<1> DEFINE f == flusher[n]
<1>1. ASSUME NEW c \in Channel PROVE ExtremesOK(c)'
  <2>1. ExtremesOK(c) /\ recorded[c] \in Recorded
    BY DEF ExtremesInv, HistoryInv
  <2>2. CASE /\ lost' = [lost EXCEPT ![f.channel] = Plus(@, f.work[f.channel])]
             /\ UNCHANGED <<table, stale>>
    BY <2>1, <2>2, LostExtremes
  <2>3. CASE table' = Stored(f) /\ stale' = (stale \/ Stale(f)) /\ UNCHANGED lost
    <3>1. CASE f.found = NoRow
      BY <2>1, <2>3, <3>1, InsertExtremes
    <3>2. CASE f.found # NoRow /\ f.found.id \in DOMAIN table
      BY <2>1, <2>3, <3>2, UpdateExtremes
    <3>3. CASE f.found # NoRow /\ f.found.id \notin DOMAIN table
      <4>1. stale'
        BY <2>3, <3>3 DEF Stale
      <4>2. UNCHANGED <<recorded, lost>>
        BY <2>3 DEF Write
      <4>3. Snapshots(c)' \subseteq Snapshots(c)
        BY WriteSnapshots
      <4> HIDE DEF f
      <4> QED BY <2>1, <4>1, <4>2, <4>3, ExtremesMove
    <3> QED BY <3>1, <3>2, <3>3
  <2> QED BY <2>2, <2>3 DEF Write
<1> QED BY <1>1 DEF ExtremesInv

\* The channels that a step does not count for keep their extremes.
LEMMA RecordExtremes ==
    ASSUME FlushAssumption, FlushInv, FlushInv', IdsInv, IdsInv', HistoryInv, ExtremesInv,
           NEW n \in Node, NEW e \in Channel,
           \/ RecordChannelDisable(n, e)
           \/ \E latency \in Latency, isError \in BOOLEAN :
                RecordChannelRequest(n, e, latency, isError)
    PROVE  ExtremesInv'
<1>1. ExtremesOK(e)'
  BY RequestExtremes, DisableExtremes DEF ExtremesInv
<1>2. PICK new : cache' = [cache EXCEPT ![n] = Set(@, e, new)]
  BY DEF RecordChannelRequest, RecordChannelDisable
<1>3. /\ UNCHANGED <<flusher, table, expired, lost, stale>>
      /\ \A c \in Channel : c # e => recorded'[c] = recorded[c]
  BY ZenonT(60) DEF RecordChannelRequest, RecordChannelDisable, HistoryInv
<1>4. ASSUME NEW c \in Channel, c # e PROVE ExtremesOK(c)'
  <2>1. Snapshots(c)' = Snapshots(c) /\ Kept(c)' = Kept(c)
    BY <1>2, <1>3, <1>4, CacheReplaced
  <2>2. /\ recorded'[c] = recorded[c] /\ recorded[c] \in Recorded /\ ExtremesOK(c)
        /\ (~stale' => ~stale) /\ lost'[c] = lost[c]
    BY <1>3, <1>4 DEF HistoryInv, ExtremesInv
  <2> QED BY <2>1, <2>2, ExtremesStay
<1> QED BY <1>1, <1>4 DEF ExtremesInv

LEMMA ExtremesStep ==
    ASSUME FlushAssumption, FlushInv, FlushInv', IdsInv, IdsInv', HistoryInv, ExtremesInv,
           [Next]_vars
    PROVE  ExtremesInv'
<1>1. ASSUME NEW n \in Node, NEW e \in Channel,
             \/ RecordChannelDisable(n, e)
             \/ \E latency \in Latency, isError \in BOOLEAN :
                    RecordChannelRequest(n, e, latency, isError)
      PROVE  ExtremesInv'
  BY <1>1, RecordExtremes
<1>2. ASSUME NEW n \in Node, TakeCache(n) PROVE ExtremesInv'
  BY <1>2, TakeCacheExtremes
<1>3. ASSUME NEW n \in Node, Find(n) PROVE ExtremesInv'
  BY <1>3, FindExtremes
<1>4. ASSUME NEW n \in Node, Write(n) PROVE ExtremesInv'
  BY <1>4, WriteExtremes
<1>5. ASSUME NEW n \in Node, Cleanup(n) PROVE ExtremesInv'
  BY <1>5, CleanupExtremes
<1>6. ASSUME NEW n \in Node, Crash(n) PROVE ExtremesInv'
  BY <1>6, CrashExtremes
<1>7. CASE HourPasses \/ UNCHANGED vars
  <2>1. UNCHANGED <<cache, flusher, table, expired, recorded, lost, stale>>
    BY <1>7 DEF HourPasses, vars, history
  <2> QED BY <2>1, QuietExtremes
<1> QED BY <1>1, <1>2, <1>3, <1>4, <1>5, <1>6, <1>7 DEF Next

LEMMA ExtremesInit == ASSUME Init PROVE ExtremesInv
<1> SUFFICES ASSUME NEW c \in Channel PROVE ExtremesOK(c)
  BY DEF ExtremesInv
<1>1. recorded[c].latencies = {} /\ recorded[c].requests = 0
  BY DEF Init
<1>2. Snapshots(c) = {}
  BY DEF Init, Snapshots, Empty
<1>3. Kept(c) = {}
  BY DEF Init, Kept
<1> QED BY <1>1, <1>2, <1>3 DEF ExtremesOK, Extremes, All

LEMMA ExtremesInvariant == Spec => []ExtremesInv
<1>1. Init => ExtremesInv
  BY ExtremesInit
<1>2. /\ FlushInv /\ FlushInv' /\ IdsInv /\ IdsInv' /\ CountsInv /\ ExtremesInv
      /\ [Next]_vars
      => ExtremesInv'
  BY ExtremesStep, FlushAssumption DEF CountsInv
<1> QED BY <1>1, <1>2, FlushInvariant, IdsInvariant, CountsInvariant, PTL DEF Spec

\* The greatest and the least latency recorded are those of the caches, the flushers' hands and
\* the rows, where nothing was lost or overwritten; the least where no disable was recorded and
\* no request took 0 ms (RecordChannelRequest, FlushHealthCache).
THEOREM ExtremesAreKept == Spec => []ExtremesSurvive
<1>1. FlushInv /\ IdsInv /\ CountsInv /\ ExtremesInv => ExtremesSurvive
  <2> SUFFICES ASSUME FlushInv, IdsInv, CountsInv, ExtremesInv, NEW c \in Channel,
                      ~stale, lost[c].requests = 0
               PROVE  LET all == All(c)
                          latencies == recorded[c].latencies
                      IN  /\ Max({0} \cup latencies) = Max({0} \cup {s.max : s \in all})
                          /\ /\ recorded[c].disables = 0 /\ recorded[c].requests > 0
                             /\ 0 \notin latencies
                             => Min(latencies) = Min({s.min : s \in all})
    BY DEF ExtremesSurvive, All
  <2> DEFINE lat == recorded[c].latencies
             A == {0} \cup lat
             B == {0} \cup {s.max : s \in All(c)}
             M == {s.min : s \in All(c)}
  <2>1. /\ Extremes(c) /\ \E bound \in Nat : \A l \in lat : l <= bound
        /\ recorded[c].requests > 0 => lat # {}
    BY DEF ExtremesInv, ExtremesOK
  <2>2. lat \in SUBSET Nat
    BY FlushAssumption DEF CountsInv, HistoryInv, Recorded, FlushAssumption
  <2>3. /\ B \subseteq A /\ A \in SUBSET Nat
        /\ \A a \in A : \E b \in B : a <= b
    <3>1. B \subseteq A
      BY <2>1 DEF Extremes
    <3>2. ASSUME NEW a \in A PROVE \E b \in B : a <= b
      BY <2>1, <2>2 DEF Extremes
    <3> QED BY <2>2, <3>1, <3>2
  <2>4. PICK bound \in Nat : \A l \in A : l <= bound
    BY <2>1
  <2>5. Max(A) = Max(B)
    <3>1. A # {} /\ B # {} /\ B \in SUBSET Nat /\ \A l \in B : l <= bound
      BY <2>3, <2>4
    <3> HIDE DEF A, B
    <3>2. Max(A) \in A /\ \A a \in A : Max(A) >= a
      BY <2>3, <2>4, <3>1, GreatestElement
    <3>3. Max(B) \in B /\ \A b \in B : Max(B) >= b
      BY <3>1, GreatestElement
    <3>4. PICK b \in B : Max(A) <= b
      BY <2>3, <3>2
    <3>5. Max(A) \in Nat /\ Max(B) \in Nat /\ b \in Nat
      BY <2>3, <3>1, <3>2, <3>3
    <3>6. Max(B) >= b /\ Max(A) >= Max(B)
      BY <2>3, <3>2, <3>3
    <3> QED BY <3>4, <3>5, <3>6
  <2>6. ASSUME recorded[c].disables = 0, recorded[c].requests > 0, 0 \notin lat
        PROVE  Min(lat) = Min(M)
    <3>1. /\ \A s \in All(c) : s.min \in lat
          /\ \A l \in lat : \E s \in All(c) : s.min <= l
      BY <2>1, <2>6 DEF Extremes, LeastIsKept
    <3>2. M \subseteq lat /\ \A l \in lat : \E x \in M : x <= l
      BY <3>1
    <3>3. lat # {} /\ M # {} /\ M \in SUBSET Nat
      BY <2>1, <2>2, <2>6, <3>2
    <3> HIDE DEF M, lat
    <3>4. Min(lat) \in lat /\ \A l \in lat : Min(lat) <= l
      BY <2>2, <3>3, LeastElement
    <3>5. Min(M) \in M /\ \A x \in M : Min(M) <= x
      BY <3>3, LeastElement
    <3>6. PICK x \in M : x <= Min(lat)
      BY <3>2, <3>4
    <3>7. Min(lat) \in Nat /\ Min(M) \in Nat /\ x \in Nat
      BY <2>2, <3>3, <3>4, <3>5
    <3>8. Min(M) <= x /\ Min(lat) <= Min(M)
      BY <3>2, <3>4, <3>5
    <3> QED BY <3>6, <3>7, <3>8
  <2> QED BY <2>5, <2>6
<1> QED BY <1>1, FlushInvariant, IdsInvariant, CountsInvariant, ExtremesInvariant, PTL
=============================================================================
