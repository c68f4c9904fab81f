----------------------------- MODULE QuotaData -----------------------------
(***************************************************************************)
(* Hourly usage rows: backend/src/model/usedata.go.  Every node adds up    *)
(* usage in CacheQuotaData; UpdateQuotaData saves it from time to time     *)
(* with the cache's lock held throughout, so a node's own requests wait,   *)
(* but other nodes save to the same table meanwhile.                       *)
(*                                                                         *)
(* Left out: the token, stream and error counts, which are added like      *)
(* count, the ratios, which the last write sets, and the averages, which   *)
(* every write derives from the sums.                                      *)
(***************************************************************************)
EXTENDS Integers, FiniteSets, FiniteSetsExt, Functions

CONSTANTS
    Node,
    Key,          \* user, model, hour, channel and group
    UseTime,      \* the latencies a request may have
    MaxLogged,    \* bound: requests logged in all
    MaxFailures,  \* bound on failed queries
    MaxCrashes    \* bound on crashes

ASSUME QuotaAssumption ==
    /\ IsFiniteSet(Node)
    /\ UseTime \subseteq Nat
    /\ {MaxLogged, MaxFailures, MaxCrashes} \subseteq Nat

VARIABLES
    cache,     \* CacheQuotaData of each node: an entry for some keys
    saver,     \* the save of each node; its pc is not "sleep" while it holds the lock
    table,     \* quota_data: the rows, by id
    logged,    \* history: what was logged of each key
    lost,      \* history: what failed writes and crashes took of it
    failures,
    crashes

vars == <<cache, saver, table, logged, lost, failures, crashes>>

Nothing == [count |-> 0, time |-> 0, max |-> 0]
Empty == [k \in {} |-> Nothing]

Init ==
    /\ cache = [n \in Node |-> Empty]
    /\ saver = [n \in Node |-> [pc |-> "sleep", left |-> {}, key |-> CHOOSE k \in Key : TRUE]]
    /\ table = [id \in {} |-> Nothing]
    /\ logged = [k \in Key |-> Nothing]
    /\ lost = [k \in Key |-> Nothing]
    /\ failures = 0
    /\ crashes = 0

Set(f, x, y) == [z \in DOMAIN f \cup {x} |-> IF z = x THEN y ELSE f[z]]

\* Mutant: the maximum of the entry replaces the row's.
AddedLastMax(e, f) ==
    [e EXCEPT !.count = @ + f.count, !.time = @ + f.time, !.max = f.max]

\* An entry or a row with another one added to it.
Added(e, f) ==
    [e EXCEPT !.count = @ + f.count, !.time = @ + f.time, !.max = Max({@, f.max})]

-----------------------------------------------------------------------------

Entry(n, k) == IF k \in DOMAIN cache[n] THEN cache[n][k] ELSE Nothing

\* LogQuotaDataEx and LogQuotaData, which wait for the lock.
LogQuotaData(n, k, time) ==
    LET one == [count |-> 1, time |-> time, max |-> time]
    IN  /\ saver[n].pc = "sleep"
        /\ SumFunctionOnSet([j \in Key |-> logged[j].count], Key) < MaxLogged
        /\ cache' = [cache EXCEPT ![n] = Set(@, k, Added(Entry(n, k), one))]
        /\ logged' = [logged EXCEPT ![k] = Added(@, one)]
        /\ UNCHANGED <<saver, table, lost, failures, crashes>>

\* SaveQuotaDataCache takes the lock.
StartSave(n) ==
    /\ saver[n].pc = "sleep"
    /\ cache[n] # Empty
    /\ saver' = [saver EXCEPT ![n].pc = "find", ![n].left = DOMAIN cache[n]]
    /\ UNCHANGED <<cache, table, logged, lost, failures, crashes>>

RowsOf(k) == {id \in DOMAIN table : table[id].key = k}

\* Mutant: what the query found is not looked at.
FindIgnored(n) ==
    /\ saver[n].pc = "find"
    /\ \E k \in saver[n].left : saver' = [saver EXCEPT ![n].pc = "create", ![n].key = k]
    /\ UNCHANGED <<cache, table, logged, lost, failures, crashes>>

\* The query for a row of the next key; a failed one leaves Id at 0, as if there were none.
Find(n) ==
    /\ saver[n].pc = "find"
    /\ \E k \in saver[n].left :
        \/ /\ saver' = [saver EXCEPT
                ![n].pc = IF RowsOf(k) # {} THEN "increase" ELSE "create", ![n].key = k]
           /\ UNCHANGED failures
        \/ /\ failures < MaxFailures
           /\ failures' = failures + 1
           /\ saver' = [saver EXCEPT ![n].pc = "create", ![n].key = k]
    /\ UNCHANGED <<cache, table, logged, lost, crashes>>

\* increaseQuotaData is one UPDATE of the rows of the key, whichever they are by now.
Increased(k, entry) ==
    [id \in DOMAIN table |-> IF id \in RowsOf(k) THEN Added(table[id], entry) ELSE table[id]]

NewRow(k, entry) == [key |-> k, count |-> entry.count, time |-> entry.time, max |-> entry.max]

Created(k, entry) == Set(table, Cardinality(DOMAIN table) + 1, NewRow(k, entry))

Stored(n, k) ==
    IF saver[n].pc = "increase" THEN Increased(k, cache[n][k]) ELSE Created(k, cache[n][k])

\* Mutant: the cache is emptied within the loop.
WriteEmptiesCache(n) ==
    LET k == saver[n].key
        left == saver[n].left \ {k}
    IN  /\ saver[n].pc \in {"increase", "create"}
        /\ table' = Stored(n, k)
        /\ saver' = [saver EXCEPT ![n] =
                        [@ EXCEPT !.left = left, !.pc = IF left = {} THEN "sleep" ELSE "find"]]
        /\ cache' = [cache EXCEPT ![n] = Empty]
        /\ UNCHANGED <<logged, lost, failures, crashes>>

\* The write of a key, whose error stops nothing.  After the last one the cache is
\* emptied and the lock released.
Write(n) ==
    LET k == saver[n].key
        left == saver[n].left \ {k}
    IN  /\ saver[n].pc \in {"increase", "create"}
        /\ \/ table' = Stored(n, k) /\ UNCHANGED <<lost, failures>>
           \/ /\ failures < MaxFailures
              /\ failures' = failures + 1
              /\ lost' = [lost EXCEPT ![k] = Added(@, cache[n][k])]
              /\ UNCHANGED table
        /\ saver' = [saver EXCEPT ![n] =
                        [@ EXCEPT !.left = left, !.pc = IF left = {} THEN "sleep" ELSE "find"]]
        /\ cache' = IF left = {} THEN [cache EXCEPT ![n] = Empty] ELSE cache
        /\ UNCHANGED <<logged, crashes>>

\* What a node has logged and not yet written.
Unsaved(n, k) == k \in DOMAIN cache[n] /\ (saver[n].pc = "sleep" \/ k \in saver[n].left)

\* A process ends and another starts with empty memory.
Crash(n) ==
    /\ crashes < MaxCrashes
    /\ crashes' = crashes + 1
    /\ cache' = [cache EXCEPT ![n] = Empty]
    /\ saver' = [saver EXCEPT ![n].pc = "sleep", ![n].left = {}]
    /\ lost' = [k \in Key |-> IF Unsaved(n, k) THEN Added(lost[k], cache[n][k]) ELSE lost[k]]
    /\ UNCHANGED <<table, logged, failures>>

Next ==
    \E n \in Node :
        \/ \E k \in Key, time \in UseTime : LogQuotaData(n, k, time)
        \/ StartSave(n)
        \/ Find(n)
        \/ Write(n)
        \/ Crash(n)

Spec == Init /\ [][Next]_vars

-----------------------------------------------------------------------------
(* Properties.                                                             *)

TypeOK ==
    /\ \A n \in Node :
        /\ DOMAIN cache[n] \subseteq Key
        /\ saver[n].left \subseteq DOMAIN cache[n]
        /\ saver[n].pc # "sleep" => saver[n].left # {}
        /\ saver[n].pc \in {"increase", "create"} => saver[n].key \in saver[n].left
    /\ \A id \in DOMAIN table : table[id].key \in Key

InHand(n, k, field) == IF Unsaved(n, k) THEN cache[n][k][field] ELSE 0

InMemory(k, field) == SumFunctionOnSet([n \in Node |-> InHand(n, k, field)], Node)
InRows(k, field) == SumFunctionOnSet([id \in DOMAIN table |-> table[id][field]], RowsOf(k))

Accounted(k, field) == InRows(k, field) + InMemory(k, field) + lost[k][field]

\* Every request logged of a key is in a cache, in a row or taken by a failed write or a
\* crash; while the key has one row, in one of them only, and the greatest latency is kept
\* with it.  So saves of several nodes add up, and none is repeated after a crash.  (With
\* more rows an update is counted in each of them.)
UsesKeptOnce ==
    \A k \in Key :
        /\ Accounted(k, "count") >= logged[k].count
        /\ Cardinality(RowsOf(k)) <= 1 =>
            /\ \A field \in {"count", "time"} : Accounted(k, field) = logged[k][field]
            /\ logged[k].max = Max({lost[k].max} \cup {table[id].max : id \in RowsOf(k)}
                                       \cup {cache[n][k].max : n \in {m \in Node : Unsaved(m, k)}})

\* A key has at most a row for every node that looked for it at the same time and for
\* every query that failed: one, on one node whose queries succeed.
RowsBounded == \A k \in Key : Cardinality(RowsOf(k)) <= Cardinality(Node) + failures
=============================================================================
