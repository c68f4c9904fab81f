-------------------------- MODULE QuotaData_proofs --------------------------
(***************************************************************************)
(* What the hourly usage rows keep, for any nodes, keys and faults: no     *)
(* save is without a key, the rows of a key are few, and every use logged  *)
(* is in a cache, in a row or lost, once where the key has one row.        *)
(***************************************************************************)
EXTENDS QuotaData, SetLemmas, TLAPS

-----------------------------------------------------------------------------
(* The invariant.                                                          *)

Use == [count : Nat, time : Nat, max : Nat]
Row == [key : Key, count : Nat, time : Nat, max : Nat]

Caches == UNION {[keys -> Use] : keys \in SUBSET Key}

Savers == [pc : {"sleep", "find", "increase", "create"}, left : SUBSET Key,
           key : Key \cup {CHOOSE k \in Key : TRUE}]

SaverOK(n) ==
    LET s == saver[n]
    IN  /\ s \in Savers
        /\ s.left \subseteq DOMAIN cache[n]
        /\ s.pc # "sleep" => s.left # {}
        /\ s.pc \in {"increase", "create"} => s.key \in s.left
        /\ s.pc = "increase" => RowsOf(s.key) # {}

NodesInv ==
    /\ cache = [n \in Node |-> cache[n]]
    /\ saver = [n \in Node |-> saver[n]]
    /\ \A n \in Node : cache[n] \in Caches /\ SaverOK(n)

\* The rows have the first ids.
TableInv == \E size \in Nat : table \in [1 .. size -> Row]

HistoryInv ==
    /\ logged \in [Key -> Use]
    /\ lost \in [Key -> Use]
    /\ failures \in Nat

QuotaInv == NodesInv /\ TableInv /\ HistoryInv

-----------------------------------------------------------------------------
LEMMA NothingIsUse == Nothing \in Use
BY DEF Nothing, Use

LEMMA AddedUse ==
    ASSUME NEW e \in Use, NEW f \in Use
    PROVE  /\ Added(e, f) \in Use
           /\ Added(e, f).count = e.count + f.count
           /\ Added(e, f).time = e.time + f.time
           /\ Added(e, f).max = IF e.max < f.max THEN f.max ELSE e.max
<1> DEFINE c == e.count + f.count
           t == e.time + f.time
           m == Max({e.max, f.max})
<1>1. c \in Nat /\ t \in Nat /\ m \in Nat /\ m = IF e.max < f.max THEN f.max ELSE e.max
  BY GreaterOfTwo DEF Use
<1>2. Added(e, f) = [e EXCEPT !.count = c, !.time = t, !.max = m]
  BY Zenon DEF Added
<1> HIDE DEF c, t, m
<1>3. /\ Added(e, f) \in Use
      /\ Added(e, f).count = c /\ Added(e, f).time = t /\ Added(e, f).max = m
  BY <1>1, <1>2 DEF Use
<1> QED BY <1>1, <1>3 DEF c, t, m

LEMMA AddedRow ==
    ASSUME NEW e \in Row, NEW f \in Use
    PROVE  /\ Added(e, f) \in Row /\ Added(e, f).key = e.key
           /\ Added(e, f).count = e.count + f.count
           /\ Added(e, f).time = e.time + f.time
           /\ Added(e, f).max = IF e.max < f.max THEN f.max ELSE e.max
<1> DEFINE c == e.count + f.count
           t == e.time + f.time
           m == Max({e.max, f.max})
<1>1. c \in Nat /\ t \in Nat /\ m \in Nat /\ m = IF e.max < f.max THEN f.max ELSE e.max
  BY GreaterOfTwo DEF Use, Row
<1>2. Added(e, f) = [e EXCEPT !.count = c, !.time = t, !.max = m]
  BY Zenon DEF Added
<1> HIDE DEF c, t, m
<1>3. /\ Added(e, f) \in Row /\ Added(e, f).key = e.key
      /\ Added(e, f).count = c /\ Added(e, f).time = t /\ Added(e, f).max = m
  BY <1>1, <1>2 DEF Row
<1> QED BY <1>1, <1>3 DEF c, t, m

LEMMA OneIsUse ==
    ASSUME NEW time \in UseTime
    PROVE  /\ [count |-> 1, time |-> time, max |-> time] \in Use /\ time \in Nat
BY QuotaAssumption DEF QuotaAssumption, Use

LEMMA EntryIsUse ==
    ASSUME NEW n \in Node, cache[n] \in Caches, NEW k
    PROVE  Entry(n, k) \in Use
BY NothingIsUse DEF Entry, Caches

LEMMA CacheGrows ==
    ASSUME NEW f \in Caches, NEW k \in Key, NEW use \in Use
    PROVE  /\ Set(f, k, use) \in Caches /\ DOMAIN Set(f, k, use) = DOMAIN f \cup {k}
           /\ Set(f, k, use)[k] = use /\ \A j \in DOMAIN f : j # k => Set(f, k, use)[j] = f[j]
<1>1. PICK keys \in SUBSET Key : f \in [keys -> Use]
  BY DEF Caches
<1>2. /\ Set(f, k, use) \in [keys \cup {k} -> Use] /\ keys \cup {k} \in SUBSET Key
      /\ DOMAIN Set(f, k, use) = DOMAIN f \cup {k}
  BY <1>1 DEF Set
<1>3. Set(f, k, use)[k] = use /\ \A j \in DOMAIN f : j # k => Set(f, k, use)[j] = f[j]
  BY DEF Set
<1> QED BY <1>2, <1>3 DEF Caches

LEMMA EmptyIsCache == Empty \in Caches /\ DOMAIN Empty = {}
BY DEF Empty, Caches

\* What a write stores: the rows that there were, each with its key and, an updated one, with
\* more use, and perhaps a new one.
LEMMA StoredTable ==
    ASSUME NodesInv, TableInv, NEW n \in Node, saver[n].pc \in {"increase", "create"},
           NEW k, k = saver[n].key, NEW entry, entry = cache[n][k]
    PROVE  /\ k \in Key /\ entry \in Use
           /\ saver[n].pc = "create" =>
                \E new : /\ new \notin DOMAIN table
                         /\ Stored(n, k) = Set(table, new, NewRow(k, entry))
                         /\ NewRow(k, entry) \in Row
           /\ \E size \in Nat : Stored(n, k) \in [1 .. size -> Row]
           /\ \A id \in DOMAIN table : id \in DOMAIN Stored(n, k)
                                       /\ Stored(n, k)[id].key = table[id].key
<1>1. k \in Key /\ entry \in Use
  BY DEF NodesInv, SaverOK, Caches
<1>2. PICK size \in Nat : table \in [1 .. size -> Row]
  BY DEF TableInv
<1>3. NewRow(k, entry) \in Row /\ NewRow(k, entry).key = k
  BY <1>1 DEF NewRow, Row, Use
<1>4. CASE saver[n].pc = "increase"
  <2>1. Stored(n, k) = Increased(k, entry)
    BY <1>4 DEF Stored
  <2>2. \A id \in DOMAIN table : Added(table[id], entry) \in Row
                                 /\ Added(table[id], entry).key = table[id].key
    BY <1>1, <1>2, AddedRow
  <2>3. /\ Increased(k, entry) \in [1 .. size -> Row]
        /\ \A id \in DOMAIN table : Increased(k, entry)[id].key = table[id].key
    BY SMTT(60), <1>2, <2>2 DEF Increased
  <2> QED BY <1>1, <1>2, <1>4, <2>1, <2>3
<1>5. CASE saver[n].pc = "create"
  <2>1. PICK new : new = Cardinality(DOMAIN table) + 1
    OBVIOUS
  <2>2. Stored(n, k) = Set(table, new, NewRow(k, entry))
    BY <1>5, <2>1 DEF Stored, Created
  <2>3. new = size + 1
    <3>1. DOMAIN table = 1 .. size
      BY <1>2
    <3>2. Cardinality(1 .. size) = size
      <4>1. Cardinality(1 .. size) = IF 1 > size THEN 0 ELSE size - 1 + 1
        BY FS_Interval
      <4> QED BY <4>1
    <3> QED BY <2>1, <3>1, <3>2
  <2>4. /\ Set(table, new, NewRow(k, entry)) \in [1 .. size + 1 -> Row]
        /\ \A id \in DOMAIN table : Set(table, new, NewRow(k, entry))[id] = table[id]
    <3>1. (1 .. size) \cup {size + 1} = 1 .. size + 1 /\ size + 1 \notin 1 .. size
      OBVIOUS
    <3> QED BY <1>2, <1>3, <2>3, <3>1 DEF Set
  <2>5. new \notin DOMAIN table
    BY <1>2, <2>3
  <2> QED BY <1>1, <1>2, <1>3, <1>5, <2>2, <2>4, <2>5
<1> QED BY <1>4, <1>5

-----------------------------------------------------------------------------
(* Type correctness.                                                       *)

\* The nodes that a step leaves alone stay as they were, where no row goes.
LEMMA OtherNodes ==
    ASSUME NodesInv, NEW n \in Node, NEW mine, NEW s,
           cache' = [cache EXCEPT ![n] = mine] \/ UNCHANGED cache,
           saver' = [saver EXCEPT ![n] = s] \/ UNCHANGED saver,
           \A k \in Key : RowsOf(k) # {} => RowsOf(k)' # {},
           cache'[n] \in Caches, SaverOK(n)'
    PROVE  NodesInv'
<1>1. /\ cache' = [m \in Node |-> cache'[m]] /\ saver' = [m \in Node |-> saver'[m]]
      /\ \A m \in Node : m # n => cache'[m] = cache[m] /\ saver'[m] = saver[m]
  BY DEF NodesInv
<1>2. ASSUME NEW m \in Node, m # n PROVE cache'[m] \in Caches /\ SaverOK(m)'
  <2>1. cache'[m] = cache[m] /\ saver'[m] = saver[m] /\ cache[m] \in Caches /\ SaverOK(m)
    BY <1>1, <1>2 DEF NodesInv
  <2>2. saver[m].pc = "increase" => saver[m].key \in Key
    BY <2>1 DEF SaverOK, Savers, Caches
  <2> QED BY <2>1, <2>2 DEF SaverOK, Savers
<1> QED BY <1>1, <1>2 DEF NodesInv

LEMMA LogInv ==
    ASSUME QuotaInv, NEW n \in Node, NEW k \in Key, NEW time \in UseTime,
           LogQuotaData(n, k, time)
    PROVE  QuotaInv'
<1> DEFINE one == [count |-> 1, time |-> time, max |-> time]
<1>1. PICK use : use = Added(Entry(n, k), one)
  OBVIOUS
<1>2. use \in Use /\ one \in Use
  <2>1. Entry(n, k) \in Use /\ one \in Use
    BY EntryIsUse, OneIsUse DEF QuotaInv, NodesInv
  <2> HIDE DEF one
  <2> QED BY <1>1, <2>1, AddedUse
<1>3. /\ cache' = [cache EXCEPT ![n] = Set(cache[n], k, use)]
      /\ logged' = [logged EXCEPT ![k] = Added(logged[k], one)]
      /\ saver[n].pc = "sleep" /\ UNCHANGED <<saver, table, lost, failures>>
  BY <1>1 DEF LogQuotaData
<1> HIDE DEF one
<1>4. HistoryInv'
  <2>1. Added(logged[k], one) \in Use
    BY <1>2, AddedUse DEF QuotaInv, HistoryInv
  <2> QED BY <1>3, <2>1 DEF QuotaInv, HistoryInv
<1>5. TableInv'
  BY <1>3 DEF QuotaInv, TableInv
<1>6. cache'[n] = Set(cache[n], k, use) /\ cache[n] \in Caches
  BY <1>3 DEF QuotaInv, NodesInv
<1>7. cache'[n] \in Caches /\ DOMAIN cache[n] \subseteq DOMAIN cache'[n]
  <2>1. PICK f \in Caches : f = cache[n]
    BY <1>6
  <2>2. Set(f, k, use) \in Caches /\ DOMAIN Set(f, k, use) = DOMAIN f \cup {k}
    BY <1>2, CacheGrows
  <2> QED BY <1>6, <2>1, <2>2
<1>8. SaverOK(n)'
  BY <1>3, <1>7 DEF QuotaInv, NodesInv, SaverOK, Savers
<1>9. \A j \in Key : RowsOf(j) # {} => RowsOf(j)' # {}
  BY <1>3 DEF RowsOf
<1>10. NodesInv'
  BY <1>3, <1>7, <1>8, <1>9, OtherNodes DEF QuotaInv
<1> QED BY <1>4, <1>5, <1>10 DEF QuotaInv

LEMMA StartInv ==
    ASSUME QuotaInv, NEW n \in Node, StartSave(n)
    PROVE  QuotaInv'
<1>1. PICK s : s = [saver[n] EXCEPT !.pc = "find", !.left = DOMAIN cache[n]]
  OBVIOUS
<1>2. saver' = [saver EXCEPT ![n] = s] /\ UNCHANGED <<cache, table, logged, lost, failures>>
  BY <1>1 DEF StartSave, QuotaInv, NodesInv
<1>3. SaverOK(n) /\ cache[n] \in Caches /\ cache[n] # Empty
  BY DEF StartSave, QuotaInv, NodesInv
<1>4. DOMAIN cache[n] # {}
  BY <1>3 DEF Caches, Empty
<1>5. saver'[n] = s /\ s \in Savers /\ s.pc = "find" /\ s.left = DOMAIN cache[n]
  <2>1. saver[n] \in Savers /\ DOMAIN cache[n] \in SUBSET Key
    BY <1>3 DEF SaverOK, Caches
  <2> QED BY <1>1, <1>2, <2>1 DEF QuotaInv, NodesInv, Savers
<1>6. SaverOK(n)'
  BY <1>2, <1>3, <1>4, <1>5 DEF SaverOK
<1>7. \A j \in Key : RowsOf(j) # {} => RowsOf(j)' # {}
  BY <1>2 DEF RowsOf
<1>8. NodesInv'
  BY <1>2, <1>3, <1>6, <1>7, OtherNodes DEF QuotaInv
<1> QED BY <1>2, <1>8 DEF QuotaInv, TableInv, HistoryInv

\* Find goes on with a key that is left.
LEMMA FindChoice ==
    ASSUME QuotaInv, NEW n \in Node, Find(n)
    PROVE  \E k \in Key, s \in Savers :
            /\ k \in saver[n].left /\ saver' = [saver EXCEPT ![n] = s]
            /\ s.pc \in {"increase", "create"} /\ s.left = saver[n].left /\ s.key = k
            /\ \/ failures' = failures /\ (s.pc = "increase" <=> RowsOf(k) # {})
               \/ failures' = failures + 1 /\ s.pc = "create"
<1>1. saver[n] \in Savers /\ saver[n].left \subseteq Key
  BY DEF QuotaInv, NodesInv, SaverOK, Savers
<1>2. PICK k \in saver[n].left :
        \/ /\ saver' = [saver EXCEPT
                ![n].pc = IF RowsOf(k) # {} THEN "increase" ELSE "create", ![n].key = k]
           /\ UNCHANGED failures
        \/ /\ failures' = failures + 1
           /\ saver' = [saver EXCEPT ![n].pc = "create", ![n].key = k]
  BY DEF Find
<1>3. PICK pc \in {"increase", "create"} :
        /\ saver' = [saver EXCEPT ![n].pc = pc, ![n].key = k]
        /\ \/ failures' = failures /\ (pc = "increase" <=> RowsOf(k) # {})
           \/ failures' = failures + 1 /\ pc = "create"
  BY <1>2
<1>4. PICK s : s = [saver[n] EXCEPT !.pc = pc, !.key = k]
  OBVIOUS
<1>5. saver' = [saver EXCEPT ![n] = s]
  BY <1>3, <1>4 DEF QuotaInv, NodesInv
<1>6. s \in Savers /\ s.pc = pc /\ s.left = saver[n].left /\ s.key = k
  BY <1>1, <1>4 DEF Savers
<1> QED BY <1>1, <1>3, <1>5, <1>6

LEMMA FindInv ==
    ASSUME QuotaInv, NEW n \in Node, Find(n)
    PROVE  QuotaInv'
<1>1. PICK k \in Key, s \in Savers :
            /\ k \in saver[n].left /\ saver' = [saver EXCEPT ![n] = s]
            /\ s.pc \in {"increase", "create"} /\ s.left = saver[n].left /\ s.key = k
            /\ \/ failures' = failures /\ (s.pc = "increase" <=> RowsOf(k) # {})
               \/ failures' = failures + 1 /\ s.pc = "create"
  BY FindChoice
<1>2. UNCHANGED <<cache, table, logged, lost>>
  BY DEF Find
<1>3. SaverOK(n) /\ cache[n] \in Caches
  BY DEF QuotaInv, NodesInv
<1>4. saver'[n] = s
  BY <1>1 DEF QuotaInv, NodesInv
<1>5. \A j \in Key : RowsOf(j)' = RowsOf(j)
  BY <1>2 DEF RowsOf
<1>6. SaverOK(n)'
  BY <1>1, <1>2, <1>3, <1>4, <1>5 DEF SaverOK
<1>7. NodesInv'
  BY <1>1, <1>2, <1>3, <1>5, <1>6, OtherNodes DEF QuotaInv
<1>8. failures' \in Nat
  BY <1>1 DEF QuotaInv, HistoryInv
<1> QED BY <1>2, <1>7, <1>8 DEF QuotaInv, TableInv, HistoryInv

\* A write puts the use of one key into the table or loses it, and goes on with the others.
LEMMA WriteChoice ==
    ASSUME QuotaInv, NEW n \in Node, Write(n)
    PROVE  \E k \in Key, entry \in Use, s \in Savers :
            /\ k = saver[n].key /\ k \in saver[n].left
            /\ k \in DOMAIN cache[n] /\ entry = cache[n][k]
            /\ saver[n].pc \in {"increase", "create"}
            /\ saver' = [saver EXCEPT ![n] = s]
            /\ s.left = saver[n].left \ {k}
            /\ s.pc = IF s.left = {} THEN "sleep" ELSE "find"
            /\ cache' = [cache EXCEPT ![n] = IF s.left = {} THEN Empty ELSE cache[n]]
            /\ UNCHANGED logged
            /\ \/ table' = Stored(n, k) /\ UNCHANGED <<lost, failures>>
               \/ /\ failures' = failures + 1 /\ UNCHANGED table
                  /\ lost' = [lost EXCEPT ![k] = Added(lost[k], entry)]
<1>1. PICK k, left, entry : /\ k = saver[n].key /\ left = saver[n].left \ {k}
                            /\ entry = cache[n][k]
  OBVIOUS
<1>2. SaverOK(n) /\ cache[n] \in Caches
  BY DEF QuotaInv, NodesInv
<1>3. saver[n].pc \in {"increase", "create"}
  BY DEF Write
<1>4. /\ k \in saver[n].left /\ saver[n].left \subseteq DOMAIN cache[n]
      /\ k \in Key /\ entry \in Use /\ left \in SUBSET Key
  BY <1>1, <1>2, <1>3 DEF SaverOK, Caches
<1>5. PICK pc \in {"sleep", "find"} : pc = IF left = {} THEN "sleep" ELSE "find"
  OBVIOUS
<1>6. PICK s : s = [saver[n] EXCEPT !.left = left, !.pc = pc]
  OBVIOUS
<1>7. saver' = [saver EXCEPT ![n] = s]
  BY <1>1, <1>5, <1>6 DEF Write
<1>8. s \in Savers /\ s.left = left /\ s.pc = pc
  BY <1>2, <1>4, <1>6 DEF SaverOK, Savers
<1>9. cache' = [cache EXCEPT ![n] = IF left = {} THEN Empty ELSE cache[n]]
  <2>1. cache' = IF left = {} THEN [cache EXCEPT ![n] = Empty] ELSE cache
    BY <1>1 DEF Write
  <2>2. cache = [cache EXCEPT ![n] = cache[n]]
    BY DEF QuotaInv, NodesInv
  <2> QED BY <2>1, <2>2
<1>10. /\ UNCHANGED logged
       /\ \/ table' = Stored(n, k) /\ UNCHANGED <<lost, failures>>
          \/ /\ failures' = failures + 1 /\ UNCHANGED table
             /\ lost' = [lost EXCEPT ![k] = Added(lost[k], entry)]
  BY <1>1 DEF Write
<1> QED BY ZenonT(60), <1>1, <1>3, <1>4, <1>5, <1>7, <1>8, <1>9, <1>10

LEMMA WriteInv ==
    ASSUME QuotaInv, NEW n \in Node, Write(n)
    PROVE  QuotaInv'
<1>1. PICK k \in Key, entry \in Use, s \in Savers :
            /\ k = saver[n].key /\ k \in saver[n].left
            /\ k \in DOMAIN cache[n] /\ entry = cache[n][k]
            /\ saver[n].pc \in {"increase", "create"}
            /\ saver' = [saver EXCEPT ![n] = s]
            /\ s.left = saver[n].left \ {k}
            /\ s.pc = IF s.left = {} THEN "sleep" ELSE "find"
            /\ cache' = [cache EXCEPT ![n] = IF s.left = {} THEN Empty ELSE cache[n]]
            /\ UNCHANGED logged
            /\ \/ table' = Stored(n, k) /\ UNCHANGED <<lost, failures>>
               \/ /\ failures' = failures + 1 /\ UNCHANGED table
                  /\ lost' = [lost EXCEPT ![k] = Added(lost[k], entry)]
  BY WriteChoice
<1>2. SaverOK(n) /\ cache[n] \in Caches
  BY DEF QuotaInv, NodesInv
<1>3. /\ TableInv' /\ \A id \in DOMAIN table : id \in DOMAIN table'
                                               /\ table'[id].key = table[id].key
  <2>1. CASE UNCHANGED table
    BY <2>1 DEF QuotaInv, TableInv
  <2>2. CASE table' = Stored(n, k)
    BY <1>1, <2>2, StoredTable DEF QuotaInv, TableInv
  <2> QED BY <1>1, <2>1, <2>2
<1>4. HistoryInv'
  <2>1. Added(lost[k], entry) \in Use
    BY <1>1, AddedUse DEF QuotaInv, HistoryInv
  <2> QED BY <1>1, <2>1 DEF QuotaInv, HistoryInv
<1>5. \A j \in Key : RowsOf(j) # {} => RowsOf(j)' # {}
  BY <1>3 DEF RowsOf
<1>6. saver'[n] = s /\ cache'[n] = IF s.left = {} THEN Empty ELSE cache[n]
  BY <1>1 DEF QuotaInv, NodesInv
<1>7. cache'[n] \in Caches
  BY <1>2, <1>6, EmptyIsCache
<1>8. SaverOK(n)'
  BY <1>1, <1>2, <1>6, EmptyIsCache DEF SaverOK
<1>9. NodesInv'
  BY <1>1, <1>5, <1>7, <1>8, OtherNodes DEF QuotaInv
<1> QED BY <1>3, <1>4, <1>9 DEF QuotaInv

LEMMA UnsavedUse ==
    ASSUME NodesInv, NEW n \in Node, NEW k, Unsaved(n, k)
    PROVE  k \in Key /\ cache[n][k] \in Use
BY DEF NodesInv, Unsaved, Caches

LEMMA CrashInv ==
    ASSUME QuotaInv, NEW n \in Node, Crash(n)
    PROVE  QuotaInv'
<1>1. PICK s : s = [saver[n] EXCEPT !.pc = "sleep", !.left = {}]
  OBVIOUS
<1>2. /\ saver' = [saver EXCEPT ![n] = s] /\ cache' = [cache EXCEPT ![n] = Empty]
      /\ UNCHANGED <<table, logged, failures>>
  BY <1>1 DEF Crash, QuotaInv, NodesInv
<1>3. SaverOK(n)
  BY DEF QuotaInv, NodesInv
<1>4. saver'[n] = s /\ cache'[n] = Empty
  BY <1>2 DEF QuotaInv, NodesInv
<1>5. SaverOK(n)'
  BY <1>1, <1>3, <1>4 DEF SaverOK, Savers
<1>6. \A j \in Key : RowsOf(j) # {} => RowsOf(j)' # {}
  BY <1>2 DEF RowsOf
<1>7. NodesInv'
  BY <1>2, <1>4, <1>5, <1>6, EmptyIsCache, OtherNodes DEF QuotaInv
<1>8. lost' \in [Key -> Use]
  <2>1. lost' = [k \in Key |-> IF Unsaved(n, k) THEN Added(lost[k], cache[n][k]) ELSE lost[k]]
    BY DEF Crash
  <2>2. ASSUME NEW k \in Key, Unsaved(n, k) PROVE Added(lost[k], cache[n][k]) \in Use
    BY <2>2, UnsavedUse, AddedUse DEF QuotaInv, HistoryInv
  <2> QED BY <2>1, <2>2 DEF QuotaInv, HistoryInv
<1> QED BY <1>2, <1>7, <1>8 DEF QuotaInv, TableInv, HistoryInv

LEMMA QuotaStep ==
    ASSUME QuotaInv, [Next]_vars
    PROVE  QuotaInv'
<1>1. CASE UNCHANGED vars
  BY <1>1 DEF vars, QuotaInv, NodesInv, TableInv, HistoryInv, SaverOK, RowsOf
<1>2. CASE Next
  BY <1>2, LogInv, StartInv, FindInv, WriteInv, CrashInv DEF Next
<1> QED BY <1>1, <1>2

LEMMA QuotaInit == ASSUME Init PROVE QuotaInv
<1>1. NodesInv
  BY EmptyIsCache DEF Init, NodesInv, SaverOK, Savers
<1>2. TableInv
  <2>1. 1 .. 0 = {} /\ 0 \in Nat
    OBVIOUS
  <2>2. table \in [1 .. 0 -> Row]
    BY <2>1 DEF Init
  <2> QED BY <2>1, <2>2 DEF TableInv
<1>3. HistoryInv
  BY NothingIsUse DEF Init, HistoryInv
<1> QED BY <1>1, <1>2, <1>3 DEF QuotaInv

LEMMA QuotaInvariant == Spec => []QuotaInv
<1>1. QuotaInv /\ [Next]_vars => QuotaInv'
  BY QuotaStep
<1>2. Init => QuotaInv
  BY QuotaInit
<1> QED BY <1>1, <1>2, PTL DEF Spec

\* A node that saves always has a key left and looks for, updates or creates the row of one
\* that is in its cache, whatever the other nodes do, fail or crash (SaveQuotaDataCache).
THEOREM UsesTypeCorrect == Spec => []TypeOK
<1>1. QuotaInv => TypeOK
  <2> SUFFICES ASSUME QuotaInv PROVE TypeOK
    OBVIOUS
  <2>1. ASSUME NEW id \in DOMAIN table PROVE table[id].key \in Key
    BY DEF QuotaInv, TableInv, Row
  <2>2. ASSUME NEW n \in Node
        PROVE  /\ DOMAIN cache[n] \subseteq Key
               /\ saver[n].left \subseteq DOMAIN cache[n]
               /\ saver[n].pc # "sleep" => saver[n].left # {}
               /\ saver[n].pc \in {"increase", "create"} => saver[n].key \in saver[n].left
    BY DEF QuotaInv, NodesInv, SaverOK, Savers, Caches
  <2> QED BY <2>1, <2>2 DEF TypeOK
<1> QED BY <1>1, QuotaInvariant, PTL

-----------------------------------------------------------------------------
(* The number of rows.                                                     *)

\* The nodes about to create a row of a key.
Creators(k) == {n \in Node : saver[n].pc = "create" /\ saver[n].key = k}

RowsOK(k) ==
    RowsOf(k) # {} =>
        Cardinality(RowsOf(k)) + Cardinality(Creators(k)) <= Cardinality(Node) + failures

RowsInv == \A k \in Key : RowsOK(k)

LEMMA TableIsFinite ==
    ASSUME TableInv, NEW k
    PROVE  IsFiniteSet(DOMAIN table) /\ IsFiniteSet(RowsOf(k)) /\ RowsOf(k) \subseteq DOMAIN table
<1>1. IsFiniteSet(DOMAIN table)
  BY FS_Interval DEF TableInv
<1> QED BY <1>1, FS_Subset DEF RowsOf

LEMMA SizesAreNaturals ==
    ASSUME QuotaAssumption, QuotaInv, NEW k
    PROVE  /\ IsFiniteSet(Node) /\ IsFiniteSet(Creators(k)) /\ IsFiniteSet(RowsOf(k))
           /\ Cardinality(Node) \in Nat /\ Cardinality(Creators(k)) \in Nat
           /\ Cardinality(RowsOf(k)) \in Nat /\ failures \in Nat
<1>1. IsFiniteSet(Node) /\ Creators(k) \subseteq Node /\ failures \in Nat
  BY DEF QuotaAssumption, Creators, QuotaInv, HistoryInv
<1>2. IsFiniteSet(RowsOf(k))
  BY TableIsFinite DEF QuotaInv
<1> QED BY <1>1, <1>2, FS_Subset, FS_CardinalityType

\* A step that takes no node to the creation of a row and adds none keeps the bound.
LEMMA FewerCreators ==
    ASSUME QuotaAssumption, QuotaInv, QuotaInv', NEW k, RowsOK(k), RowsOf(k)' = RowsOf(k),
           Creators(k)' \subseteq Creators(k), failures' = failures \/ failures' = failures + 1
    PROVE  RowsOK(k)'
<1>1. Cardinality(Creators(k)') <= Cardinality(Creators(k))
  BY SizesAreNaturals, FS_Subset
<1>2. Cardinality(Creators(k)') \in Nat
  BY SizesAreNaturals, FS_Subset, FS_CardinalityType
<1> QED BY <1>1, <1>2, SizesAreNaturals DEF RowsOK

LEMMA FindRows ==
    ASSUME QuotaAssumption, QuotaInv, QuotaInv', NEW n \in Node, Find(n), NEW j \in Key, RowsOK(j)
    PROVE  RowsOK(j)'
<1>1. PICK k \in Key, s \in Savers :
            /\ k \in saver[n].left /\ saver' = [saver EXCEPT ![n] = s]
            /\ s.pc \in {"increase", "create"} /\ s.left = saver[n].left /\ s.key = k
            /\ \/ failures' = failures /\ (s.pc = "increase" <=> RowsOf(k) # {})
               \/ failures' = failures + 1 /\ s.pc = "create"
  BY FindChoice
<1>2. UNCHANGED table /\ saver[n].pc = "find"
  BY DEF Find
<1>3. RowsOf(j)' = RowsOf(j)
  BY <1>2 DEF RowsOf
<1>4. /\ saver'[n] = s
      /\ \A m \in Node : m # n => saver'[m] = saver[m]
  BY <1>1 DEF QuotaInv, NodesInv
<1>5. CASE j # k \/ s.pc = "increase"
  <2>1. Creators(j)' \subseteq Creators(j)
    BY <1>1, <1>4, <1>5 DEF Creators
  <2> QED BY <1>1, <1>3, <2>1, FewerCreators
<1>6. CASE j = k /\ s.pc = "create" /\ failures' = failures
  BY <1>1, <1>3, <1>6, SizesAreNaturals DEF RowsOK
<1>7. CASE j = k /\ s.pc = "create" /\ failures' = failures + 1
  <2>1. Creators(j)' = Creators(j) \cup {n} /\ n \notin Creators(j)
    BY <1>1, <1>2, <1>4, <1>7 DEF Creators
  <2>2. Cardinality(Creators(j)') = Cardinality(Creators(j)) + 1
    BY <2>1, SizesAreNaturals, FS_AddElement
  <2> QED BY <1>3, <1>7, <2>2, SizesAreNaturals DEF RowsOK
<1> QED BY <1>1, <1>5, <1>6, <1>7

LEMMA WriteRows ==
    ASSUME QuotaAssumption, QuotaInv, QuotaInv', NEW n \in Node, Write(n), NEW j \in Key, RowsOK(j)
    PROVE  RowsOK(j)'
<1>1. PICK k \in Key, entry \in Use, s \in Savers :
            /\ k = saver[n].key /\ k \in saver[n].left
            /\ k \in DOMAIN cache[n] /\ entry = cache[n][k]
            /\ saver[n].pc \in {"increase", "create"}
            /\ saver' = [saver EXCEPT ![n] = s]
            /\ s.left = saver[n].left \ {k}
            /\ s.pc = IF s.left = {} THEN "sleep" ELSE "find"
            /\ cache' = [cache EXCEPT ![n] = IF s.left = {} THEN Empty ELSE cache[n]]
            /\ UNCHANGED logged
            /\ \/ table' = Stored(n, k) /\ UNCHANGED <<lost, failures>>
               \/ /\ failures' = failures + 1 /\ UNCHANGED table
                  /\ lost' = [lost EXCEPT ![k] = Added(lost[k], entry)]
  BY WriteChoice
<1>2. /\ saver'[n] = s /\ s.pc # "create"
      /\ \A m \in Node : m # n => saver'[m] = saver[m]
  BY <1>1 DEF QuotaInv, NodesInv
<1>3. Creators(j)' = Creators(j) \ {n}
  BY <1>2 DEF Creators
<1>4. CASE UNCHANGED table
  <2>1. RowsOf(j)' = RowsOf(j)
    BY <1>4 DEF RowsOf
  <2> QED BY <1>1, <1>3, <2>1, FewerCreators
<1>5. CASE table' = Stored(n, k) /\ failures' = failures /\ saver[n].pc = "increase"
  <2>1. table' = Increased(k, entry)
    BY <1>1, <1>5 DEF Stored
  <2>2. DOMAIN table' = DOMAIN table /\ \A id \in DOMAIN table : table'[id].key = table[id].key
    <3>1. \A id \in DOMAIN table : table'[id].key = table[id].key
      BY <1>1, <1>5, StoredTable DEF QuotaInv
    <3> QED BY <2>1, <3>1 DEF Increased
  <2>3. RowsOf(j)' = RowsOf(j)
    BY <2>2 DEF RowsOf
  <2> QED BY <1>3, <1>5, <2>3, FewerCreators
<1>6. CASE table' = Stored(n, k) /\ failures' = failures /\ saver[n].pc = "create"
  <2>1. PICK new : /\ new \notin DOMAIN table
                   /\ Stored(n, k) = Set(table, new, NewRow(k, entry))
    BY <1>1, <1>6, StoredTable DEF QuotaInv
  <2>2. /\ DOMAIN table' = DOMAIN table \cup {new} /\ table'[new].key = k
        /\ \A id \in DOMAIN table : table'[id] = table[id]
    BY <1>6, <2>1 DEF Set, NewRow
  <2>3. CASE j # k
    <3>1. RowsOf(j)' = RowsOf(j)
      BY <2>2, <2>3 DEF RowsOf
    <3> QED BY <1>3, <1>6, <3>1, FewerCreators
  <2>4. CASE j = k
    <3>1. RowsOf(j)' = RowsOf(j) \cup {new} /\ new \notin RowsOf(j)
      BY <2>1, <2>2, <2>4 DEF RowsOf
    <3>2. Cardinality(RowsOf(j)') = Cardinality(RowsOf(j)) + 1
      BY <3>1, SizesAreNaturals, FS_AddElement
    <3>3. n \in Creators(j)
      BY <1>1, <1>6, <2>4 DEF Creators
    <3>4. Cardinality(Creators(j)') = Cardinality(Creators(j)) - 1
      BY ZenonT(60), <1>3, <3>3, SizesAreNaturals, FS_RemoveElement
    <3>5. CASE RowsOf(j) # {}
      BY <1>6, <3>2, <3>4, <3>5, SizesAreNaturals DEF RowsOK
    <3>6. CASE RowsOf(j) = {}
      <4>1. Cardinality(RowsOf(j)) = 0
        BY <3>6, FS_EmptySet
      <4>2. Creators(j) \subseteq Node
        BY DEF Creators
      <4>3. Cardinality(Creators(j)) <= Cardinality(Node)
        BY <4>2, SizesAreNaturals, FS_Subset
      <4> QED BY <1>6, <3>2, <3>4, <4>1, <4>3, SizesAreNaturals DEF RowsOK
    <3> QED BY <3>5, <3>6
  <2> QED BY <2>3, <2>4
<1> QED BY <1>1, <1>4, <1>5, <1>6

LEMMA RowsStep ==
    ASSUME QuotaAssumption, QuotaInv, QuotaInv', RowsInv, [Next]_vars
    PROVE  RowsInv'
<1> SUFFICES ASSUME NEW j \in Key PROVE RowsOK(j)'
  BY DEF RowsInv
<1>1. RowsOK(j)
  BY DEF RowsInv
<1>2. ASSUME NEW n \in Node, Find(n) PROVE RowsOK(j)'
  BY <1>1, <1>2, FindRows
<1>3. ASSUME NEW n \in Node, Write(n) PROVE RowsOK(j)'
  BY <1>1, <1>3, WriteRows
<1>4. ASSUME UNCHANGED <<table, failures>>, Creators(j)' \subseteq Creators(j)
      PROVE  RowsOK(j)'
  <2>1. RowsOf(j)' = RowsOf(j)
    BY <1>4 DEF RowsOf
  <2> QED BY <1>1, <1>4, <2>1, FewerCreators
<1>5. ASSUME NEW n \in Node, NEW k \in Key, NEW time \in UseTime, LogQuotaData(n, k, time)
      PROVE  RowsOK(j)'
  <2>1. UNCHANGED <<saver, table, failures>>
    BY <1>5 DEF LogQuotaData
  <2>2. Creators(j)' = Creators(j)
    BY <2>1 DEF Creators
  <2> QED BY <1>4, <2>1, <2>2
<1>6. ASSUME NEW n \in Node, StartSave(n) PROVE RowsOK(j)'
  <2>1. /\ UNCHANGED <<table, failures>> /\ saver'[n].pc = "find"
        /\ \A m \in Node : m # n => saver'[m] = saver[m]
    BY <1>6 DEF StartSave, QuotaInv, NodesInv, SaverOK, Savers
  <2>2. Creators(j)' \subseteq Creators(j)
    BY <2>1 DEF Creators
  <2> QED BY <1>4, <2>1, <2>2
<1>7. ASSUME NEW n \in Node, Crash(n) PROVE RowsOK(j)'
  <2>1. /\ UNCHANGED <<table, failures>> /\ saver'[n].pc = "sleep"
        /\ \A m \in Node : m # n => saver'[m] = saver[m]
    BY <1>7 DEF Crash, QuotaInv, NodesInv, SaverOK, Savers
  <2>2. Creators(j)' \subseteq Creators(j)
    BY <2>1 DEF Creators
  <2> QED BY <1>4, <2>1, <2>2
<1>8. CASE UNCHANGED vars
  <2>1. UNCHANGED <<saver, table, failures>>
    BY <1>8 DEF vars
  <2>2. Creators(j)' = Creators(j)
    BY <2>1 DEF Creators
  <2> QED BY <1>4, <2>1, <2>2
<1> QED BY <1>2, <1>3, <1>5, <1>6, <1>7, <1>8 DEF Next

LEMMA RowsInvariant == Spec => []RowsInv
<1>1. Init => RowsInv
  BY DEF Init, RowsInv, RowsOK, RowsOf
<1>2. QuotaInv /\ QuotaInv' /\ RowsInv /\ [Next]_vars => RowsInv'
  BY RowsStep, QuotaAssumption
<1> QED BY <1>1, <1>2, QuotaInvariant, PTL DEF Spec

\* A key never has more rows than there are nodes and failed queries, for any of them: the look
\* for a row and its creation are two steps, but a second row comes only of two nodes that look
\* at once or of a query that fails (SaveQuotaDataCache).
THEOREM UsageRowsBounded == Spec => []RowsBounded
<1>1. QuotaInv /\ RowsInv => RowsBounded
  <2> SUFFICES ASSUME QuotaInv, RowsInv, NEW k \in Key
               PROVE  Cardinality(RowsOf(k)) <= Cardinality(Node) + failures
    BY DEF RowsBounded
  <2>1. CASE RowsOf(k) = {}
    <3>1. Cardinality(RowsOf(k)) = 0
      BY <2>1, FS_EmptySet
    <3> QED BY <3>1, SizesAreNaturals, QuotaAssumption
  <2>2. CASE RowsOf(k) # {}
    BY <2>2, SizesAreNaturals, QuotaAssumption DEF RowsInv, RowsOK
  <2> QED BY <2>1, <2>2
<1> QED BY <1>1, QuotaInvariant, RowsInvariant, PTL

-----------------------------------------------------------------------------
(* Every use is kept.                                                      *)

Field == {"count", "time"}

\* The uses of a key are all accounted for; with one row, once.
CountsOK(k) ==
    \A field \in Field :
        /\ Accounted(k, field) >= logged[k][field]
        /\ Cardinality(RowsOf(k)) <= 1 => Accounted(k, field) = logged[k][field]

Maxes(k) ==
    {lost[k].max} \cup {table[id].max : id \in RowsOf(k)}
        \cup {cache[n][k].max : n \in {m \in Node : Unsaved(m, k)}}

\* The greatest latency of a key is the greatest of those kept.
MaxOK(k) == logged[k].max \in Maxes(k) /\ \A a \in Maxes(k) : a <= logged[k].max

KeptInv == \A k \in Key : CountsOK(k) /\ MaxOK(k)

\* A step leaves what a node has in hand of a key.
SameHand(n, k) ==
    /\ Unsaved(n, k)' <=> Unsaved(n, k)
    /\ Unsaved(n, k) => cache'[n][k] = cache[n][k]

\* A step leaves the rows of a key.
SameRows(k) == RowsOf(k)' = RowsOf(k) /\ \A id \in RowsOf(k) : table'[id] = table[id]

LEMMA InHandTypes ==
    ASSUME NodesInv, NEW n \in Node, NEW k, NEW field \in Field
    PROVE  InHand(n, k, field) \in Nat
<1>1. Unsaved(n, k) => cache[n][k] \in Use
  BY UnsavedUse
<1> QED BY <1>1 DEF InHand, Use, Field

LEMMA InHandNext ==
    ASSUME NodesInv', NEW n \in Node, NEW k, NEW field \in Field
    PROVE  InHand(n, k, field)' \in Nat
<1>1. Unsaved(n, k)' => cache'[n][k] \in Use
  BY DEF NodesInv, Unsaved, Caches
<1> QED BY <1>1 DEF InHand, Use, Field

LEMMA RowTypes ==
    ASSUME TableInv, NEW id \in DOMAIN table
    PROVE  /\ table[id] \in Row /\ table[id].max \in Nat
           /\ \A field \in Field : table[id][field] \in Nat
<1>1. table[id] \in Row
  BY DEF TableInv
<1> QED BY <1>1 DEF Row, Field

LEMMA HistoryTypes ==
    ASSUME HistoryInv, NEW k \in Key
    PROVE  /\ logged[k] \in Use /\ lost[k] \in Use /\ logged[k].max \in Nat /\ lost[k].max \in Nat
           /\ \A field \in Field : logged[k][field] \in Nat /\ lost[k][field] \in Nat
<1>1. logged[k] \in Use /\ lost[k] \in Use
  BY DEF HistoryInv
<1> QED BY <1>1 DEF Use, Field

LEMMA AccountTypes ==
    ASSUME QuotaAssumption, QuotaInv, NEW k \in Key, NEW field \in Field
    PROVE  /\ InRows(k, field) \in Nat /\ InMemory(k, field) \in Nat
           /\ lost[k][field] \in Nat /\ logged[k][field] \in Nat
<1>1. InRows(k, field) \in Nat
  <2> DEFINE f == [id \in DOMAIN table |-> table[id][field]]
  <2>1. \A id \in RowsOf(k) : f[id] \in Nat
    BY RowTypes DEF QuotaInv, RowsOf
  <2>2. IsFiniteSet(RowsOf(k))
    BY TableIsFinite DEF QuotaInv
  <2> HIDE DEF f
  <2>3. SumFunctionOnSet(f, RowsOf(k)) \in Nat
    BY <2>1, <2>2, SumOfNaturals
  <2> QED BY <2>3 DEF f, InRows
<1>2. InMemory(k, field) \in Nat
  <2> DEFINE f == [n \in Node |-> InHand(n, k, field)]
  <2>1. \A n \in Node : f[n] \in Nat
    BY InHandTypes DEF QuotaInv
  <2>2. IsFiniteSet(Node)
    BY DEF QuotaAssumption
  <2> HIDE DEF f
  <2>3. SumFunctionOnSet(f, Node) \in Nat
    BY <2>1, <2>2, SumOfNaturals
  <2> QED BY <2>3 DEF f, InMemory
<1> QED BY <1>1, <1>2, HistoryTypes DEF QuotaInv

\* A sum of rows that a step leaves is left.
LEMMA RowsKept ==
    ASSUME QuotaInv, NEW k \in Key, SameRows(k), NEW field \in Field
    PROVE  InRows(k, field)' = InRows(k, field)
<1> DEFINE f == [id \in DOMAIN table |-> table[id][field]]
<1>1. PICK g : g = [id \in DOMAIN table' |-> table'[id][field]]
  OBVIOUS
<1>2. PICK rows : rows = RowsOf(k)
  OBVIOUS
<1>3. rows \subseteq DOMAIN table /\ rows \subseteq DOMAIN table' /\ IsFiniteSet(rows)
  <2>1. rows = RowsOf(k)'
    BY <1>2 DEF SameRows
  <2> QED BY <1>2, <2>1, TableIsFinite DEF QuotaInv, RowsOf
<1>4. \A id \in rows : f[id] = g[id]
  BY <1>1, <1>2, <1>3 DEF SameRows
<1> HIDE DEF f
<1>5. SumFunctionOnSet(f, rows) = SumFunctionOnSet(g, rows)
  BY <1>3, <1>4, SumOfEquals
<1>6. InRows(k, field) = SumFunctionOnSet(f, rows)
  BY <1>2 DEF f, InRows
<1>7. InRows(k, field)' = SumFunctionOnSet(g, rows)
  <2>1. InRows(k, field)' = SumFunctionOnSet(g, RowsOf(k)')
    BY <1>1 DEF InRows
  <2> QED BY <1>2, <2>1 DEF SameRows
<1> QED BY <1>5, <1>6, <1>7

\* The memory changes by what the hand of one node does.
LEMMA MemoryMoves ==
    ASSUME QuotaAssumption, QuotaInv, QuotaInv', NEW n \in Node, NEW k \in Key, NEW field \in Field,
           \A m \in Node : m # n => SameHand(m, k)
    PROVE  InMemory(k, field)'
             = InMemory(k, field) + (InHand(n, k, field)' - InHand(n, k, field))
<1> DEFINE f == [m \in Node |-> InHand(m, k, field)]
<1>1. PICK g : g = [m \in Node |-> InHand(m, k, field)']
  OBVIOUS
<1>2. \A m \in Node : f[m] \in Int
  BY InHandTypes DEF QuotaInv
<1>3. \A m \in Node : g[m] \in Int
  BY <1>1, InHandNext DEF QuotaInv
<1>4. \A m \in Node : m # n => g[m] = f[m]
  BY <1>1 DEF SameHand, InHand
<1>5. IsFiniteSet(Node)
  BY DEF QuotaAssumption
<1>6. f[n] = InHand(n, k, field) /\ g[n] = InHand(n, k, field)'
  BY <1>1
<1> HIDE DEF f
<1>7. SumFunctionOnSet(g, Node) = SumFunctionOnSet(f, Node) + (g[n] - f[n])
  BY <1>2, <1>3, <1>4, <1>5, SumChanges
<1>8. InMemory(k, field) = SumFunctionOnSet(f, Node)
  BY DEF f, InMemory
<1>9. InMemory(k, field)' = SumFunctionOnSet(g, Node)
  BY <1>1 DEF InMemory
<1> QED BY <1>6, <1>7, <1>8, <1>9

\* Where the hand of a node, the lost and the logged uses of a key change and no row does, the
\* account stays as the changes do.
LEMMA HandChanges ==
    ASSUME QuotaAssumption, QuotaInv, QuotaInv', NEW n \in Node, NEW k \in Key, SameRows(k),
           \A m \in Node : m # n => SameHand(m, k),
           \A field \in Field :
             (InHand(n, k, field)' - InHand(n, k, field)) + (lost'[k][field] - lost[k][field])
               = logged'[k][field] - logged[k][field],
           CountsOK(k)
    PROVE  CountsOK(k)'
<1> SUFFICES ASSUME NEW field \in Field
             PROVE  /\ Accounted(k, field)' >= logged'[k][field]
                    /\ Cardinality(RowsOf(k)') <= 1 => Accounted(k, field)' = logged'[k][field]
  BY DEF CountsOK
<1>1. PICK hand \in Int, hand2 \in Int :
        hand = InHand(n, k, field) /\ hand2 = InHand(n, k, field)'
  BY InHandTypes, InHandNext DEF QuotaInv
<1>2. PICK rows \in Int, memory \in Int, l \in Int, a \in Int :
        rows = InRows(k, field) /\ memory = InMemory(k, field) /\ l = lost[k][field]
        /\ a = logged[k][field]
  BY AccountTypes
<1>3. PICK l2 \in Int, a2 \in Int : l2 = lost'[k][field] /\ a2 = logged'[k][field]
  BY DEF QuotaInv, HistoryInv, Use, Field
<1>4. /\ InMemory(k, field)' = memory + (hand2 - hand)
      /\ InRows(k, field)' = rows
  BY <1>1, <1>2, MemoryMoves, RowsKept
<1>5. (hand2 - hand) + (l2 - l) = a2 - a
  BY <1>1, <1>2, <1>3
<1>6. /\ Accounted(k, field) = rows + memory + l
      /\ Accounted(k, field)' = rows + (memory + (hand2 - hand)) + l2
  BY <1>2, <1>3, <1>4 DEF Accounted
<1>7. /\ rows + memory + l >= a
      /\ Cardinality(RowsOf(k)) <= 1 => rows + memory + l = a
  BY <1>2, <1>6 DEF CountsOK
<1>8. /\ rows + (memory + (hand2 - hand)) + l2 >= a2
      /\ Cardinality(RowsOf(k)) <= 1 => rows + (memory + (hand2 - hand)) + l2 = a2
  BY <1>5, <1>7
<1> QED BY <1>3, <1>6, <1>8 DEF SameRows

LEMMA MaxesAreNaturals ==
    ASSUME QuotaInv, NEW k \in Key
    PROVE  Maxes(k) \in SUBSET Nat
<1>1. lost[k].max \in Nat
  BY HistoryTypes DEF QuotaInv
<1>2. \A id \in RowsOf(k) : table[id].max \in Nat
  BY RowTypes DEF QuotaInv, RowsOf
<1>3. \A n \in Node : Unsaved(n, k) => cache[n][k].max \in Nat
  BY UnsavedUse DEF QuotaInv, Use
<1> QED BY <1>1, <1>2, <1>3 DEF Maxes

\* The greatest latency is kept where every latency goes to one that is as great and none
\* comes from nowhere.
LEMMA MaxMoves ==
    ASSUME QuotaInv, QuotaInv', NEW k \in Key, MaxOK(k), logged'[k] = logged[k],
           \A s \in Maxes(k)' : \E a \in Maxes(k) : s = a,
           \A a \in Maxes(k) : \E s \in Maxes(k)' : a <= s
    PROVE  MaxOK(k)'
<1>1. logged[k].max \in Nat
  BY HistoryTypes DEF QuotaInv
<1>2. \A s \in Maxes(k)' : s <= logged[k].max
  BY DEF MaxOK
<1>3. PICK s \in Maxes(k)' : logged[k].max <= s
  BY DEF MaxOK
<1>4. s \in Nat
  BY <1>3, MaxesAreNaturals
<1>5. s = logged[k].max
  BY <1>1, <1>2, <1>3, <1>4
<1> QED BY <1>2, <1>3, <1>5 DEF MaxOK

\* A key that a step leaves keeps its uses.
LEMMA KeyStays ==
    ASSUME QuotaAssumption, QuotaInv, QuotaInv', NEW k \in Key, SameRows(k),
           \A m \in Node : SameHand(m, k), logged'[k] = logged[k], lost'[k] = lost[k],
           CountsOK(k), MaxOK(k)
    PROVE  CountsOK(k)' /\ MaxOK(k)'
<1>1. \A field \in Field : InMemory(k, field)' = InMemory(k, field)
  <2> SUFFICES ASSUME NEW field \in Field PROVE InMemory(k, field)' = InMemory(k, field)
    OBVIOUS
  <2>1. \A m \in Node : InHand(m, k, field)' = InHand(m, k, field)
    BY DEF SameHand, InHand
  <2> QED BY <2>1 DEF InMemory
<1>2. \A field \in Field : Accounted(k, field)' = Accounted(k, field)
  BY <1>1, RowsKept DEF Accounted
<1>3. CountsOK(k)'
  BY <1>2 DEF CountsOK, SameRows
<1>4. Maxes(k)' = Maxes(k)
  BY DEF SameRows, SameHand, Maxes
<1> QED BY <1>3, <1>4 DEF MaxOK

LEMMA LogHands ==
    ASSUME QuotaInv, QuotaInv', NEW n \in Node, NEW k \in Key, NEW time \in UseTime,
           LogQuotaData(n, k, time), NEW one, one = [count |-> 1, time |-> time, max |-> time]
    PROVE  /\ one \in Use /\ Entry(n, k) \in Use
           /\ Unsaved(n, k)' /\ cache'[n][k] = Added(Entry(n, k), one)
           /\ Unsaved(n, k) => Entry(n, k) = cache[n][k]
           /\ ~Unsaved(n, k) => Entry(n, k) = Nothing
           /\ logged'[k] = Added(logged[k], one)
           /\ \A j \in Key : SameRows(j) /\ lost'[j] = lost[j] /\ (j # k => logged'[j] = logged[j])
           /\ \A m \in Node, j \in Key : m # n \/ j # k => SameHand(m, j)
<1>1. PICK use : use = Added(Entry(n, k), one)
  OBVIOUS
<1>2. one \in Use /\ Entry(n, k) \in Use
  BY EntryIsUse, OneIsUse DEF QuotaInv, NodesInv
<1>3. use \in Use
  BY <1>1, <1>2, AddedUse
<1>4. /\ cache' = [cache EXCEPT ![n] = Set(cache[n], k, use)]
      /\ logged' = [logged EXCEPT ![k] = Added(logged[k], one)]
      /\ saver[n].pc = "sleep" /\ UNCHANGED <<saver, table, lost, failures>>
  BY <1>1 DEF LogQuotaData
<1>5. /\ \A m \in Node : m # n => cache'[m] = cache[m]
      /\ cache'[n] = Set(cache[n], k, use) /\ cache[n] \in Caches
  BY <1>4 DEF QuotaInv, NodesInv
<1>6. /\ DOMAIN cache'[n] = DOMAIN cache[n] \cup {k} /\ cache'[n][k] = use
      /\ \A j \in DOMAIN cache[n] : j # k => cache'[n][j] = cache[n][j]
  <2>1. PICK f \in Caches : f = cache[n]
    BY <1>5
  <2> QED BY <1>3, <1>5, <2>1, CacheGrows
<1>7. \A j \in Key : SameRows(j) /\ lost'[j] = lost[j] /\ (j # k => logged'[j] = logged[j])
  BY <1>4 DEF SameRows, RowsOf, QuotaInv, HistoryInv
<1>8. logged'[k] = Added(logged[k], one)
  BY <1>4 DEF QuotaInv, HistoryInv
<1>9. \A m \in Node, j \in Key : m # n \/ j # k => SameHand(m, j)
  BY <1>4, <1>5, <1>6 DEF SameHand, Unsaved
<1>10. Unsaved(n, k)' /\ cache'[n][k] = Added(Entry(n, k), one)
  BY <1>1, <1>4, <1>6 DEF Unsaved
<1>11. /\ Unsaved(n, k) => Entry(n, k) = cache[n][k]
       /\ ~Unsaved(n, k) => Entry(n, k) = Nothing
  BY <1>4 DEF Unsaved, Entry
<1> QED BY <1>2, <1>7, <1>8, <1>9, <1>10, <1>11

LEMMA LogKept ==
    ASSUME QuotaAssumption, QuotaInv, QuotaInv', NEW n \in Node, NEW k \in Key,
           NEW time \in UseTime, LogQuotaData(n, k, time), KeptInv
    PROVE  KeptInv'
<1>1. PICK one : one = [count |-> 1, time |-> time, max |-> time]
  OBVIOUS
<1>2. PICK entry : entry = Entry(n, k)
  OBVIOUS
<1>3. /\ one \in Use /\ entry \in Use
      /\ Unsaved(n, k)' /\ cache'[n][k] = Added(entry, one)
      /\ Unsaved(n, k) => entry = cache[n][k]
      /\ ~Unsaved(n, k) => entry = Nothing
      /\ logged'[k] = Added(logged[k], one)
      /\ \A j \in Key : SameRows(j) /\ lost'[j] = lost[j] /\ (j # k => logged'[j] = logged[j])
      /\ \A m \in Node, j \in Key : m # n \/ j # k => SameHand(m, j)
  BY <1>1, <1>2, LogHands
<1>4. ASSUME NEW j \in Key, j # k PROVE CountsOK(j)' /\ MaxOK(j)'
  BY <1>3, <1>4, KeyStays DEF KeptInv
<1>5. CountsOK(k) /\ MaxOK(k) /\ logged[k] \in Use /\ logged[k].max \in Nat
  BY HistoryTypes DEF KeptInv, QuotaInv
<1>6. CountsOK(k)'
  <2>1. ASSUME NEW field \in Field
        PROVE  (InHand(n, k, field)' - InHand(n, k, field)) + (lost'[k][field] - lost[k][field])
                 = logged'[k][field] - logged[k][field]
    <3>1. /\ Added(entry, one)[field] = entry[field] + one[field]
          /\ Added(logged[k], one)[field] = logged[k][field] + one[field]
      BY <1>3, <1>5, AddedUse DEF Field
    <3>2. /\ one[field] \in Nat /\ entry[field] \in Nat /\ logged[k][field] \in Nat
          /\ lost[k][field] \in Nat /\ lost'[k][field] = lost[k][field]
      BY <1>3, HistoryTypes DEF QuotaInv, Use, Field
    <3>3. InHand(n, k, field)' = entry[field] + one[field]
      BY <1>3, <3>1 DEF InHand
    <3>4. InHand(n, k, field) = entry[field]
      BY <1>3 DEF InHand, Nothing, Field
    <3>5. logged'[k][field] = logged[k][field] + one[field]
      BY <1>3, <3>1
    <3> QED BY <3>2, <3>3, <3>4, <3>5
  <2> QED BY <1>3, <1>5, <2>1, HandChanges
<1>7. MaxOK(k)'
  <2>1. PICK new \in Nat, old \in Nat, t \in Nat :
        /\ t = one.max /\ old = entry.max /\ new = Added(entry, one).max
        /\ new = IF old < t THEN t ELSE old
    BY <1>3, AddedUse DEF Use
  <2>2. logged'[k].max = IF logged[k].max < t THEN t ELSE logged[k].max
    BY <1>3, <1>5, <2>1, AddedUse
  <2>3. old \in Maxes(k) \/ old = 0
    BY <1>3, <2>1 DEF Maxes, Nothing
  <2> DEFINE hands == {cache[m][k].max : m \in {p \in Node : Unsaved(p, k)}}
  <2>4. /\ \A s \in hands' : s \in hands \/ s = new
        /\ \A a \in hands : a \in hands' \/ a = old
        /\ new \in hands'
    <3>1. \A m \in Node : m # n => SameHand(m, k)
      BY <1>3
    <3>2. /\ cache'[n][k].max = new /\ Unsaved(n, k)'
          /\ Unsaved(n, k) => cache[n][k].max = old
      BY <1>3, <2>1
    <3> QED BY <3>1, <3>2 DEF SameHand
  <2>5. /\ \A s \in Maxes(k)' : s \in Maxes(k) \/ s = new
        /\ \A a \in Maxes(k) : a \in Maxes(k)' \/ a = old
        /\ new \in Maxes(k)'
    <3>1. SameRows(k) /\ lost'[k] = lost[k]
      BY <1>3
    <3>2. {table[id].max : id \in RowsOf(k)}' = {table[id].max : id \in RowsOf(k)}
      BY <3>1 DEF SameRows
    <3>3. lost'[k].max = lost[k].max
      BY <3>1
    <3> QED BY <2>4, <3>2, <3>3 DEF Maxes
  <2>6. Maxes(k) \in SUBSET Nat
    BY MaxesAreNaturals
  <2>7. PICK l \in Nat, l2 \in Nat : l = logged[k].max /\ l2 = logged'[k].max
    BY <1>5, <2>2
  <2>8. l \in Maxes(k) /\ \A a \in Maxes(k) : a <= l
    BY <1>5, <2>7 DEF MaxOK
  <2>9. \A s \in Maxes(k)' : s <= l2
    BY <2>1, <2>2, <2>3, <2>5, <2>6, <2>7, <2>8
  <2>10. l2 \in Maxes(k)'
    <3>1. old <= l /\ l2 = IF l < t THEN t ELSE l
      BY <2>2, <2>3, <2>7, <2>8
    <3>2. new = l2 \/ (l2 = l /\ old < l)
      BY <2>1, <3>1
    <3>3. old < l => l \in Maxes(k)'
      BY <2>5, <2>8
    <3> QED BY <2>5, <3>2, <3>3
  <2> QED BY <2>7, <2>9, <2>10 DEF MaxOK
<1> QED BY <1>4, <1>6, <1>7 DEF KeptInv

\* A start of a save and a find change no hand and no row.
LEMMA QuietKept ==
    ASSUME QuotaAssumption, QuotaInv, QuotaInv', KeptInv,
           (\E n \in Node : StartSave(n) \/ Find(n)) \/ UNCHANGED vars
    PROVE  KeptInv'
<1>1. UNCHANGED <<cache, table, logged, lost>>
  BY DEF StartSave, Find, vars
<1>2. ASSUME NEW n \in Node, StartSave(n), NEW m \in Node, NEW k \in Key PROVE SameHand(m, k)
  <2>1. /\ saver[n].pc = "sleep" /\ saver'[n].pc = "find" /\ saver'[n].left = DOMAIN cache[n]
        /\ \A p \in Node : p # n => saver'[p] = saver[p]
    BY <1>2 DEF StartSave, QuotaInv, NodesInv, SaverOK, Savers
  <2> QED BY <1>1, <2>1 DEF SameHand, Unsaved
<1>3. ASSUME NEW n \in Node, Find(n), NEW m \in Node, NEW k \in Key PROVE SameHand(m, k)
  <2>1. PICK s \in Savers : /\ saver' = [saver EXCEPT ![n] = s] /\ s.left = saver[n].left
                            /\ s.pc \in {"increase", "create"}
    BY <1>3, FindChoice
  <2>2. /\ saver'[n] = s /\ \A p \in Node : p # n => saver'[p] = saver[p]
    BY <2>1 DEF QuotaInv, NodesInv
  <2>3. saver[n].pc = "find"
    BY <1>3 DEF Find
  <2> QED BY <1>1, <2>1, <2>2, <2>3 DEF SameHand, Unsaved
<1>4. ASSUME UNCHANGED vars, NEW m \in Node, NEW k \in Key PROVE SameHand(m, k)
  BY <1>4 DEF vars, SameHand, Unsaved
<1>5. \A m \in Node, k \in Key : SameHand(m, k)
  BY <1>2, <1>3, <1>4
<1>6. \A k \in Key : SameRows(k) /\ logged'[k] = logged[k] /\ lost'[k] = lost[k]
  BY <1>1 DEF SameRows, RowsOf
<1> QED BY <1>5, <1>6, KeyStays DEF KeptInv

\* What a node has in hand of a key is lost.
LEMMA HandLost ==
    ASSUME QuotaAssumption, QuotaInv, QuotaInv', NEW n \in Node, NEW k \in Key, NEW entry \in Use,
           CountsOK(k), MaxOK(k), SameRows(k), logged'[k] = logged[k],
           \A m \in Node : m # n => SameHand(m, k),
           Unsaved(n, k), entry = cache[n][k], ~Unsaved(n, k)', lost'[k] = Added(lost[k], entry)
    PROVE  CountsOK(k)' /\ MaxOK(k)'
<1>1. lost[k] \in Use
  BY HistoryTypes DEF QuotaInv
<1>2. CountsOK(k)'
  <2>1. ASSUME NEW field \in Field
        PROVE  (InHand(n, k, field)' - InHand(n, k, field)) + (lost'[k][field] - lost[k][field])
                 = logged'[k][field] - logged[k][field]
    <3>1. lost'[k][field] = lost[k][field] + entry[field]
      BY <1>1, AddedUse DEF Field
    <3>2. /\ entry[field] \in Nat /\ lost[k][field] \in Nat /\ logged[k][field] \in Nat
          /\ logged'[k][field] = logged[k][field]
      BY HistoryTypes DEF QuotaInv, Use, Field
    <3>3. InHand(n, k, field)' = 0 /\ InHand(n, k, field) = entry[field]
      BY DEF InHand
    <3> QED BY <3>1, <3>2, <3>3
  <2> QED BY <2>1, HandChanges
<1>3. MaxOK(k)'
  <2>1. PICK new \in Nat, old \in Nat, e \in Nat :
        /\ new = lost'[k].max /\ old = lost[k].max /\ e = entry.max
        /\ new = IF old < e THEN e ELSE old
    BY <1>1, AddedUse DEF Use
  <2>2. old \in Maxes(k) /\ e \in Maxes(k) /\ new \in Maxes(k)'
    BY <2>1 DEF Maxes
  <2>3. \A s \in Maxes(k)' : s \in Maxes(k) \/ s = new
    BY <2>1 DEF Maxes, SameRows, SameHand
  <2>4. \A a \in Maxes(k) : a \in Maxes(k)' \/ a = old \/ a = e
    BY <2>1 DEF Maxes, SameRows, SameHand
  <2>5. Maxes(k) \in SUBSET Nat
    BY MaxesAreNaturals
  <2>6. \A s \in Maxes(k)' : \E a \in Maxes(k) : s = a
    BY <2>1, <2>2, <2>3
  <2>7. \A a \in Maxes(k) : \E s \in Maxes(k)' : a <= s
    BY <2>1, <2>2, <2>4, <2>5
  <2> QED BY <2>6, <2>7, MaxMoves
<1> QED BY <1>2, <1>3

LEMMA CrashKept ==
    ASSUME QuotaAssumption, QuotaInv, QuotaInv', NEW n \in Node, Crash(n), KeptInv
    PROVE  KeptInv'
<1>1. /\ UNCHANGED <<table, logged>> /\ cache'[n] = Empty
      /\ \A m \in Node : m # n => cache'[m] = cache[m] /\ saver'[m] = saver[m]
      /\ \A k \in Key :
            lost'[k] = IF Unsaved(n, k) THEN Added(lost[k], cache[n][k]) ELSE lost[k]
  BY DEF Crash, QuotaInv, NodesInv
<1>2. \A k \in Key : ~Unsaved(n, k)'
  BY <1>1, EmptyIsCache DEF Unsaved
<1>3. \A k \in Key, m \in Node : m # n => SameHand(m, k)
  BY <1>1 DEF SameHand, Unsaved
<1>4. \A k \in Key : SameRows(k) /\ logged'[k] = logged[k]
  BY <1>1 DEF SameRows, RowsOf
<1>5. ASSUME NEW k \in Key, ~Unsaved(n, k) PROVE CountsOK(k)' /\ MaxOK(k)'
  <2>1. SameHand(n, k) /\ lost'[k] = lost[k]
    BY <1>1, <1>2, <1>5 DEF SameHand
  <2> QED BY <1>3, <1>4, <2>1, KeyStays DEF KeptInv
<1>6. ASSUME NEW k \in Key, Unsaved(n, k) PROVE CountsOK(k)' /\ MaxOK(k)'
  <2>1. PICK entry \in Use : entry = cache[n][k]
    BY <1>6, UnsavedUse DEF QuotaInv
  <2>2. lost'[k] = Added(lost[k], entry) /\ lost[k] \in Use /\ logged[k] \in Use
    BY <1>1, <1>6, <2>1, HistoryTypes DEF QuotaInv
  <2>3. CountsOK(k) /\ MaxOK(k)
    BY DEF KeptInv
  <2>4. CountsOK(k)' /\ MaxOK(k)'
    BY <1>2, <1>3, <1>4, <1>6, <2>1, <2>2, <2>3, HandLost
  <2> QED BY <2>4
<1> QED BY <1>5, <1>6 DEF KeptInv

\* An update adds to every row of its key, so at least once to their sum.
LEMMA RowsIncrease ==
    ASSUME QuotaInv, NEW k \in Key, NEW entry \in Use, RowsOf(k) # {},
           table' = Increased(k, entry), NEW field \in Field
    PROVE  /\ RowsOf(k)' = RowsOf(k)
           /\ InRows(k, field)' >= InRows(k, field) + entry[field]
           /\ Cardinality(RowsOf(k)) <= 1 =>
                InRows(k, field)' = InRows(k, field) + entry[field]
<1> DEFINE f == [id \in DOMAIN table |-> table[id][field]]
<1>1. PICK g : g = [id \in DOMAIN table' |-> table'[id][field]]
  OBVIOUS
<1>2. PICK rows : rows = RowsOf(k)
  OBVIOUS
<1>3. PICK x \in Nat : x = entry[field]
  BY DEF Use, Field
<1>4. rows \subseteq DOMAIN table /\ IsFiniteSet(rows) /\ rows # {}
  BY <1>2, TableIsFinite DEF QuotaInv
<1>5. ASSUME NEW id \in rows
      PROVE  /\ f[id] \in Nat /\ g[id] = f[id] + x
             /\ table'[id].key = k /\ id \in DOMAIN table'
  <2>1. table[id] \in Row /\ table[id][field] \in Nat /\ table[id].key = k
    BY <1>2, <1>4, RowTypes DEF QuotaInv, RowsOf
  <2>2. table'[id] = Added(table[id], entry) /\ id \in DOMAIN table'
    BY <1>2, <1>4 DEF Increased
  <2>3. /\ Added(table[id], entry).key = k
        /\ Added(table[id], entry)[field] = table[id][field] + entry[field]
    BY <2>1, AddedRow DEF Field
  <2> QED BY <1>1, <1>3, <1>4, <2>1, <2>2, <2>3
<1>6. RowsOf(k)' = rows
  <2>1. DOMAIN table' = DOMAIN table /\ \A id \in DOMAIN table \ rows : table'[id] = table[id]
    BY <1>2 DEF Increased
  <2> QED BY <1>2, <1>4, <1>5, <2>1 DEF RowsOf
<1>7. PICK r \in rows : TRUE
  BY <1>4
<1>8. PICK rest : rest = rows \ {r}
  OBVIOUS
<1> HIDE DEF f
<1>9. IsFiniteSet(rest) /\ rest \subseteq rows
  BY <1>4, <1>8, FS_Subset
<1>10. /\ SumFunctionOnSet(f, rows) = f[r] + SumFunctionOnSet(f, rest)
       /\ SumFunctionOnSet(g, rows) = g[r] + SumFunctionOnSet(g, rest)
  <2>1. \A id \in rows : f[id] \in Int /\ g[id] \in Int
    BY <1>3, <1>5
  <2> QED BY <1>4, <1>7, <1>8, <2>1, SumTakesOut
<1>11. /\ SumFunctionOnSet(f, rest) <= SumFunctionOnSet(g, rest)
       /\ SumFunctionOnSet(f, rest) \in Int /\ SumFunctionOnSet(g, rest) \in Int
  <2>1. \A id \in rest : f[id] \in Int /\ g[id] \in Int /\ f[id] <= g[id]
    BY <1>3, <1>5, <1>9
  <2> QED BY <1>9, <2>1, SumAtMost, SumTakesOut
<1>12. Cardinality(rows) <= 1 => rest = {}
  <2>1. Cardinality(rest) = Cardinality(rows) - 1 /\ Cardinality(rows) \in Nat
    BY <1>4, <1>7, <1>8, FS_RemoveElement, FS_CardinalityType
  <2>2. Cardinality(rest) \in Nat /\ (Cardinality(rest) = 0 <=> rest = {})
    BY <1>9, FS_CardinalityType, FS_EmptySet
  <2> QED BY <2>1, <2>2
<1>13. rest = {} => SumFunctionOnSet(f, rest) = SumFunctionOnSet(g, rest)
  BY SumOfNothing
<1>14. PICK a \in Int, b \in Int, y \in Int :
         /\ a = SumFunctionOnSet(f, rest) /\ b = SumFunctionOnSet(g, rest) /\ y = f[r]
         /\ a <= b /\ (rest = {} => a = b) /\ g[r] = y + x
         /\ SumFunctionOnSet(f, rows) = y + a /\ SumFunctionOnSet(g, rows) = (y + x) + b
  BY <1>5, <1>7, <1>10, <1>11, <1>13
<1>15. InRows(k, field) = y + a /\ InRows(k, field)' = (y + x) + b
  <2>1. InRows(k, field) = SumFunctionOnSet(f, rows)
    BY <1>2 DEF f, InRows
  <2>2. InRows(k, field)' = SumFunctionOnSet(g, rows)
    BY <1>1, <1>6 DEF InRows
  <2> QED BY <1>14, <2>1, <2>2
<1>16. (y + x) + b >= (y + a) + x /\ (a = b => (y + x) + b = (y + a) + x)
  BY <1>14
<1> QED BY <1>2, <1>3, <1>6, <1>12, <1>14, <1>15, <1>16

\* A new row has the use that it is created with.
LEMMA RowsCreate ==
    ASSUME QuotaInv, NEW k \in Key, NEW entry \in Use, NEW new, new \notin DOMAIN table,
           table' = Set(table, new, NewRow(k, entry)), NEW field \in Field
    PROVE  /\ RowsOf(k)' = RowsOf(k) \cup {new}
           /\ InRows(k, field)' = InRows(k, field) + entry[field]
<1> DEFINE f == [id \in DOMAIN table |-> table[id][field]]
<1>1. PICK g : g = [id \in DOMAIN table' |-> table'[id][field]]
  OBVIOUS
<1>2. PICK rows : rows = RowsOf(k)
  OBVIOUS
<1>3. PICK x \in Nat : x = entry[field]
  BY DEF Use, Field
<1>4. rows \subseteq DOMAIN table /\ IsFiniteSet(rows)
  BY <1>2, TableIsFinite DEF QuotaInv
<1>5. /\ DOMAIN table' = DOMAIN table \cup {new} /\ table'[new] = NewRow(k, entry)
      /\ \A id \in DOMAIN table : table'[id] = table[id]
  BY DEF Set
<1>6. RowsOf(k)' = rows \cup {new}
  BY <1>2, <1>5 DEF RowsOf, NewRow
<1>7. \A id \in rows : g[id] = f[id] /\ f[id] \in Int
  BY <1>1, <1>4, <1>5, RowTypes DEF QuotaInv
<1>8. g[new] = x
  BY <1>1, <1>3, <1>5 DEF NewRow, Field
<1> HIDE DEF f
<1>9. SumFunctionOnSet(g, rows \cup {new}) = g[new] + SumFunctionOnSet(f, rows)
  BY <1>4, <1>7, <1>8, SumWithNew
<1>10. SumFunctionOnSet(f, rows) \in Int
  BY <1>4, <1>7, SumTakesOut
<1>11. InRows(k, field) = SumFunctionOnSet(f, rows)
  BY <1>2 DEF f, InRows
<1>12. InRows(k, field)' = SumFunctionOnSet(g, rows \cup {new})
  BY <1>1, <1>6 DEF InRows
<1> QED BY <1>2, <1>3, <1>6, <1>8, <1>9, <1>10, <1>11, <1>12

\* What a write does to a key, whose row it updates or creates.
LEMMA KeyStored ==
    ASSUME QuotaInv, NEW n \in Node, NEW k \in Key, NEW entry \in Use,
           k = saver[n].key, entry = cache[n][k], saver[n].pc \in {"increase", "create"},
           table' = Stored(n, k)
    PROVE  /\ \A field \in Field :
                /\ InRows(k, field)' >= InRows(k, field) + entry[field]
                /\ Cardinality(RowsOf(k)') <= 1 =>
                    InRows(k, field)' = InRows(k, field) + entry[field]
           /\ Cardinality(RowsOf(k)') <= 1 => Cardinality(RowsOf(k)) <= 1
           /\ RowsOf(k) \subseteq RowsOf(k)' /\ RowsOf(k)' # {}
           /\ \A id \in RowsOf(k) : /\ table'[id].max \in {table[id].max, entry.max}
                                    /\ table[id].max <= table'[id].max
           /\ \E id \in RowsOf(k)' : entry.max <= table'[id].max
           /\ \A id \in RowsOf(k)' \ RowsOf(k) : table'[id].max = entry.max
           /\ \A j \in Key : j # k => SameRows(j)
<1>1. CASE saver[n].pc = "increase"
  <2>1. table' = Increased(k, entry) /\ RowsOf(k) # {}
    BY <1>1 DEF Stored, QuotaInv, NodesInv, SaverOK
  <2>2. RowsOf(k)' = RowsOf(k)
    BY <2>1, RowsIncrease DEF Field
  <2>3. ASSUME NEW id \in RowsOf(k)
        PROVE  /\ table'[id].max \in {table[id].max, entry.max}
               /\ table[id].max <= table'[id].max /\ entry.max <= table'[id].max
    <3>1. table[id] \in Row /\ table[id].max \in Nat /\ entry.max \in Nat /\ id \in DOMAIN table
      BY RowTypes DEF QuotaInv, RowsOf, Use
    <3>2. table'[id].max = IF table[id].max < entry.max THEN entry.max ELSE table[id].max
      BY <2>1, <3>1, AddedRow DEF Increased
    <3> QED BY <3>1, <3>2
  <2>4. \A j \in Key : j # k => SameRows(j)
    <3>1. \A id \in DOMAIN table : table[id].key # k => table'[id] = table[id]
      BY <2>1 DEF Increased, RowsOf
    <3>2. \A id \in DOMAIN table : table'[id].key = table[id].key
      BY <2>2, <3>1 DEF RowsOf
    <3>3. DOMAIN table' = DOMAIN table
      BY <2>1 DEF Increased
    <3> QED BY <3>1, <3>2, <3>3 DEF SameRows, RowsOf
  <2>5. \A field \in Field :
            /\ InRows(k, field)' >= InRows(k, field) + entry[field]
            /\ Cardinality(RowsOf(k)') <= 1 => InRows(k, field)' = InRows(k, field) + entry[field]
    BY <2>1, <2>2, RowsIncrease
  <2>6. PICK id \in RowsOf(k) : TRUE
    BY SMTT(60), <2>1
  <2> QED BY <2>2, <2>3, <2>4, <2>5, <2>6
<1>2. CASE saver[n].pc = "create"
  <2>1. PICK new : /\ new \notin DOMAIN table
                   /\ Stored(n, k) = Set(table, new, NewRow(k, entry))
    BY SMTT(60), <1>2, StoredTable DEF QuotaInv
  <2>2. /\ DOMAIN table' = DOMAIN table \cup {new}
        /\ table'[new].key = k /\ table'[new].max = entry.max
        /\ \A id \in DOMAIN table : table'[id] = table[id]
    BY <2>1 DEF Set, NewRow
  <2>3. \A field \in Field : /\ RowsOf(k)' = RowsOf(k) \cup {new}
                             /\ InRows(k, field)' = InRows(k, field) + entry[field]
    BY SMTT(60), <2>1, RowsCreate
  <2>4. RowsOf(k)' = RowsOf(k) \cup {new} /\ new \notin RowsOf(k)
    BY SMTT(60), <2>1, <2>3 DEF RowsOf, Field
  <2>5. \A j \in Key : j # k => SameRows(j)
    BY <2>1, <2>2 DEF SameRows, RowsOf
  <2>6. Cardinality(RowsOf(k)') <= 1 => Cardinality(RowsOf(k)) <= 1
    <3>1. IsFiniteSet(RowsOf(k)) /\ Cardinality(RowsOf(k)) \in Nat
      BY TableIsFinite, FS_CardinalityType DEF QuotaInv
    <3>2. Cardinality(RowsOf(k)') = Cardinality(RowsOf(k)) + 1
      BY <2>4, <3>1, FS_AddElement
    <3> QED BY <3>1, <3>2
  <2>7. /\ \A id \in RowsOf(k) : table'[id].max = table[id].max /\ table[id].max \in Nat
        /\ entry.max \in Nat
    BY <2>2, RowTypes DEF RowsOf, QuotaInv, Use
  <2>8. \A field \in Field : InRows(k, field) \in Int /\ entry[field] \in Int
    <3> SUFFICES ASSUME NEW field \in Field PROVE InRows(k, field) \in Int /\ entry[field] \in Int
      OBVIOUS
    <3> QED BY AccountTypes, QuotaAssumption DEF Use, Field
  <2>9. \A field \in Field : InRows(k, field)' >= InRows(k, field) + entry[field]
    BY <2>3, <2>8
  <2> QED BY <2>2, <2>3, <2>4, <2>5, <2>6, <2>7, <2>9
<1> QED BY <1>1, <1>2

\* A write takes the key out of the node's hand and leaves its hands else.
LEMMA WriteHands ==
    ASSUME QuotaInv, NEW n \in Node, Write(n), NEW k, k = saver[n].key
    PROVE  /\ Unsaved(n, k) /\ ~Unsaved(n, k)'
           /\ \A m \in Node, j \in Key : m # n \/ j # k => SameHand(m, j)
<1>1. PICK i \in Key, entry \in Use, s \in Savers :
            /\ i = saver[n].key /\ i \in saver[n].left
            /\ i \in DOMAIN cache[n] /\ entry = cache[n][i]
            /\ saver[n].pc \in {"increase", "create"}
            /\ saver' = [saver EXCEPT ![n] = s]
            /\ s.left = saver[n].left \ {i}
            /\ s.pc = IF s.left = {} THEN "sleep" ELSE "find"
            /\ cache' = [cache EXCEPT ![n] = IF s.left = {} THEN Empty ELSE cache[n]]
            /\ UNCHANGED logged
            /\ \/ table' = Stored(n, i) /\ UNCHANGED <<lost, failures>>
               \/ /\ failures' = failures + 1 /\ UNCHANGED table
                  /\ lost' = [lost EXCEPT ![i] = Added(lost[i], entry)]
  BY WriteChoice
<1>2. /\ saver'[n] = s /\ cache'[n] = IF s.left = {} THEN Empty ELSE cache[n]
      /\ \A m \in Node : m # n => saver'[m] = saver[m] /\ cache'[m] = cache[m]
  BY <1>1 DEF QuotaInv, NodesInv
<1>3. Unsaved(n, k) /\ ~Unsaved(n, k)'
  BY <1>1, <1>2, EmptyIsCache DEF Unsaved
<1>4. ASSUME NEW j \in Key, j # k PROVE SameHand(n, j)
  <2>1. CASE s.left = {}
    BY <1>1, <1>2, <1>4, <2>1, EmptyIsCache DEF SameHand, Unsaved
  <2>2. CASE s.left # {}
    BY <1>1, <1>2, <1>4, <2>2 DEF SameHand, Unsaved
  <2> QED BY <2>1, <2>2
<1>5. ASSUME NEW m \in Node, m # n, NEW j \in Key PROVE SameHand(m, j)
  BY <1>2, <1>5 DEF SameHand, Unsaved
<1> QED BY <1>3, <1>4, <1>5

\* What goes from a hand into the rows of a key is kept.
LEMMA HandStored ==
    ASSUME QuotaAssumption, QuotaInv, QuotaInv', NEW n \in Node, NEW k \in Key, NEW entry \in Use,
           k = saver[n].key, entry = cache[n][k], saver[n].pc \in {"increase", "create"},
           table' = Stored(n, k), logged'[k] = logged[k], lost'[k] = lost[k],
           Unsaved(n, k), ~Unsaved(n, k)', \A m \in Node : m # n => SameHand(m, k),
           CountsOK(k), MaxOK(k)
    PROVE  CountsOK(k)' /\ MaxOK(k)'
<1>1. /\ \A field \in Field :
            /\ InRows(k, field)' >= InRows(k, field) + entry[field]
            /\ Cardinality(RowsOf(k)') <= 1 =>
                InRows(k, field)' = InRows(k, field) + entry[field]
      /\ Cardinality(RowsOf(k)') <= 1 => Cardinality(RowsOf(k)) <= 1
      /\ RowsOf(k) \subseteq RowsOf(k)'
      /\ \A id \in RowsOf(k) : /\ table'[id].max \in {table[id].max, entry.max}
                               /\ table[id].max <= table'[id].max
      /\ \E id \in RowsOf(k)' : entry.max <= table'[id].max
      /\ \A id \in RowsOf(k)' \ RowsOf(k) : table'[id].max = entry.max
  BY SMTT(60), KeyStored
<1>2. CountsOK(k)'
  <2> SUFFICES ASSUME NEW field \in Field
               PROVE  /\ Accounted(k, field)' >= logged'[k][field]
                      /\ Cardinality(RowsOf(k)') <= 1 => Accounted(k, field)' = logged'[k][field]
    BY DEF CountsOK
  <2>1. PICK rows \in Int, memory \in Int, l \in Int, a \in Int, x \in Int :
          /\ rows = InRows(k, field) /\ memory = InMemory(k, field) /\ l = lost[k][field]
          /\ a = logged[k][field] /\ x = entry[field]
    <3>1. entry[field] \in Int
      BY DEF Use, Field
    <3>2. /\ InRows(k, field) \in Int /\ InMemory(k, field) \in Int
          /\ lost[k][field] \in Int /\ logged[k][field] \in Int
      BY AccountTypes
    <3> QED BY <3>1, <3>2
  <2>2. InMemory(k, field)' = memory + (0 - x)
    <3>1. InHand(n, k, field)' = 0 /\ InHand(n, k, field) = x
      BY <2>1 DEF InHand
    <3> QED BY <2>1, <3>1, MemoryMoves
  <2>3. PICK rows2 \in Int : rows2 = InRows(k, field)'
    <3> DEFINE f == [id \in DOMAIN table' |-> table'[id][field]]
    <3>1. TableInv'
      BY DEF QuotaInv
    <3>2. /\ IsFiniteSet(RowsOf(k)') /\ \A id \in RowsOf(k)' : f[id] \in Int
      <4>1. PICK size \in Nat : table' \in [1 .. size -> Row]
        BY <3>1 DEF TableInv
      <4>2. RowsOf(k)' \subseteq 1 .. size /\ IsFiniteSet(1 .. size)
        <5>1. 1 \in Int /\ size \in Int
          OBVIOUS
        <5>2. DOMAIN table' = 1 .. size
          BY <4>1
        <5>3. RowsOf(k)' \subseteq DOMAIN table'
          BY DEF RowsOf
        <5> QED BY <5>1, <5>2, <5>3, FS_Interval
      <4>3. ASSUME NEW id \in RowsOf(k)' PROVE f[id] \in Int
        <5>1. id \in DOMAIN table' /\ table'[id] \in Row
          BY <4>1 DEF RowsOf
        <5> QED BY <5>1 DEF Row, Field
      <4> QED BY <4>2, <4>3, FS_Subset
    <3> HIDE DEF f
    <3>3. PICK ids : ids = RowsOf(k)'
      OBVIOUS
    <3>4. SumFunctionOnSet(f, ids) \in Int
      BY SMTT(60), <3>2, <3>3, SumTakesOut
    <3> QED BY <3>3, <3>4 DEF f, InRows
  <2>4. /\ rows2 >= rows + x
        /\ Cardinality(RowsOf(k)') <= 1 => rows2 = rows + x
    BY <1>1, <2>1, <2>3
  <2>5. /\ Accounted(k, field) = rows + memory + l
        /\ Accounted(k, field)' = rows2 + (memory + (0 - x)) + l
    BY <2>1, <2>2, <2>3 DEF Accounted
  <2>6. /\ rows + memory + l >= a
        /\ Cardinality(RowsOf(k)) <= 1 => rows + memory + l = a
    BY <2>1, <2>5 DEF CountsOK
  <2>7. /\ rows2 + (memory + (0 - x)) + l >= a
        /\ Cardinality(RowsOf(k)') <= 1 => rows2 + (memory + (0 - x)) + l = a
    BY <1>1, <2>4, <2>6
  <2> QED BY <2>1, <2>5, <2>7
<1>3. MaxOK(k)'
  <2>1. Maxes(k) \in SUBSET Nat
    BY MaxesAreNaturals
  <2>2. PICK e \in Maxes(k) : e = entry.max
    BY DEF Maxes
  <2> DEFINE hands == {cache[m][k].max : m \in {p \in Node : Unsaved(p, k)}}
             others == {table[id].max : id \in RowsOf(k)}
  <2>3. /\ \A s \in hands' : s \in hands
        /\ \A a \in hands : a \in hands' \/ a = e
    BY SMTT(60), <2>2 DEF SameHand
  <2>4. \A s \in others' : s \in others \/ s = e
    BY SMTT(60), <1>1, <2>2
  <2>5. /\ \A a \in others : \E s \in others' : a <= s
        /\ \E s \in others' : e <= s
    BY <1>1, <2>2
  <2>6. lost'[k].max = lost[k].max
    OBVIOUS
  <2>7. \A s \in Maxes(k)' : \E a \in Maxes(k) : s = a
    <3>1. \A s \in Maxes(k)' : s = lost[k].max \/ s \in others' \/ s \in hands'
      BY <2>6 DEF Maxes
    <3>2. \A s : s = lost[k].max \/ s \in others \/ s \in hands => s \in Maxes(k)
      BY DEF Maxes
    <3> HIDE DEF hands, others
    <3> QED BY <2>2, <2>3, <2>4, <3>1, <3>2
  <2>8. \A a \in Maxes(k) : \E s \in Maxes(k)' : a <= s
    <3>1. \A a \in Maxes(k) : a = lost[k].max \/ a \in others \/ a \in hands
      BY DEF Maxes
    <3>2. \A s : s = lost[k].max \/ s \in others' \/ s \in hands' => s \in Maxes(k)'
      BY <2>6 DEF Maxes
    <3>3. \A a \in Maxes(k) : a <= a
      BY <2>1
    <3> HIDE DEF hands, others
    <3> QED BY <2>2, <2>3, <2>5, <3>1, <3>2, <3>3
  <2> QED BY <2>7, <2>8, MaxMoves
<1> QED BY <1>2, <1>3

LEMMA WriteKept ==
    ASSUME QuotaAssumption, QuotaInv, QuotaInv', NEW n \in Node, Write(n), KeptInv
    PROVE  KeptInv'
<1>1. PICK k \in Key, entry \in Use, s \in Savers :
            /\ k = saver[n].key /\ k \in saver[n].left
            /\ k \in DOMAIN cache[n] /\ entry = cache[n][k]
            /\ saver[n].pc \in {"increase", "create"}
            /\ saver' = [saver EXCEPT ![n] = s]
            /\ s.left = saver[n].left \ {k}
            /\ s.pc = IF s.left = {} THEN "sleep" ELSE "find"
            /\ cache' = [cache EXCEPT ![n] = IF s.left = {} THEN Empty ELSE cache[n]]
            /\ UNCHANGED logged
            /\ \/ table' = Stored(n, k) /\ UNCHANGED <<lost, failures>>
               \/ /\ failures' = failures + 1 /\ UNCHANGED table
                  /\ lost' = [lost EXCEPT ![k] = Added(lost[k], entry)]
  BY WriteChoice
<1>2. /\ Unsaved(n, k) /\ ~Unsaved(n, k)'
      /\ \A m \in Node, j \in Key : m # n \/ j # k => SameHand(m, j)
  BY <1>1, WriteHands
<1>3. CountsOK(k) /\ MaxOK(k)
  BY DEF KeptInv
<1>4. CASE table' = Stored(n, k) /\ UNCHANGED <<lost, failures>>
  <2>1. CountsOK(k)' /\ MaxOK(k)'
    BY <1>1, <1>2, <1>3, <1>4, HandStored
  <2>2. \A j \in Key : j # k => SameRows(j)
    BY <1>1, <1>4, KeyStored
  <2>3. ASSUME NEW j \in Key, j # k PROVE CountsOK(j)' /\ MaxOK(j)'
    BY <1>1, <1>2, <1>4, <2>2, <2>3, KeyStays DEF KeptInv
  <2> QED BY <2>1, <2>3 DEF KeptInv
<1>5. CASE UNCHANGED table /\ lost' = [lost EXCEPT ![k] = Added(lost[k], entry)]
  <2>1. /\ \A j \in Key : SameRows(j) /\ logged'[j] = logged[j]
        /\ lost'[k] = Added(lost[k], entry) /\ \A j \in Key : j # k => lost'[j] = lost[j]
    BY <1>1, <1>5 DEF SameRows, RowsOf, QuotaInv, HistoryInv
  <2>2. CountsOK(k)' /\ MaxOK(k)'
    BY <1>1, <1>2, <1>3, <2>1, HandLost
  <2>3. ASSUME NEW j \in Key, j # k PROVE CountsOK(j)' /\ MaxOK(j)'
    BY <1>2, <2>1, <2>3, KeyStays DEF KeptInv
  <2> QED BY <2>2, <2>3 DEF KeptInv
<1> QED BY <1>1, <1>4, <1>5

LEMMA KeptStep ==
    ASSUME QuotaAssumption, QuotaInv, QuotaInv', KeptInv, [Next]_vars
    PROVE  KeptInv'
<1>1. ASSUME NEW n \in Node, NEW k \in Key, NEW time \in UseTime, LogQuotaData(n, k, time)
      PROVE  KeptInv'
  BY <1>1, LogKept
<1>2. CASE (\E n \in Node : StartSave(n) \/ Find(n)) \/ UNCHANGED vars
  BY <1>2, QuietKept
<1>3. ASSUME NEW n \in Node, Write(n) PROVE KeptInv'
  BY <1>3, WriteKept
<1>4. ASSUME NEW n \in Node, Crash(n) PROVE KeptInv'
  BY <1>4, CrashKept
<1> QED BY <1>1, <1>2, <1>3, <1>4 DEF Next

LEMMA KeptInit == ASSUME QuotaAssumption, Init PROVE KeptInv
<1> SUFFICES ASSUME NEW k \in Key PROVE CountsOK(k) /\ MaxOK(k)
  BY DEF KeptInv
<1>1. /\ RowsOf(k) = {} /\ \A n \in Node : ~Unsaved(n, k)
      /\ lost[k] = Nothing /\ logged[k] = Nothing
  BY EmptyIsCache DEF Init, RowsOf, Unsaved
<1>2. CountsOK(k)
  <2> SUFFICES ASSUME NEW field \in Field PROVE Accounted(k, field) = 0 /\ logged[k][field] = 0
    BY DEF CountsOK
  <2>1. InRows(k, field) = 0
    BY <1>1, SumOfNothing DEF InRows
  <2>2. InMemory(k, field) = 0
    <3> DEFINE f == [n \in Node |-> InHand(n, k, field)]
    <3>1. \A n \in Node : f[n] = 0
      BY <1>1 DEF InHand
    <3>2. IsFiniteSet(Node)
      BY DEF QuotaAssumption
    <3> HIDE DEF f
    <3>3. SumFunctionOnSet(f, Node) = 0
      BY <3>1, <3>2, SumOfZeros
    <3> QED BY <3>3 DEF f, InMemory
  <2>3. lost[k][field] = 0 /\ logged[k][field] = 0
    BY <1>1 DEF Nothing, Field
  <2> QED BY <2>1, <2>2, <2>3 DEF Accounted
<1>3. Maxes(k) = {0} /\ logged[k].max = 0
  BY <1>1 DEF Maxes, Nothing
<1>4. MaxOK(k)
  BY <1>3 DEF MaxOK
<1> QED BY <1>2, <1>4

LEMMA KeptInvariant == Spec => []KeptInv
<1>1. Init => KeptInv
  BY KeptInit, QuotaAssumption
<1>2. QuotaInv /\ QuotaInv' /\ KeptInv /\ [Next]_vars => KeptInv'
  BY KeptStep, QuotaAssumption
<1> QED BY <1>1, <1>2, QuotaInvariant, PTL DEF Spec

\* For any nodes, keys, requests and faults, every use logged of a key is in a cache, in a row or
\* among what failed writes and crashes took; while the key has one row, exactly once, and the
\* greatest latency is the greatest of those kept (LogQuotaData, SaveQuotaDataCache,
\* increaseQuotaData).
THEOREM UsesAreKeptOnce == Spec => []UsesKeptOnce
<1>1. QuotaInv /\ KeptInv => UsesKeptOnce
  <2> SUFFICES ASSUME QuotaInv, KeptInv, NEW k \in Key
               PROVE  /\ Accounted(k, "count") >= logged[k].count
                      /\ Cardinality(RowsOf(k)) <= 1 =>
                          /\ \A field \in {"count", "time"} :
                                Accounted(k, field) = logged[k][field]
                          /\ logged[k].max = Max(Maxes(k))
    BY DEF UsesKeptOnce, Maxes
  <2>1. CountsOK(k) /\ MaxOK(k)
    BY DEF KeptInv
  <2>2. logged[k].max = Max(Maxes(k))
    <3>1. Maxes(k) \in SUBSET Nat /\ logged[k].max \in Nat
      BY MaxesAreNaturals, HistoryTypes DEF QuotaInv
    <3>2. logged[k].max \in Maxes(k) /\ \A a \in Maxes(k) : a <= logged[k].max
      BY <2>1 DEF MaxOK
    <3>3. Max(Maxes(k)) \in Maxes(k) /\ \A a \in Maxes(k) : Max(Maxes(k)) >= a
      BY <3>1, <3>2, GreatestElement
    <3>4. PICK a \in Nat, b \in Nat : a = Max(Maxes(k)) /\ b = logged[k].max
      BY <3>1, <3>3
    <3>5. a <= b /\ a >= b
      BY <3>2, <3>3, <3>4
    <3> QED BY <3>4, <3>5
  <2>3. Accounted(k, "count") >= logged[k]["count"]
    BY <2>1 DEF CountsOK, Field
  <2> QED BY <2>1, <2>2, <2>3 DEF CountsOK, Field
<1> QED BY <1>1, QuotaInvariant, KeptInvariant, PTL
=============================================================================
