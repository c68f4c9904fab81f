--------------------------- MODULE UsageDashboard ---------------------------
(***************************************************************************)
(* The usage dashboard: its filters, its refreshes by hand and by timer,   *)
(* and the cache of the API that it asks.  The store is the other client   *)
(* of that API.                                                            *)
(*                                                                         *)
(* A refresh asks for everything at once and shows it when all has come;   *)
(* the ranking of consumers is also refreshed alone.  Of the five calls of *)
(* a refresh the four by model have the same query, so they are one here.  *)
(***************************************************************************)
EXTENDS Integers, FiniteSets

CONSTANTS
    Client,         \* {"dashboard", "store"} or one of them
    Preset,         \* ranges relative to now
    CustomRange,    \* ranges given by two dates
    ModelCategory,  \* with "all"
    ConsumerType,   \* with "user"
    Admin,          \* the role of the API's user is admin
    CacheTTL,       \* 30 s
    RefreshEvery,   \* autoRefreshInterval
    StaleAfter,     \* 5 min: the store's
    MaxTime, MaxRefreshes

DashboardAssumption ==
    /\ Client \subseteq {"dashboard", "store"} /\ Preset \cap CustomRange = {}
    /\ "all" \in ModelCategory /\ "user" \in ConsumerType /\ Admin \in BOOLEAN
    /\ {CacheTTL, RefreshEvery, StaleAfter, MaxTime, MaxRefreshes} \subseteq Nat
    /\ RefreshEvery > 0
ASSUME DashboardAssumption

VARIABLES
    client,
    now,
    selectedRange,  \* a range, and when it was selected: effectiveDateRange
    modelCategory,
    consumerType,
    refreshes,      \* refreshes under way, with the calls they await
    fetches,        \* requests under way
    apiCache,       \* _cacheQuery and _cacheTimestamp; history: when it was really asked for
    charts,         \* what the cards and charts show
    topConsumers,   \* what the ranking shows
    fetchLoading, fetchError,
    lastRefreshed,  \* the time of the last success
    isStale,        \* the store's computed property: "unknown" until it is read
    refreshed,      \* how many refreshes were begun
    overlapped,     \* history: the last full refresh, or one since, overlapped another
    rankingFailed   \* history: the last refresh of the ranking alone failed

dashboardVars == <<client, now, selectedRange, modelCategory, consumerType, refreshes, fetches,
                   apiCache, charts, topConsumers, fetchLoading, fetchError, lastRefreshed,
                   isStale, refreshed, overlapped, rankingFailed>>

\* No data, an empty cache, no success yet.
Nothing == [key |-> "nothing"]

----------------------------------------------------------------------------
(* The API *)

\* A preset is turned into dates when it is selected, and not again.
presetToDateRange(p) == [range |-> p, at |-> now]

Query == [range |-> selectedRange, category |-> modelCategory]

\* fetchModelData takes what is cached if the dates are the same and it is young enough.
Cached(q) ==
    apiCache # Nothing /\ apiCache.key = q.range /\ now - apiCache.stamp < CacheTTL

\* Users have an endpoint of their own, which is not cached.
ByUser(call, type) == call = "top" /\ type = "user" /\ Admin

\* getSummary, ..., getTopConsumers: the calls that are not answered from the cache.
Misses(q, calls, type) == {c \in calls : ByUser(c, type) \/ ~Cached(q)}

\* When the data of a call was asked for.
AskedAt(q, call, type) ==
    IF call \in Misses(q, {call}, type) THEN now ELSE apiCache.asked

----------------------------------------------------------------------------
(* Refreshing *)

\* What a refresh shows once all has come.
Show(r, time) ==
    /\ charts' = IF "charts" \in r.calls
                 THEN [key |-> r.query, asked |-> r.asked, began |-> r.began] ELSE charts
    /\ topConsumers' = [key |-> r.query, type |-> r.type]
    /\ IF "charts" \in r.calls
       THEN lastRefreshed' = [key |-> "at", at |-> time] /\ isStale' = "unknown"
       ELSE UNCHANGED <<lastRefreshed, isStale>>

\* A refresh of `calls' with the filters given.
Start(calls, q, type) ==
    LET awaited == Misses(q, calls, type)
        r == [n |-> refreshed, calls |-> calls, query |-> q, type |-> type, awaited |-> awaited,
              asked |-> AskedAt(q, "charts", type), began |-> now]
    IN  /\ refreshed < MaxRefreshes /\ refreshed' = refreshed + 1
        /\ fetches' = fetches \cup
               {[n |-> refreshed, call |-> c, users |-> ByUser(c, type), key |-> q.range,
                 at |-> now] : c \in awaited}
        /\ IF awaited = {}
           THEN Show(r, now) /\ UNCHANGED refreshes
           ELSE /\ refreshes' = refreshes \cup {r}
                /\ UNCHANGED <<charts, topConsumers, lastRefreshed, isStale>>
        /\ IF "charts" \in calls
           THEN fetchLoading' = (awaited # {}) /\ fetchError' = FALSE
           ELSE UNCHANGED <<fetchLoading, fetchError>>
        /\ overlapped' = (refreshes # {} \/ (overlapped /\ "charts" \notin calls))
        /\ rankingFailed' = FALSE
        /\ UNCHANGED apiCache

refresh(q, type) == Start({"charts", "top"}, q, type)
refreshTopConsumers(q, type) == Start({"top"}, q, type)

\* Mutant: the cache is stamped when the answer comes, not when it was asked for.
FetchAnsweredStampedLate(f) ==
    LET mine == {r \in refreshes : r.n = f.n}
        rest == {[r EXCEPT !.awaited = @ \ {f.call}] : r \in mine}
        done == {r \in rest : r.awaited = {}}
    IN  /\ fetches' = fetches \ {f}
        /\ apiCache' = IF f.users THEN apiCache
                       ELSE [key |-> f.key, stamp |-> now, asked |-> f.at]
        /\ refreshes' = (refreshes \ mine) \cup (rest \ done)
        /\ IF done = {} THEN UNCHANGED <<charts, topConsumers, lastRefreshed, isStale>>
           ELSE \E r \in done : Show(r, now)
        /\ fetchLoading' = (fetchLoading /\ ~\E r \in done : "charts" \in r.calls)
        /\ UNCHANGED <<client, now, selectedRange, modelCategory, consumerType, fetchError,
                       refreshed, overlapped, rankingFailed>>

\* An answer comes, and with it what was refreshed if nothing else is awaited.
FetchAnswered(f) ==
    LET mine == {r \in refreshes : r.n = f.n}
        rest == {[r EXCEPT !.awaited = @ \ {f.call}] : r \in mine}
        done == {r \in rest : r.awaited = {}}
    IN  /\ fetches' = fetches \ {f}
        /\ apiCache' = IF f.users THEN apiCache
                       ELSE [key |-> f.key, stamp |-> f.at, asked |-> f.at]
        /\ refreshes' = (refreshes \ mine) \cup (rest \ done)
        /\ IF done = {} THEN UNCHANGED <<charts, topConsumers, lastRefreshed, isStale>>
           ELSE \E r \in done : Show(r, now)
        /\ fetchLoading' = (fetchLoading /\ ~\E r \in done : "charts" \in r.calls)
        /\ UNCHANGED <<client, now, selectedRange, modelCategory, consumerType, fetchError,
                       refreshed, overlapped, rankingFailed>>

\* A failure ends its refresh; other requests of it go on.  The ranking's alone is only logged.
FetchFails(f) ==
    LET mine == {r \in refreshes : r.n = f.n}
        full == \E r \in mine : "charts" \in r.calls
    IN  /\ fetches' = fetches \ {f}
        /\ refreshes' = refreshes \ mine
        /\ fetchLoading' = (fetchLoading /\ ~full)
        /\ fetchError' = (fetchError \/ full)
        /\ rankingFailed' = (rankingFailed \/ (mine # {} /\ ~full))
        /\ UNCHANGED <<client, now, selectedRange, modelCategory, consumerType, apiCache, charts,
                       topConsumers, lastRefreshed, isStale, refreshed, overlapped>>

----------------------------------------------------------------------------
(* The dashboard: setters, the refresh and retry buttons, the timer. *)

\* The watch on effectiveDateRange refreshes; the preset selected already changes nothing.
setRange ==
    /\ client = "dashboard"
    /\ \E p \in Preset \ {selectedRange.range} : selectedRange' = presetToDateRange(p)
    /\ refresh([Query EXCEPT !.range = selectedRange'], consumerType)
    /\ UNCHANGED <<client, now, modelCategory, consumerType>>

\* Dates are taken as they are.
setCustomRange ==
    /\ client = "dashboard"
    /\ \E c \in CustomRange : selectedRange' = [range |-> c, at |-> 0]
    /\ refresh([Query EXCEPT !.range = selectedRange'], consumerType)
    /\ UNCHANGED <<client, now, modelCategory, consumerType>>

setModelCategory ==
    /\ client = "dashboard"
    /\ modelCategory' \in ModelCategory
    /\ refresh([Query EXCEPT !.category = modelCategory'], consumerType)
    /\ UNCHANGED <<client, now, selectedRange, consumerType>>

\* setSortBy does the same with the dimension that is sorted by.
setConsumerType ==
    /\ client = "dashboard"
    /\ consumerType' \in ConsumerType
    /\ refreshTopConsumers(Query, consumerType')
    /\ UNCHANGED <<client, now, selectedRange, modelCategory>>

RefreshByHand ==
    /\ client = "dashboard"
    /\ ~fetchLoading \/ fetchError
    /\ refresh(Query, consumerType)
    /\ UNCHANGED <<client, now, selectedRange, modelCategory, consumerType>>

\* Time passes.  The interval refreshes, whatever is under way.
PassTime ==
    /\ now < MaxTime /\ now' = now + 1
    /\ UNCHANGED <<client, selectedRange, modelCategory, consumerType, refreshes, fetches,
                   apiCache, charts, topConsumers, fetchLoading, fetchError, lastRefreshed,
                   isStale, refreshed, overlapped, rankingFailed>>

AutoRefresh ==
    /\ client = "dashboard"
    /\ now > 0 /\ now % RefreshEvery = 0
    /\ refresh(Query, consumerType)
    /\ UNCHANGED <<client, now, selectedRange, modelCategory, consumerType>>

----------------------------------------------------------------------------
(* The store: setters that ask for nothing, and fetchAll. *)

StoreSets ==
    /\ client = "store"
    /\ \/ selectedRange' \in {[range |-> c, at |-> 0] : c \in CustomRange} /\ UNCHANGED modelCategory
       \/ modelCategory' \in ModelCategory /\ UNCHANGED selectedRange
    /\ UNCHANGED <<client, now, consumerType, refreshes, fetches, apiCache, charts, topConsumers,
                   fetchLoading, fetchError, lastRefreshed, isStale, refreshed, overlapped,
                   rankingFailed>>

\* isStale depends on lastRefreshed alone, for time is not reactive: once read it stays.
StaleNow ==
    CASE isStale # "unknown" -> isStale
      [] lastRefreshed = Nothing -> "stale"
      [] OTHER -> IF now - lastRefreshed.at > StaleAfter THEN "stale" ELSE "fresh"

fetchAll(forceRefresh) ==
    /\ client = "store"
    /\ \/ /\ forceRefresh \/ StaleNow = "stale" \/ charts = Nothing
          /\ refresh(Query, "user")
       \/ /\ ~forceRefresh /\ StaleNow = "fresh" /\ charts # Nothing
          /\ isStale' = StaleNow
          /\ UNCHANGED <<refreshes, fetches, apiCache, charts, topConsumers, fetchLoading,
                         fetchError, lastRefreshed, refreshed, overlapped, rankingFailed>>
    /\ UNCHANGED <<client, now, selectedRange, modelCategory, consumerType>>

reset ==
    /\ client = "store"
    /\ charts' = Nothing /\ topConsumers' = Nothing /\ lastRefreshed' = Nothing
    /\ fetchError' = FALSE /\ isStale' = "unknown"
    /\ UNCHANGED <<client, now, selectedRange, modelCategory, consumerType, refreshes, fetches,
                   apiCache, fetchLoading, refreshed, overlapped, rankingFailed>>

----------------------------------------------------------------------------

\* The dashboard has just been mounted, and is about to refresh.
DashboardInit ==
    /\ client \in Client
    /\ now = 0
    /\ \E p \in Preset : selectedRange = [range |-> p, at |-> 0]
    /\ modelCategory = "all"
    /\ consumerType = "user"
    /\ refreshes = {} /\ fetches = {}
    /\ apiCache = Nothing
    /\ charts = Nothing /\ topConsumers = Nothing
    /\ fetchLoading = FALSE /\ fetchError = FALSE
    /\ lastRefreshed = Nothing /\ isStale = "unknown"
    /\ refreshed = 0 /\ overlapped = FALSE /\ rankingFailed = FALSE

DashboardNext ==
    \/ setRange \/ setCustomRange \/ setModelCategory \/ setConsumerType
    \/ RefreshByHand \/ AutoRefresh \/ PassTime
    \/ StoreSets \/ fetchAll(TRUE) \/ fetchAll(FALSE) \/ reset
    \/ \E f \in fetches : FetchAnswered(f) \/ FetchFails(f)

DashboardSpec == DashboardInit /\ [][DashboardNext]_dashboardVars

----------------------------------------------------------------------------

DashboardTypeOK ==
    /\ client \in Client /\ now \in 0 .. MaxTime
    /\ selectedRange.range \in Preset \cup CustomRange /\ selectedRange.at \in 0 .. now
    /\ modelCategory \in ModelCategory /\ consumerType \in ConsumerType
    /\ \A r \in refreshes : r.awaited # {} /\ r.awaited \subseteq r.calls
    /\ fetchLoading \in BOOLEAN /\ isStale \in {"unknown", "stale", "fresh"}
    /\ refreshed \in 0 .. MaxRefreshes

\* Once nothing is under way and nothing failed or overlapped, the cards, the charts and the
\* ranking are those of the filters that the dashboard shows as selected, whichever of them
\* were changed and in whatever order.
DashboardFollowsItsFilters ==
    (client = "dashboard" /\ refreshed > 0 /\ refreshes = {}
        /\ ~fetchError /\ ~overlapped /\ ~rankingFailed)
    => /\ charts = Nothing \/ charts.key = Query
       /\ topConsumers = [key |-> Query, type |-> consumerType]

\* What a refresh shows was asked of the backend less than the cache's time before the refresh
\* began, however slow the answer that filled the cache was.
ShownDataIsFresh ==
    charts # Nothing => charts.began - charts.asked < CacheTTL \/ charts.began = charts.asked

\* What the dashboard shows is what its filters ask for, and recent.
DashboardShowsItsQuery == DashboardFollowsItsFilters /\ ShownDataIsFresh

=============================================================================
