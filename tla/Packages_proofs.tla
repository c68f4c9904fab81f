--------------------------- MODULE Packages_proofs ---------------------------
(***************************************************************************)
(* What the packages promise, for every value of their constants: the     *)
(* usage dashboard, the playground, the design system and the brand.  Each *)
(* has its invariant, and a theorem that follows from it.  And what they   *)
(* compute: the numbers of the usage dashboard, that they add up to the    *)
(* same usage wherever it shows them; and the colours derived for a brand, *)
(* that each is of the kind it is named for.                               *)
(*                                                                         *)
(* The records of an answer are taken to pieces in several ways, by time,  *)
(* by model, by consumer.  Parts says what that means, SumByParts that     *)
(* nothing gets lost, and RoundedParts how much rounding piece by piece    *)
(* may change.  A colour is followed from its parts to its hue, the levels *)
(* of its darkest and its brightest part, and back.                        *)
(***************************************************************************)
EXTENDS UsageDashboard, QuotaTransform, Playground, DesignSystem, Brand, Palette, SetLemmas,
        SequenceTheorems, FiniteSetTheorems, TLAPS

-----------------------------------------------------------------------------
(* Usage dashboard: the filters and the cache.                             *)

Dates == [range : Preset \cup CustomRange, at : Nat]
Filters == [range : Dates, category : ModelCategory]
Refreshes ==
    [n : Nat, calls : SUBSET {"charts", "top"}, query : Filters, type : ConsumerType,
     awaited : SUBSET {"charts", "top"}, asked : Nat, began : Nat]

DashboardKinds ==
    /\ refreshed \in Nat /\ now \in Nat
    /\ selectedRange \in Dates /\ modelCategory \in ModelCategory
    /\ consumerType \in ConsumerType
    /\ refreshes \subseteq Refreshes
    /\ apiCache # Nothing => apiCache.asked \in Nat /\ apiCache.stamp = apiCache.asked
    /\ \A f \in fetches : f.at \in Nat

\* Asked for when the refresh began, or younger then than the cache's time.
Young(began, asked) == began - asked < CacheTTL \/ began = asked

YoungInv ==
    /\ charts # Nothing => Young(charts.began, charts.asked)
    /\ \A r \in refreshes : Young(r.began, r.asked)

ChartsOfQuery == charts = Nothing \/ charts.key = Query

\* Without an error or an overlap there is at most one refresh, and it is of the filters; the
\* charts are what it will not replace.
FollowInv ==
    client = "dashboard" =>
        /\ refreshed = 0 => charts = Nothing /\ refreshes = {}
        /\ refreshed > 0 /\ ~fetchError /\ ~overlapped =>
            \/ /\ refreshes = {} /\ ChartsOfQuery
               /\ ~rankingFailed => topConsumers = [key |-> Query, type |-> consumerType]
            \/ \E r : /\ refreshes = {r} /\ r.query = Query /\ r.type = consumerType
                      /\ "charts" \in r.calls \/ ChartsOfQuery

DashboardInv == DashboardKinds /\ YoungInv /\ FollowInv

LEMMA AskedAtYoung ==
    ASSUME DashboardKinds, NEW q, NEW type
    PROVE  AskedAt(q, "charts", type) \in Nat /\ Young(now, AskedAt(q, "charts", type))
BY DEF DashboardKinds, AskedAt, Misses, Cached, Young

\* What a refresh shows, once it is complete.
LEMMA Shows ==
    ASSUME NEW r, NEW time, Show(r, time), YoungInv, Young(r.began, r.asked)
    PROVE  /\ charts' # Nothing => Young(charts'.began, charts'.asked)
           /\ topConsumers' = [key |-> r.query, type |-> r.type]
           /\ "charts" \in r.calls => charts'.key = r.query
           /\ "charts" \notin r.calls => charts' = charts
BY DEF Show, YoungInv

LEMMA StartInv ==
    ASSUME DashboardAssumption, DashboardInv, UNCHANGED <<client, now>>,
           NEW asks \in SUBSET {"charts", "top"}, NEW q \in Filters, NEW type \in ConsumerType,
           Start(asks, q, type),
           selectedRange' \in Dates, modelCategory' \in ModelCategory,
           consumerType' \in ConsumerType,
           client = "dashboard" => q = Query' /\ type = consumerType',
           "charts" \in asks \/ (asks = {"top"} /\ q = Query)
    PROVE  DashboardInv'
<1>1. PICK asked : asked = AskedAt(q, "charts", type)
  OBVIOUS
<1>2. asked \in Nat /\ Young(now, asked)
  BY <1>1, AskedAtYoung DEF DashboardInv
<1>3. PICK missing : missing = Misses(q, asks, type)
  OBVIOUS
<1>4. missing \in SUBSET {"charts", "top"}
  BY <1>3 DEF Misses
<1>5. PICK r : r = [n |-> refreshed, calls |-> asks, query |-> q, type |-> type,
                    awaited |-> missing, asked |-> asked, began |-> now]
  OBVIOUS
<1>6. /\ r \in Refreshes /\ r.calls = asks /\ r.query = q /\ r.type = type
      /\ r.began = now /\ r.asked = asked
  BY <1>2, <1>4, <1>5 DEF DashboardInv, DashboardKinds, Refreshes
<1>7. /\ refreshed' = refreshed + 1 /\ rankingFailed' = FALSE /\ UNCHANGED apiCache
      /\ \A f \in fetches' : f \in fetches \/ f.at = now
      /\ "charts" \in asks => fetchError' = FALSE
      /\ "charts" \notin asks => fetchError' = fetchError
      /\ IF missing = {} THEN Show(r, now) /\ UNCHANGED refreshes
         ELSE refreshes' = refreshes \cup {r} /\ UNCHANGED <<charts, topConsumers>>
  BY <1>1, <1>3, <1>5 DEF Start
<1>8. ~overlapped' => refreshes = {} /\ ("charts" \in asks \/ ~overlapped)
  BY Zenon DEF Start
<1>9. DashboardKinds'
  BY <1>6, <1>7 DEF DashboardInv, DashboardKinds
<1>10. CASE missing = {}
  <2>1. /\ charts' # Nothing => Young(charts'.began, charts'.asked)
        /\ topConsumers' = [key |-> q, type |-> type]
        /\ "charts" \in asks => charts'.key = q
        /\ "charts" \notin asks => charts' = charts
        /\ UNCHANGED refreshes
    BY <1>2, <1>6, <1>7, <1>10, Shows DEF DashboardInv
  <2>2. YoungInv'
    BY <2>1 DEF DashboardInv, YoungInv
  <2>3. FollowInv'
    <3> SUFFICES ASSUME client = "dashboard", ~fetchError', ~overlapped'
                 PROVE  /\ refreshes' = {} /\ ChartsOfQuery'
                        /\ topConsumers' = [key |-> Query', type |-> consumerType']
      BY <1>7 DEF DashboardInv, DashboardKinds, FollowInv
    <3>1. refreshes' = {} /\ topConsumers' = [key |-> Query', type |-> consumerType']
      BY <1>8, <2>1
    <3>2. CASE "charts" \in asks
      BY <2>1, <3>1, <3>2 DEF ChartsOfQuery
    <3>3. CASE "charts" \notin asks
      <4>1. ~fetchError /\ ~overlapped /\ refreshes = {} /\ Query' = Query /\ charts' = charts
        BY <1>7, <1>8, <2>1, <3>3
      <4>2. ChartsOfQuery
        BY <4>1 DEF DashboardInv, FollowInv, DashboardKinds, ChartsOfQuery
      <4> QED BY <3>1, <4>1, <4>2 DEF ChartsOfQuery
    <3> QED BY <3>1, <3>2, <3>3
  <2> QED BY <1>9, <2>2, <2>3 DEF DashboardInv
<1>11. CASE missing # {}
  <2>1. refreshes' = refreshes \cup {r} /\ UNCHANGED <<charts, topConsumers>>
    BY <1>7, <1>11
  <2>2. YoungInv'
    BY <1>2, <1>6, <2>1 DEF DashboardInv, YoungInv
  <2>3. FollowInv'
    <3> SUFFICES ASSUME client = "dashboard", ~fetchError', ~overlapped'
                 PROVE  /\ refreshes' = {r} /\ r.query = Query' /\ r.type = consumerType'
                        /\ "charts" \in r.calls \/ ChartsOfQuery'
      BY <1>7 DEF DashboardInv, DashboardKinds, FollowInv
    <3>1. refreshes' = {r} /\ r.query = Query' /\ r.type = consumerType'
      BY <1>6, <1>8, <2>1
    <3>2. ASSUME "charts" \notin asks PROVE ChartsOfQuery'
      <4>1. ~fetchError /\ ~overlapped /\ refreshes = {} /\ Query' = Query
        BY <1>7, <1>8, <3>2
      <4>2. ChartsOfQuery
        BY <4>1 DEF DashboardInv, FollowInv, DashboardKinds, ChartsOfQuery
      <4> QED BY <2>1, <4>1, <4>2 DEF ChartsOfQuery
    <3> QED BY <1>6, <3>1, <3>2
  <2> QED BY <1>9, <2>2, <2>3 DEF DashboardInv
<1> QED BY <1>10, <1>11

LEMMA FetchAnsweredInv ==
    ASSUME DashboardInv, NEW f \in fetches, FetchAnswered(f)
    PROVE  DashboardInv'
<1> DEFINE mine == {r \in refreshes : r.n = f.n}
           rest == {[r EXCEPT !.awaited = @ \ {f.call}] : r \in mine}
           done == {r \in rest : r.awaited = {}}
<1>1. /\ UNCHANGED <<client, now, selectedRange, modelCategory, consumerType, fetchError,
                     refreshed, overlapped, rankingFailed>>
      /\ apiCache' = apiCache \/ (apiCache'.asked = f.at /\ apiCache'.stamp = f.at)
      /\ fetches' \subseteq fetches
      /\ refreshes' = (refreshes \ mine) \cup (rest \ done)
      /\ IF done = {} THEN UNCHANGED <<charts, topConsumers>>
         ELSE \E r \in done : Show(r, now)
  BY DEF FetchAnswered
<1>2. \A d \in rest : \E r \in mine :
          /\ d \in Refreshes /\ d.calls = r.calls /\ d.query = r.query /\ d.type = r.type
          /\ d.began = r.began /\ d.asked = r.asked
  <2> SUFFICES ASSUME NEW r \in mine, NEW d, d = [r EXCEPT !.awaited = @ \ {f.call}]
               PROVE  /\ d \in Refreshes /\ d.calls = r.calls /\ d.query = r.query
                      /\ d.type = r.type /\ d.began = r.began /\ d.asked = r.asked
    OBVIOUS
  <2> QED BY DEF DashboardInv, DashboardKinds, Refreshes
<1>3. mine \subseteq refreshes /\ done \subseteq rest
  OBVIOUS
<1>4. mine = {} => rest = {}
  OBVIOUS
<1>5. ASSUME NEW r, mine = {r} PROVE \E d : rest = {d}
  <2>1. rest = {[r EXCEPT !.awaited = @ \ {f.call}]}
    BY <1>5
  <2> QED BY <2>1
<1> HIDE DEF mine, rest, done
<1>6. DashboardKinds'
  BY <1>1, <1>2, <1>3 DEF DashboardInv, DashboardKinds
<1>7. \A d \in rest : Young(d.began, d.asked)
  BY <1>2, <1>3 DEF DashboardInv, YoungInv
<1>8. YoungInv'
  <2>1. charts' # Nothing => Young(charts'.began, charts'.asked)
    <3>1. CASE done = {}
      BY <1>1, <3>1 DEF DashboardInv, YoungInv
    <3>2. CASE done # {}
      <4>1. PICK d \in done : Show(d, now)
        BY <1>1, <3>2
      <4> QED BY <1>3, <1>7, <4>1, Shows DEF DashboardInv
    <3> QED BY <3>1, <3>2
  <2> QED BY <1>1, <1>7, <2>1 DEF DashboardInv, YoungInv
<1>9. Query' = Query
  BY <1>1 DEF Query
<1>10. FollowInv'
  <2>1. CASE done = {} /\ mine = {}
    BY <1>1, <1>4, <1>9, <2>1 DEF DashboardInv, FollowInv, ChartsOfQuery
  <2>2. CASE mine # {}
    <3> SUFFICES ASSUME client = "dashboard", refreshed > 0, ~fetchError, ~overlapped
                 PROVE  \/ /\ refreshes' = {} /\ ChartsOfQuery'
                           /\ topConsumers' = [key |-> Query, type |-> consumerType]
                        \/ \E r : /\ refreshes' = {r} /\ r.query = Query
                                  /\ r.type = consumerType
                                  /\ "charts" \in r.calls \/ ChartsOfQuery'
      <4>1. ASSUME client = "dashboard", refreshed = 0 PROVE refreshes = {}
        BY <4>1 DEF DashboardInv, FollowInv
      <4> QED BY <1>1, <1>3, <1>9, <2>2, <4>1 DEF DashboardInv, FollowInv
    <3>1. PICK r : /\ refreshes = {r} /\ r.query = Query /\ r.type = consumerType
                   /\ "charts" \in r.calls \/ ChartsOfQuery
      BY <1>3, <2>2 DEF DashboardInv, FollowInv
    <3>2. mine = {r}
      BY <1>3, <2>2, <3>1
    <3>3. PICK d : rest = {d}
      BY <1>5, <3>2
    <3>4. d.calls = r.calls /\ d.query = Query /\ d.type = consumerType
      BY <1>2, <3>1, <3>2, <3>3
    <3>5. CASE done = {}
      <4>1. refreshes' = {d} /\ UNCHANGED charts
        BY <1>1, <3>1, <3>2, <3>3, <3>5
      <4> QED BY <1>9, <3>1, <3>4, <4>1 DEF ChartsOfQuery
    <3>6. CASE done # {}
      <4>1. done = {d} /\ Show(d, now) /\ refreshes' = {}
        BY <1>1, <1>3, <3>1, <3>2, <3>3, <3>6
      <4>2. /\ topConsumers' = [key |-> d.query, type |-> d.type]
            /\ "charts" \in d.calls => charts'.key = d.query
            /\ "charts" \notin d.calls => charts' = charts
        BY <1>7, <3>3, <4>1, Shows DEF DashboardInv
      <4>3. ChartsOfQuery'
        BY <1>9, <3>1, <3>4, <4>2 DEF ChartsOfQuery
      <4> QED BY <3>4, <4>1, <4>2, <4>3
    <3> QED BY <3>5, <3>6
  <2> QED BY <1>3, <1>4, <2>1, <2>2
<1> QED BY <1>6, <1>8, <1>10 DEF DashboardInv

LEMMA FetchFailsInv ==
    ASSUME DashboardInv, NEW f \in fetches, FetchFails(f)
    PROVE  DashboardInv'
<1> DEFINE mine == {r \in refreshes : r.n = f.n}
           full == \E r \in mine : "charts" \in r.calls
<1>1. /\ UNCHANGED <<client, now, selectedRange, modelCategory, consumerType, apiCache, charts,
                     topConsumers, refreshed, overlapped>>
      /\ fetches' \subseteq fetches /\ refreshes' = refreshes \ mine
  BY DEF FetchFails
<1>2. ~fetchError' => ~fetchError /\ ~full
  BY Zenon DEF FetchFails
<1>3. ~rankingFailed' => ~rankingFailed /\ (mine = {} \/ full)
  BY Zenon DEF FetchFails
<1>4. mine \subseteq refreshes
  OBVIOUS
<1>5. Query' = Query
  BY <1>1 DEF Query
<1>6. DashboardKinds' /\ YoungInv'
  BY <1>1 DEF DashboardInv, DashboardKinds, YoungInv
<1>7. FollowInv'
  <2> SUFFICES ASSUME client = "dashboard", refreshed > 0, ~fetchError', ~overlapped
               PROVE  \/ /\ refreshes' = {} /\ ChartsOfQuery
                         /\ ~rankingFailed' =>
                                topConsumers = [key |-> Query, type |-> consumerType]
                      \/ \E r : /\ refreshes' = {r} /\ r.query = Query
                                /\ r.type = consumerType
                                /\ "charts" \in r.calls \/ ChartsOfQuery
    BY <1>1, <1>5 DEF DashboardInv, FollowInv, ChartsOfQuery
  <2>1. \A r \in mine : "charts" \notin r.calls
    BY <1>2
  <2> HIDE DEF mine
  <2>2. CASE mine = {}
    BY <1>1, <1>2, <1>3, <2>2 DEF DashboardInv, FollowInv
  <2>3. CASE mine # {}
    <3>1. PICK r : /\ refreshes = {r} /\ r.query = Query /\ r.type = consumerType
                   /\ "charts" \in r.calls \/ ChartsOfQuery
      BY <1>2, <1>4, <2>3 DEF DashboardInv, FollowInv
    <3>2. mine = {r}
      BY <1>4, <2>3, <3>1
    <3> QED BY <1>1, <1>3, <2>1, <2>3, <3>1, <3>2
  <2> QED BY <2>2, <2>3
<1> QED BY <1>6, <1>7 DEF DashboardInv

LEMMA DashboardStep ==
    ASSUME DashboardAssumption, DashboardInv, [DashboardNext]_dashboardVars
    PROVE  DashboardInv'
<1>1. Query \in Filters /\ Query = [range |-> selectedRange, category |-> modelCategory]
  BY DEF DashboardInv, DashboardKinds, Query, Filters
<1>2. "charts" \in {"charts", "top"} /\ {"charts", "top"} \in SUBSET {"charts", "top"}
  OBVIOUS
<1>3. CASE setRange \/ setCustomRange
  <2>1. selectedRange' \in Dates
    BY <1>3 DEF setRange, setCustomRange, presetToDateRange, Dates, DashboardInv, DashboardKinds
  <2>2. /\ Start({"charts", "top"}, [Query EXCEPT !.range = selectedRange'], consumerType)
        /\ UNCHANGED <<client, now, modelCategory, consumerType>>
    BY <1>3 DEF setRange, setCustomRange, refresh
  <2>3. /\ [Query EXCEPT !.range = selectedRange'] = Query'
        /\ Query' \in Filters
    BY <1>1, <2>1, <2>2 DEF Query, Filters, DashboardInv, DashboardKinds
  <2> QED BY <1>2, <2>1, <2>2, <2>3, StartInv DEF DashboardInv, DashboardKinds
<1>4. CASE setModelCategory
  <2>1. /\ Start({"charts", "top"}, [Query EXCEPT !.category = modelCategory'], consumerType)
        /\ UNCHANGED <<client, now, selectedRange, consumerType>>
        /\ modelCategory' \in ModelCategory
    BY <1>4 DEF setModelCategory, refresh
  <2>2. /\ [Query EXCEPT !.category = modelCategory'] = Query'
        /\ Query' \in Filters
    BY <1>1, <2>1 DEF Query, Filters, DashboardInv, DashboardKinds
  <2> QED BY <1>2, <2>1, <2>2, StartInv DEF DashboardInv, DashboardKinds
<1>5. CASE setConsumerType
  <2>1. /\ Start({"top"}, Query, consumerType')
        /\ UNCHANGED <<client, now, selectedRange, modelCategory>>
        /\ consumerType' \in ConsumerType /\ {"top"} \in SUBSET {"charts", "top"}
    BY <1>5 DEF setConsumerType, refreshTopConsumers
  <2>2. Query' = Query
    BY <2>1 DEF Query
  <2> QED BY <1>1, <2>1, <2>2, StartInv DEF DashboardInv, DashboardKinds
<1>6. CASE RefreshByHand \/ AutoRefresh
  <2>1. /\ Start({"charts", "top"}, Query, consumerType)
        /\ UNCHANGED <<client, now, selectedRange, modelCategory, consumerType>>
    BY <1>6 DEF RefreshByHand, AutoRefresh, refresh
  <2>2. Query' = Query
    BY <2>1 DEF Query
  <2> QED BY <1>1, <1>2, <2>1, <2>2, StartInv DEF DashboardInv, DashboardKinds
<1>7. CASE PassTime \/ UNCHANGED dashboardVars
  <2>1. /\ UNCHANGED <<client, selectedRange, modelCategory, consumerType, refreshes, fetches,
                       apiCache, charts, topConsumers, fetchError, refreshed, overlapped,
                       rankingFailed>>
        /\ now' \in Nat
    BY <1>7 DEF PassTime, dashboardVars, DashboardInv, DashboardKinds
  <2>2. DashboardKinds' /\ YoungInv'
    BY <2>1 DEF DashboardInv, DashboardKinds, YoungInv
  <2>3. FollowInv'
    BY <2>1 DEF DashboardInv, FollowInv, ChartsOfQuery, Query
  <2> QED BY <2>2, <2>3 DEF DashboardInv
<1>8. CASE StoreSets
  <2>1. /\ UNCHANGED <<client, now, consumerType, refreshes, fetches, apiCache, charts,
                       refreshed>>
        /\ client = "store" /\ selectedRange' \in Dates /\ modelCategory' \in ModelCategory
    BY <1>8 DEF StoreSets, Dates, DashboardInv, DashboardKinds
  <2> QED BY <2>1 DEF DashboardInv, DashboardKinds, YoungInv, FollowInv
<1>9. ASSUME NEW force, fetchAll(force) PROVE DashboardInv'
  <2>1. /\ UNCHANGED <<client, now, selectedRange, modelCategory, consumerType>>
        /\ client = "store"
    BY <1>9 DEF fetchAll
  <2>2. CASE Start({"charts", "top"}, Query, "user")
    BY <1>1, <1>2, <2>1, <2>2, StartInv DEF DashboardInv, DashboardKinds, DashboardAssumption
  <2>3. CASE UNCHANGED <<refreshes, fetches, apiCache, charts, refreshed>>
    BY <2>1, <2>3 DEF DashboardInv, DashboardKinds, YoungInv, FollowInv
  <2> QED BY <1>9, <2>2, <2>3 DEF fetchAll, refresh
<1>10. CASE reset
  BY <1>10 DEF reset, DashboardInv, DashboardKinds, YoungInv, FollowInv
<1>11. ASSUME NEW f \in fetches, FetchAnswered(f) \/ FetchFails(f) PROVE DashboardInv'
  BY <1>11, FetchAnsweredInv, FetchFailsInv
<1> QED BY <1>3, <1>4, <1>5, <1>6, <1>7, <1>8, <1>9, <1>10, <1>11 DEF DashboardNext

LEMMA DashboardInvariant == DashboardSpec => []DashboardInv
<1>1. DashboardInit => DashboardInv
  BY DashboardAssumption DEF DashboardInit, DashboardInv, DashboardKinds, YoungInv, FollowInv,
     Dates, DashboardAssumption
<1>2. DashboardInv /\ [DashboardNext]_dashboardVars => DashboardInv'
  BY DashboardStep, DashboardAssumption
<1> QED BY <1>1, <1>2, PTL DEF DashboardSpec

\* For any ranges, categories, times and refreshes, by hand or by timer, and responses in any
\* order: once nothing is under way the dashboard shows its filters' data, and what it shows was
\* asked for less than the cache's time before its refresh (refresh, fetchModelData).
THEOREM FiltersAreShown == DashboardSpec => []DashboardShowsItsQuery
<1>1. DashboardInv => DashboardShowsItsQuery
  BY DEF DashboardInv, DashboardKinds, YoungInv, Young, FollowInv, ChartsOfQuery,
     DashboardShowsItsQuery, DashboardFollowsItsFilters, ShownDataIsFresh
<1> QED BY <1>1, DashboardInvariant, PTL

-----------------------------------------------------------------------------
(* Playground: one call is under way and Cancel aborts it, or none is.     *)

Busy == {"sending", "streaming"}

\* No call is under way, and what is shown is of the last one.
Settled ==
    /\ sends = {} /\ state \notin Busy
    /\ response # NoCall => streamBuffer \subseteq {response}

\* One call is under way: the one of Cancel, to the endpoint selected.
UnderWay ==
    \E c \in sends :
        /\ sends = {c} /\ state \in Busy
        /\ c.n = abortController /\ c.endpoint = selectedEndpoint
        /\ response = NoCall /\ streamBuffer \subseteq {c.n}

PanelInv == strayed \/ Settled \/ UnderWay

LEMMA InvShowsItsCall == PanelInv => PanelShowsItsCall
<1> SUFFICES ASSUME PanelInv, ~strayed PROVE PanelShowsItsCall
  BY DEF PanelShowsItsCall
<1>1. CASE Settled
  <2>1. Cardinality(sends) = 0
    BY <1>1, FS_EmptySet DEF Settled
  <2> QED BY <1>1, <2>1 DEF Settled, Busy, PanelShowsItsCall
<1>2. CASE UnderWay
  <2>1. PICK c \in sends :
            /\ sends = {c} /\ state \in Busy
            /\ c.n = abortController /\ c.endpoint = selectedEndpoint
            /\ response = NoCall /\ streamBuffer \subseteq {c.n}
    BY <1>2 DEF UnderWay
  <2>2. Cardinality(sends) = 1
    BY <2>1, FS_Singleton
  <2> QED BY <2>1, <2>2 DEF Busy, PanelShowsItsCall
<1> QED BY <1>1, <1>2 DEF PanelInv

LEMMA PanelInit == PlaygroundInit => PanelInv
BY DEF PlaygroundInit, PanelInv, Settled, Busy

\* The panel is as it was, or it has left a call behind, or it starts afresh.
LEMMA ShowKeepsPanel ==
    ASSUME PanelInv, NEW e, ShowEndpoint(e) \/ ShowNoEndpoint
    PROVE  PanelInv'
<1>1. CASE ShowEndpoint(e) /\ e = selectedEndpoint
  BY <1>1 DEF ShowEndpoint, PanelInv, Settled, UnderWay
<1>2. CASE ShowEndpoint(e) /\ e # selectedEndpoint
  <2>1. CASE strayed \/ sends # {}
    BY <1>2, <2>1 DEF ShowEndpoint, PanelInv
  <2>2. CASE sends = {}
    BY <1>2, <2>2 DEF ShowEndpoint, PanelInv, Settled, Busy
  <2> QED BY <2>1, <2>2
<1>3. CASE ShowNoEndpoint
  BY <1>3 DEF ShowNoEndpoint, PanelInv, Settled, Busy
<1> QED BY <1>1, <1>2, <1>3

LEMMA ModeKeepsPanel == ASSUME PanelInv, setMode PROVE PanelInv'
<1>1. \E e : ShowEndpoint(e) \/ ShowNoEndpoint
  BY DEF setMode
<1> QED BY <1>1, ShowKeepsPanel

LEMMA SelectKeepsPanel == ASSUME PanelInv, selectEndpoint PROVE PanelInv'
<1>1. \E e : ShowEndpoint(e)
  BY DEF selectEndpoint
<1> QED BY <1>1, ShowKeepsPanel

\* The button is offered while no call is under way, so a call sent is the only one.
LEMMA SendKeepsPanel == ASSUME PanelInv, send PROVE PanelInv'
<1> DEFINE call == [n |-> sendCount', endpoint |-> selectedEndpoint, streams |-> FALSE]
<1>1. CASE strayed /\ sends # {}
  BY <1>1 DEF send, PanelInv
<1>2. CASE sends = {}
  <2>1. sends' = {call}
    BY <1>2 DEF send
  <2>2. /\ state' \in Busy /\ call.n = abortController' /\ call.endpoint = selectedEndpoint'
        /\ response' = NoCall /\ streamBuffer' \subseteq {call.n}
    BY DEF send, Busy
  <2> QED BY <2>1, <2>2 DEF PanelInv, UnderWay
<1>3. CASE ~strayed /\ sends # {}
  <2>1. state \in Busy
    BY <1>3 DEF PanelInv, Settled, UnderWay
  <2> QED BY <2>1 DEF send, SendOffered, Busy
<1> QED BY <1>1, <1>2, <1>3

\* What is aborted is the call under way, and then none is.
LEMMA AbortSettles ==
    ASSUME PanelInv, ~strayed, Abort
    PROVE  sends' = {} /\ state' \notin Busy
<1>1. state' \notin Busy
  BY DEF Abort, Busy
<1>2. sends' = {}
  BY DEF Abort, PanelInv, Settled, UnderWay
<1> QED BY <1>1, <1>2

LEMMA CancelKeepsPanel == ASSUME PanelInv, cancel PROVE PanelInv'
<1>1. CASE strayed
  BY <1>1 DEF cancel, PanelInv
<1>2. CASE ~strayed
  <2>1. Abort /\ UNCHANGED <<response, streamBuffer>> /\ state \in Busy
    BY DEF cancel, Busy
  <2>2. sends' = {} /\ state' \notin Busy
    BY <1>2, <2>1, AbortSettles
  <2>3. response = NoCall
    BY <1>2, <2>1 DEF PanelInv, Settled, UnderWay
  <2> QED BY <2>1, <2>2, <2>3 DEF PanelInv, Settled
<1> QED BY <1>1, <1>2

LEMMA ResetKeepsPanel == ASSUME PanelInv, resetPlayground PROVE PanelInv'
<1>1. CASE strayed
  BY <1>1 DEF resetPlayground, PanelInv
<1>2. CASE ~strayed
  <2>1. Abort /\ response' = NoCall
    BY DEF resetPlayground
  <2>2. sends' = {} /\ state' \notin Busy
    BY <1>2, <2>1, AbortSettles
  <2> QED BY <2>1, <2>2 DEF PanelInv, Settled
<1> QED BY <1>1, <1>2

\* A call under way that is heard of is the one shown.
LEMMA CallKeepsPanel ==
    ASSUME PanelInv, NEW c \in sends, StreamStarts(c) \/ ChunkComes(c) \/ CallEnds(c)
    PROVE  PanelInv'
<1>1. UNCHANGED strayed
  BY DEF StreamStarts, ChunkComes, CallEnds
<1>2. CASE strayed
  BY <1>1, <1>2 DEF PanelInv
<1>3. CASE ~strayed
  <2>1. /\ sends = {c} /\ state \in Busy
        /\ c.n = abortController /\ c.endpoint = selectedEndpoint
        /\ response = NoCall /\ streamBuffer \subseteq {c.n}
    BY <1>3 DEF PanelInv, Settled, UnderWay
  <2>2. CASE StreamStarts(c)
    <3> DEFINE d == [c EXCEPT !.streams = TRUE]
    <3>1. sends' = {d} /\ state' \in Busy
      BY <2>1, <2>2 DEF StreamStarts, Busy
    <3>2. UNCHANGED <<abortController, selectedEndpoint, response, streamBuffer>>
      BY <2>2 DEF StreamStarts
    <3>3. d.n = c.n /\ d.endpoint = c.endpoint
      OBVIOUS
    <3> QED BY <2>1, <3>1, <3>2, <3>3 DEF PanelInv, UnderWay
  <2>3. CASE ChunkComes(c)
    <3>1. streamBuffer' \subseteq {c.n}
      BY <2>1, <2>3 DEF ChunkComes
    <3>2. UNCHANGED <<sends, state, abortController, selectedEndpoint, response>>
      BY <2>3 DEF ChunkComes
    <3> QED BY <2>1, <3>1, <3>2 DEF PanelInv, UnderWay
  <2>4. CASE CallEnds(c)
    <3>1. sends' = {} /\ state' \notin Busy /\ response' = c.n /\ streamBuffer' = streamBuffer
      BY <2>1, <2>4 DEF CallEnds, Busy
    <3> QED BY <2>1, <3>1 DEF PanelInv, Settled
  <2> QED BY <2>2, <2>3, <2>4
<1> QED BY <1>2, <1>3

LEMMA PanelStep == PanelInv /\ [PlaygroundNext]_playgroundVars => PanelInv'
<1> SUFFICES ASSUME PanelInv, [PlaygroundNext]_playgroundVars PROVE PanelInv'
  OBVIOUS
<1>1. CASE setMode
  BY <1>1, ModeKeepsPanel
<1>2. CASE selectEndpoint
  BY <1>2, SelectKeepsPanel
<1>3. CASE TypeQuery
  BY <1>3 DEF TypeQuery, PanelInv, Settled, UnderWay
<1>4. CASE send
  BY <1>4, SendKeepsPanel
<1>5. CASE cancel
  BY <1>5, CancelKeepsPanel
<1>6. CASE resetPlayground
  BY <1>6, ResetKeepsPanel
<1>7. CASE \E c \in sends : StreamStarts(c) \/ ChunkComes(c) \/ CallEnds(c)
  BY <1>7, CallKeepsPanel
<1>8. CASE UNCHANGED playgroundVars
  BY <1>8 DEF playgroundVars, PanelInv, Settled, UnderWay
<1> QED BY <1>1, <1>2, <1>3, <1>4, <1>5, <1>6, <1>7, <1>8 DEF PlaygroundNext

\* Where no change of endpoint left a call behind, one call at a time is under way, Cancel aborts
\* it, the panel says so, and only its chunks are shown (use-playground.ts, PlaygroundPanel.vue).
THEOREM PlaygroundShowsItsCall == PlaygroundSpec => []PanelShowsItsCall
<1>1. PlaygroundSpec => []PanelInv
  BY PanelInit, PanelStep, PTL DEF PlaygroundSpec
<1> QED BY <1>1, InvShowsItsCall, PTL

-----------------------------------------------------------------------------
(* Design system: what it does to the page undoes itself.                  *)

----------------------------------------------------------------------------
(* Modals *)

\* Modals are open once each, and each has a place for what it found.
OpenOnce ==
    /\ openModals \in Seq(1 .. Modals)
    /\ \A i, j \in 1 .. Len(openModals) : openModals[i] = openModals[j] => i = j
    /\ DOMAIN previous = 1 .. Modals

\* Modals closed in the reverse order of opening are a stack: the lowest found the page unlocked,
\* every other one found it locked.
Stacked ==
    /\ \A i \in 1 .. Len(openModals) :
           /\ i = 1 => previous[openModals[i]] = ""
           /\ i # 1 => previous[openModals[i]] = "hidden"
    /\ Len(openModals) = 0 => overflow = ""
    /\ Len(openModals) # 0 => overflow = "hidden"

ScrollInv ==
    /\ kind \in {"useModal", "LnModal"}
    /\ OpenOnce
    /\ (kind = "useModal" => (disordered \/ Stacked))
    /\ (kind = "LnModal" => (Len(openModals) = 0 => overflow = ""))

LEMMA StackedLocks == ScrollInv => ModalsLockTheScroll
<1> SUFFICES ASSUME ScrollInv PROVE ModalsLockTheScroll
  OBVIOUS
<1>1. (openModals = <<>>) <=> (Len(openModals) = 0)
  BY EmptySeq, LenProperties DEF ScrollInv, OpenOnce
<1>2. CASE kind = "useModal"
  <2>1. Stacked => ModalsLockTheScroll
    BY <1>1, <1>2 DEF Stacked, ModalsLockTheScroll
  <2>2. disordered => ModalsLockTheScroll
    BY <1>2 DEF ModalsLockTheScroll
  <2> QED BY <1>2, <2>1, <2>2 DEF ScrollInv
<1>3. CASE kind = "LnModal"
  BY <1>1, <1>3 DEF ScrollInv, ModalsLockTheScroll
<1> QED BY <1>2, <1>3 DEF ScrollInv

LEMMA ScrollInit == DesignInit => ScrollInv
<1> SUFFICES ASSUME DesignInit PROVE ScrollInv
  OBVIOUS
<1>1. kind \in {"useModal", "LnModal"} /\ openModals = <<>> /\ overflow = ""
  BY DEF DesignInit
<1>2. Len(openModals) = 0 /\ openModals \in Seq(1 .. Modals)
  BY <1>1, EmptySeq
<1>3. DOMAIN previous = 1 .. Modals
  BY DEF DesignInit
<1>4. OpenOnce
  BY <1>2, <1>3 DEF OpenOnce
<1>5. Stacked
  <2>1. overflow = ""
    BY <1>1
  <2>2. Len(openModals) = 0 /\ 1 .. Len(openModals) = {}
    BY <1>2
  <2> QED BY <2>1, <2>2 DEF Stacked
<1> QED BY <1>1, <1>4, <1>5 DEF ScrollInv

\* A modal opened last is the top of the stack.
LEMMA OpenKeepsStack ==
    ASSUME ScrollInv, NEW m \in 1 .. Modals, OpenModal(m)
    PROVE  ScrollInv'
<1> DEFINE n == Len(openModals)
<1>1. /\ openModals \in Seq(1 .. Modals) /\ DOMAIN previous = 1 .. Modals /\ n \in Nat
      /\ \A i, j \in 1 .. n : openModals[i] = openModals[j] => i = j
      /\ \A i \in 1 .. n : openModals[i] \in 1 .. Modals
  BY LenProperties, ElementOfSeq DEF ScrollInv, OpenOnce
<1>2. openModals' = Append(openModals, m) /\ overflow' = "hidden" /\ UNCHANGED <<kind, disordered>>
  BY DEF OpenModal
<1>3. \A i \in 1 .. n : openModals[i] # m
  BY DEF OpenModal, Contains
<1>4. /\ openModals' \in Seq(1 .. Modals) /\ Len(openModals') = n + 1
      /\ \A i \in 1 .. n : openModals'[i] = openModals[i]
      /\ openModals'[n + 1] = m
  BY <1>1, <1>2, AppendProperties
<1>5. /\ DOMAIN previous' = 1 .. Modals
      /\ kind = "useModal" =>
            /\ previous'[m] = overflow
            /\ \A x \in 1 .. Modals : x # m => previous'[x] = previous[x]
  BY <1>1 DEF OpenModal
<1>6. OpenOnce'
  <2>1. ASSUME NEW i \in 1 .. n + 1, NEW j \in 1 .. n + 1, openModals'[i] = openModals'[j]
        PROVE  i = j
    <3>1. CASE i \in 1 .. n /\ j \in 1 .. n
      BY <1>1, <1>4, <2>1, <3>1
    <3>2. CASE i = n + 1 /\ j \in 1 .. n
      BY <1>3, <1>4, <2>1, <3>2
    <3>3. CASE i \in 1 .. n /\ j = n + 1
      BY <1>3, <1>4, <2>1, <3>3
    <3>4. CASE i = n + 1 /\ j = n + 1
      BY <3>4
    <3>5. (i \in 1 .. n \/ i = n + 1) /\ (j \in 1 .. n \/ j = n + 1)
      BY <1>1
    <3> QED BY <3>1, <3>2, <3>3, <3>4, <3>5
  <2> QED BY <1>4, <1>5, <2>1 DEF OpenOnce
<1>7. ASSUME kind = "useModal", Stacked PROVE Stacked'
  <2>1. ASSUME NEW i \in 1 .. n + 1
        PROVE  /\ i = 1 => previous'[openModals'[i]] = ""
               /\ i # 1 => previous'[openModals'[i]] = "hidden"
    <3>1. CASE i = n + 1
      <4>1. previous'[openModals'[i]] = overflow
        BY <1>4, <1>5, <1>7, <3>1
      <4>2. /\ i = 1 => n = 0
            /\ i # 1 => n # 0
        BY <1>1, <3>1
      <4> QED BY <1>7, <4>1, <4>2 DEF Stacked
    <3>2. CASE i \in 1 .. n
      <4>1. previous'[openModals'[i]] = previous[openModals[i]]
        BY <1>1, <1>3, <1>4, <1>5, <1>7, <3>2
      <4> QED BY <1>7, <3>2, <4>1 DEF Stacked
    <3>3. i \in 1 .. n \/ i = n + 1
      BY <1>1
    <3> QED BY <3>1, <3>2, <3>3
  <2>2. Len(openModals') # 0
    BY <1>1, <1>4
  <2> QED BY <1>2, <1>4, <2>1, <2>2 DEF Stacked
<1>8. Len(openModals') # 0
  BY <1>1, <1>4
<1>9. kind = "useModal" => (disordered' \/ Stacked')
  BY <1>2, <1>7 DEF ScrollInv
<1> QED BY <1>2, <1>6, <1>8, <1>9 DEF ScrollInv

\* What is left of a sequence without its i-th element.
LEMMA RemoveAtIs ==
    ASSUME NEW S, NEW s \in Seq(S), NEW i \in 1 .. Len(s)
    PROVE  /\ RemoveAt(s, i) \in Seq(S)
           /\ Len(RemoveAt(s, i)) = Len(s) - 1
           /\ \A j \in 1 .. Len(s) - 1 :
                  RemoveAt(s, i)[j] = IF j < i THEN s[j] ELSE s[j + 1]
<1> DEFINE n == Len(s)
           a == SubSeq(s, 1, i - 1)
           b == SubSeq(s, i + 1, n)
<1>1. n \in Nat /\ i \in Nat /\ \A j \in 1 .. n : s[j] \in S
  BY LenProperties, ElementOfSeq
<1>2. /\ a \in Seq(S) /\ Len(a) = i - 1
      /\ \A j \in 1 .. i - 1 : a[j] = s[j]
  <2>1. /\ a \in Seq(S)
        /\ Len(a) = IF 1 <= i - 1 THEN (i - 1) - 1 + 1 ELSE 0
        /\ \A j \in 1 .. (i - 1) - 1 + 1 : a[j] = s[1 + j - 1]
    <3>1. i - 1 \in Int /\ \A j \in 1 .. i - 1 : s[j] \in S
      BY <1>1
    <3> HIDE DEF n
    <3> QED BY <3>1, SubSeqProperties
  <2> QED BY <1>1, <2>1
<1>3. /\ b \in Seq(S) /\ Len(b) = n - i
      /\ \A j \in 1 .. n - i : b[j] = s[i + j]
  <2>1. /\ b \in Seq(S)
        /\ Len(b) = IF i + 1 <= n THEN n - (i + 1) + 1 ELSE 0
        /\ \A j \in 1 .. n - (i + 1) + 1 : b[j] = s[(i + 1) + j - 1]
    <3>1. i + 1 \in Int /\ n \in Int /\ \A j \in i + 1 .. n : s[j] \in S
      BY <1>1
    <3> HIDE DEF n
    <3> QED BY <3>1, SubSeqProperties
  <2> QED BY <1>1, <2>1
<1> HIDE DEF a, b
<1>4. /\ a \o b \in Seq(S) /\ Len(a \o b) = Len(a) + Len(b)
      /\ \A j \in 1 .. Len(a) + Len(b) :
            (a \o b)[j] = IF j <= Len(a) THEN a[j] ELSE b[j - Len(a)]
  BY <1>2, <1>3, ConcatProperties
<1>5. Len(a) + Len(b) = n - 1
  BY <1>1, <1>2, <1>3
<1>6. ASSUME NEW j \in 1 .. n - 1
      PROVE  (a \o b)[j] = IF j < i THEN s[j] ELSE s[j + 1]
  <2>1. CASE j < i
    BY <1>1, <1>2, <1>4, <1>5, <2>1
  <2>2. CASE ~(j < i)
    <3>1. j - (i - 1) \in 1 .. n - i /\ i + (j - (i - 1)) = j + 1 /\ ~(j <= i - 1)
      BY <1>1, <2>2
    <3>2. (a \o b)[j] = b[j - (i - 1)]
      BY <1>2, <1>4, <1>5, <3>1
    <3>3. b[j - (i - 1)] = s[i + (j - (i - 1))]
      BY <1>3, <3>1
    <3> QED BY <2>2, <3>1, <3>2, <3>3
  <2> QED BY <2>1, <2>2
<1>7. RemoveAt(s, i) = a \o b
  BY DEF RemoveAt, a, b
<1> QED BY <1>4, <1>5, <1>6, <1>7

\* The top of the stack puts back what it found.
LEMMA CloseKeepsStack ==
    ASSUME ScrollInv, CloseModal
    PROVE  ScrollInv'
<1> DEFINE n == Len(openModals)
<1>1. /\ openModals \in Seq(1 .. Modals) /\ n \in Nat /\ DOMAIN openModals = 1 .. n
      /\ \A i, j \in 1 .. n : openModals[i] = openModals[j] => i = j
  BY ZenonT(60), LenProperties DEF ScrollInv, OpenOnce
<1>2. PICK i \in 1 .. n :
        /\ openModals' = RemoveAt(openModals, i)
        /\ overflow' = Unlocked(openModals[i])
        /\ disordered' = (disordered \/ i # n)
  BY <1>1 DEF CloseModal
<1>3. UNCHANGED <<kind, previous>>
  BY Zenon DEF CloseModal
<1>4. /\ openModals' \in Seq(1 .. Modals) /\ Len(openModals') = n - 1
      /\ \A j \in 1 .. n - 1 :
             openModals'[j] = IF j < i THEN openModals[j] ELSE openModals[j + 1]
  BY ZenonT(60), <1>1, <1>2, RemoveAtIs
<1>5. OpenOnce'
  <2>1. ASSUME NEW j \in 1 .. n - 1, NEW k \in 1 .. n - 1, openModals'[j] = openModals'[k]
        PROVE  j = k
    <3> DEFINE from(x) == IF x < i THEN x ELSE x + 1
    <3>1. from(j) \in 1 .. n /\ from(k) \in 1 .. n
      BY <1>1
    <3>2. openModals'[j] = openModals[from(j)] /\ openModals'[k] = openModals[from(k)]
      BY <1>4
    <3>3. from(j) = from(k)
      BY <1>1, <2>1, <3>1, <3>2
    <3> QED BY <3>3
  <2>2. DOMAIN previous' = 1 .. Modals
    BY <1>3 DEF ScrollInv, OpenOnce
  <2> QED BY <1>4, <2>1, <2>2 DEF OpenOnce
<1>6. ASSUME kind = "useModal", Stacked, i = n PROVE Stacked'
  <2>1. overflow' = previous[openModals[n]]
    BY <1>2, <1>6 DEF Unlocked
  <2>2. ASSUME NEW j \in 1 .. n - 1
        PROVE  /\ j = 1 => previous'[openModals'[j]] = ""
               /\ j # 1 => previous'[openModals'[j]] = "hidden"
    <3>1. j \in 1 .. n /\ openModals'[j] = openModals[j]
      BY <1>1, <1>4, <1>6
    <3> QED BY <1>3, <1>6, <3>1 DEF Stacked
  <2>3. /\ n - 1 = 0 => overflow' = ""
        /\ n - 1 # 0 => overflow' = "hidden"
    <3>1. n \in 1 .. n
      BY <1>1
    <3>2. /\ n = 1 => previous[openModals[n]] = ""
          /\ n # 1 => previous[openModals[n]] = "hidden"
      BY <1>6, <3>1 DEF Stacked
    <3>3. n - 1 = 0 <=> n = 1
      BY <1>1
    <3> QED BY <2>1, <3>2, <3>3
  <2> QED BY <1>4, <2>2, <2>3 DEF Stacked
<1>7. kind = "useModal" => (disordered' \/ Stacked')
  BY <1>2, <1>6 DEF ScrollInv
<1>8. kind = "LnModal" => overflow' = ""
  BY <1>2 DEF Unlocked
<1> QED BY <1>3, <1>5, <1>7, <1>8 DEF ScrollInv

\* Escape keeps the stack only where it closes a single modal.
LEMMA EscapeKeepsStack ==
    ASSUME ScrollInv, Escape
    PROVE  ScrollInv'
<1> DEFINE n == Len(openModals)
<1>1. /\ openModals \in Seq(1 .. Modals) /\ n \in Nat /\ DOMAIN openModals = 1 .. n
      /\ \A i \in 1 .. n : openModals[i] \in 1 .. Modals
  BY LenProperties, ElementOfSeq DEF ScrollInv, OpenOnce
<1>2. n # 0
  BY <1>1, EmptySeq DEF Escape
<1>3. openModals' \in Seq(1 .. Modals) /\ Len(openModals') = 0
  BY EmptySeq DEF Escape
<1>4. UNCHANGED <<kind, previous>> /\ overflow' = Unlocked(Max(ToSet(openModals)))
  BY DEF Escape
<1>5. disordered' = (disordered \/ n > 1)
  BY DEF Escape
<1>6. OpenOnce'
  <2>1. 1 .. Len(openModals') = {}
    BY <1>3
  <2>2. DOMAIN previous' = 1 .. Modals
    BY <1>4 DEF ScrollInv, OpenOnce
  <2> QED BY <1>3, <2>1, <2>2 DEF OpenOnce
<1>7. ASSUME kind = "useModal", Stacked, ~(n > 1) PROVE Stacked'
  <2>1. n = 1
    BY <1>1, <1>2, <1>7
  <2>2. openModals[1] \in 1 .. Modals
    BY <1>1, <2>1
  <2>3. ToSet(openModals) = {openModals[1]}
    BY <1>1, <2>1 DEF ToSet
  <2>4. Max(ToSet(openModals)) = openModals[1]
    <3>1. Max({openModals[1]}) = openModals[1]
      BY <2>2 DEF Max
    <3> QED BY <2>3, <3>1
  <2>5. overflow' = previous[openModals[1]]
    BY <1>4, <1>7, <2>4 DEF Unlocked
  <2>6. previous[openModals[1]] = ""
    <3>1. 1 \in 1 .. n
      BY <2>1
    <3> QED BY <1>7, <3>1 DEF Stacked
  <2>7. Len(openModals') = 0 /\ 1 .. Len(openModals') = {}
    BY <1>3
  <2> QED BY <2>5, <2>6, <2>7 DEF Stacked
<1>8. kind = "useModal" => (disordered' \/ Stacked')
  BY <1>5, <1>7 DEF ScrollInv
<1>9. kind = "LnModal" => overflow' = ""
  BY <1>4 DEF Unlocked
<1> QED BY <1>4, <1>6, <1>8, <1>9 DEF ScrollInv

\* An LnModal that is not open is unmounted: no modal of useModal is there to be unlocked.
LEMMA UnmountKeepsStack ==
    ASSUME ScrollInv, NEW m \in 1 .. Modals, UnmountModal(m)
    PROVE  ScrollInv'
<1>1. kind = "LnModal" /\ UNCHANGED <<kind, openModals, previous>> /\ overflow' = ""
  BY DEF UnmountModal
<1> QED BY <1>1 DEF ScrollInv, OpenOnce

LEMMA OthersKeepStack ==
    ASSUME ScrollInv, UNCHANGED <<kind, modalVars>>
    PROVE  ScrollInv'
<1>1. OpenOnce'
  BY DEF ScrollInv, OpenOnce, modalVars
<1>2. (disordered \/ Stacked) => (disordered' \/ Stacked')
  <2>1. Stacked => Stacked'
    BY DEF Stacked, modalVars
  <2> QED BY <2>1 DEF modalVars
<1> QED BY <1>1, <1>2 DEF ScrollInv, modalVars

----------------------------------------------------------------------------
(* Toasts and the theme *)

KeptApart == TimersHaveTheirToasts /\ PageHasTheTheme

LEMMA ApartInit == DesignInit => KeptApart
<1> SUFFICES ASSUME DesignInit PROVE KeptApart
  OBVIOUS
<1>1. TimersHaveTheirToasts
  <2>1. timers = <<>>
    BY DEF DesignInit
  <2>2. DOMAIN timers = {}
    BY <2>1
  <2> QED BY <2>2 DEF TimersHaveTheirToasts
<1>2. MountedThemes = {}
  BY DEF DesignInit, MountedThemes
<1> QED BY <1>1, <1>2 DEF PageHasTheTheme, KeptApart

ModalNext ==
    \/ \E m \in 1 .. Modals : OpenModal(m) \/ UnmountModal(m)
    \/ CloseModal \/ Escape

ToastNext == addToast \/ Dismiss \/ TimerFires \/ clear \/ SecondPasses

ThemeNext ==
    \/ \E c \in Themed : \/ MountTheme(c) \/ UnmountTheme(c) \/ toggleTheme(c)
                         \/ \E m \in ThemeMode : SetThemeMode(c, m)
    \/ SystemChanges \/ OtherTabPersists

LEMMA NextIs == DesignNext => ModalNext \/ ToastNext \/ ThemeNext
BY DEF DesignNext, ModalNext, ToastNext, ThemeNext

\* Each part leaves the variables of the others alone.
LEMMA PartsAreApart ==
    /\ ModalNext => UNCHANGED <<toastVars, themeVars>>
    /\ ToastNext => UNCHANGED <<kind, modalVars, themeVars>>
    /\ ThemeNext => UNCHANGED <<kind, modalVars, toastVars>>
<1>1. ModalNext => UNCHANGED <<toastVars, themeVars>>
  BY DEF ModalNext, OpenModal, UnmountModal, CloseModal, Escape
<1>2. ToastNext => UNCHANGED <<kind, modalVars, themeVars>>
  BY DEF ToastNext, addToast, Dismiss, TimerFires, remove, clear, SecondPasses
<1>3. ThemeNext => UNCHANGED <<kind, modalVars, toastVars>>
  BY DEF ThemeNext, MountTheme, UnmountTheme, toggleTheme, SetThemeMode, SystemChanges,
         OtherTabPersists
<1> QED BY <1>1, <1>2, <1>3

\* A toast goes with its timer, whoever removes it.
LEMMA ToastsKeepTimers ==
    ASSUME TimersHaveTheirToasts, ToastNext
    PROVE  TimersHaveTheirToasts'
<1>1. CASE addToast
  BY <1>1 DEF addToast, TimersHaveTheirToasts
<1>2. CASE Dismiss \/ TimerFires
  <2>1. PICK id : remove(id)
    BY <1>2 DEF Dismiss, TimerFires
  <2> QED BY <2>1 DEF remove, TimersHaveTheirToasts
<1>3. CASE clear
  BY <1>3 DEF clear, TimersHaveTheirToasts
<1>4. CASE SecondPasses
  BY <1>4 DEF SecondPasses, TimersHaveTheirToasts
<1> QED BY <1>1, <1>2, <1>3, <1>4 DEF ToastNext

LEMMA SettingKeepsTheme ==
    ASSUME NEW c, NEW m, SetThemeMode(c, m)
    PROVE  PageHasTheTheme'
BY DEF SetThemeMode, resolveTheme, PageHasTheTheme

\* Whoever sets a mode applies it, and the system's is applied while a component listens.
LEMMA ThemeKeepsTheme ==
    ASSUME PageHasTheTheme, ThemeNext
    PROVE  PageHasTheTheme'
<1>1. ASSUME NEW c \in Themed, MountTheme(c) PROVE PageHasTheTheme'
  BY <1>1 DEF MountTheme, resolveTheme, PageHasTheTheme
<1>2. ASSUME NEW c \in Themed, UnmountTheme(c) PROVE PageHasTheTheme'
  <2>1. MountedThemes # {}
    BY <1>2 DEF UnmountTheme
  <2> QED BY <1>2, <2>1 DEF UnmountTheme, resolveTheme, PageHasTheTheme
<1>3. ASSUME NEW c \in Themed, toggleTheme(c) PROVE PageHasTheTheme'
  BY <1>3, SettingKeepsTheme DEF toggleTheme
<1>4. ASSUME NEW c \in Themed, NEW m \in ThemeMode, SetThemeMode(c, m) PROVE PageHasTheTheme'
  BY <1>4, SettingKeepsTheme
<1>5. CASE SystemChanges
  <2>1. MountedThemes' = MountedThemes /\ persisted' = persisted
    BY <1>5 DEF SystemChanges, MountedThemes
  <2>2. CASE MountedThemes # {} /\ persisted = "system"
    BY <1>5, <2>1, <2>2 DEF SystemChanges, resolveTheme, PageHasTheTheme
  <2>3. CASE MountedThemes = {}
    BY <2>1, <2>3 DEF PageHasTheTheme
  <2>4. CASE MountedThemes # {} /\ persisted # "system"
    BY <1>5, <2>1, <2>4 DEF SystemChanges, resolveTheme, PageHasTheTheme
  <2> QED BY <2>2, <2>3, <2>4
<1>6. CASE OtherTabPersists
  BY <1>6 DEF OtherTabPersists, PageHasTheTheme
<1> QED BY <1>1, <1>2, <1>3, <1>4, <1>5, <1>6 DEF ThemeNext

LEMMA ApartStep == KeptApart /\ [DesignNext]_designVars => KeptApart'
<1> SUFFICES ASSUME KeptApart, [DesignNext]_designVars PROVE KeptApart'
  OBVIOUS
<1>1. UNCHANGED toastVars => TimersHaveTheirToasts'
  BY DEF KeptApart, toastVars, TimersHaveTheirToasts
<1>2. UNCHANGED themeVars => PageHasTheTheme'
  BY DEF KeptApart, themeVars, PageHasTheTheme, MountedThemes, resolveTheme
<1>3. CASE ModalNext
  BY <1>1, <1>2, <1>3, PartsAreApart DEF KeptApart
<1>4. CASE ToastNext
  BY <1>2, <1>4, PartsAreApart, ToastsKeepTimers DEF KeptApart
<1>5. CASE ThemeNext
  BY <1>1, <1>5, PartsAreApart, ThemeKeepsTheme DEF KeptApart
<1>6. CASE UNCHANGED designVars
  <2>1. UNCHANGED <<toastVars, themeVars>>
    BY <1>6 DEF designVars, toastVars, themeVars
  <2> QED BY <1>1, <1>2, <2>1 DEF KeptApart
<1> QED BY <1>3, <1>4, <1>5, <1>6, NextIs

LEMMA ScrollStep == ScrollInv /\ [DesignNext]_designVars => ScrollInv'
<1> SUFFICES ASSUME ScrollInv, [DesignNext]_designVars PROVE ScrollInv'
  OBVIOUS
<1>1. ASSUME NEW m \in 1 .. Modals, UnmountModal(m) PROVE ScrollInv'
  BY <1>1, UnmountKeepsStack
<1>2. CASE UNCHANGED <<kind, modalVars>>
  BY <1>2, OthersKeepStack
<1>3. CASE UNCHANGED designVars
  BY <1>2, <1>3 DEF designVars, modalVars
<1>4. CASE ModalNext
  BY <1>1, <1>4, OpenKeepsStack, CloseKeepsStack, EscapeKeepsStack DEF ModalNext
<1> QED BY <1>2, <1>3, <1>4, NextIs, PartsAreApart

\* Whatever is opened, shown and mounted in whatever order, the page scrolls, forgets its timers
\* and has its theme as it should (use-modal.ts, LnModal.vue, toast-manager.ts, theme-manager.ts).
THEOREM DesignKeepsPage == DesignSpec => []PageIsKept
<1>1. DesignSpec => []ScrollInv
  BY ScrollInit, ScrollStep, PTL DEF DesignSpec
<1>2. DesignSpec => []KeptApart
  BY ApartInit, ApartStep, PTL DEF DesignSpec
<1>3. ScrollInv /\ KeptApart => PageIsKept
  BY StackedLocks DEF KeptApart, PageIsKept
<1> QED BY <1>1, <1>2, <1>3, PTL

-----------------------------------------------------------------------------
(* Brand: the page bears what was put in last, and none when it is gone.   *)

\* What the root bears is what was put in last, in the theme in effect.
Branded(theme) ==
    /\ dom["root"].theme = theme
    /\ dom["root"].names = cssVars.names /\ dom["root"].colours = cssVars.colours
    /\ cssVars.colours[2] = theme
    /\ ~edited => cssVars = generateCssVariables(brand, theme)

\* An engine in the automatic mode listens, so that the theme in effect does not change unseen.
BrandInv ==
    /\ DOMAIN dom = {"root", "target"} /\ dom = [el \in DOMAIN dom |-> dom[el]]
    /\ ~onTarget /\ ~late =>
           IF phase = "gone" THEN dom["root"] = Bare /\ ~listening
           ELSE /\ themeMode = "auto" => listening
                /\ Branded(Effective(themeMode, prefersDark))

LEMMA AppliedToRoot ==
    ASSUME NEW given, NEW setting, NEW dark, Applied("root", given, setting, dark),
           DOMAIN dom = {"root", "target"}, dom["root"].names = cssVars.names
    PROVE  /\ DOMAIN dom' = {"root", "target"} /\ dom' = [el \in DOMAIN dom' |-> dom'[el]]
           /\ cssVars' = generateCssVariables(given, Effective(setting, dark))
           /\ dom'["root"].theme = Effective(setting, dark)
           /\ dom'["root"].names = cssVars'.names /\ dom'["root"].colours = cssVars'.colours
           /\ cssVars'.colours[2] = Effective(setting, dark)
<1>1. PICK theme : theme = Effective(setting, dark)
  OBVIOUS
<1>2. PICK css : css = generateCssVariables(given, theme)
  OBVIOUS
<1>3. css.names = {"brand", given.custom} /\ css.colours[2] = theme
  BY <1>2 DEF generateCssVariables
<1>4. PICK el : el = [names |-> (dom["root"].names \ cssVars.names) \cup css.names,
                      colours |-> css.colours, theme |-> theme]
  OBVIOUS
<1>5. cssVars' = css /\ dom' = [dom EXCEPT !["root"] = el]
  BY <1>1, <1>2, <1>4 DEF Applied
<1>6. el.names = css.names /\ el.colours = css.colours /\ el.theme = theme
  BY <1>4
<1>7. dom'["root"] = el /\ DOMAIN dom' = {"root", "target"}
  BY <1>5
<1>8. dom' = [e \in DOMAIN dom' |-> dom'[e]]
  BY <1>5
<1> QED BY <1>1, <1>2, <1>3, <1>5, <1>6, <1>7, <1>8

LEMMA AppliedKeepsDomain ==
    ASSUME NEW el, NEW given, NEW setting, NEW dark, Applied(el, given, setting, dark)
    PROVE  DOMAIN dom' = DOMAIN dom /\ dom' = [e \in DOMAIN dom' |-> dom'[e]]
BY DEF Applied

\* A provider that is there applies to the root what its engine holds by then.
LEMMA AppliedInv ==
    ASSUME BrandInv, phase # "gone", phase' # "gone", NEW setting, NEW dark,
           Applied(Target, brand', setting, dark) \/ Applied("root", brand', setting, dark),
           setting = themeMode', dark = prefersDark', themeMode' = "auto" => listening',
           UNCHANGED onTarget, late' = late
    PROVE  BrandInv'
<1>1. CASE onTarget \/ late
  <2>1. DOMAIN dom' = {"root", "target"} /\ dom' = [el \in DOMAIN dom' |-> dom'[el]]
    BY AppliedKeepsDomain DEF BrandInv
  <2> QED BY <1>1, <2>1 DEF BrandInv
<1>2. CASE ~onTarget /\ ~late
  <2>1. /\ Applied("root", brand', setting, dark)
        /\ DOMAIN dom = {"root", "target"} /\ dom["root"].names = cssVars.names
    BY <1>2 DEF Target, BrandInv, Branded
  <2> QED BY <1>2, <2>1, AppliedToRoot DEF BrandInv, Branded, Effective
<1> QED BY <1>1, <1>2

LEMMA MountInv == ASSUME BrandInv, Mount PROVE BrandInv'
<1>1. /\ phase # "gone" /\ phase' # "gone"
      /\ Applied(Target, brand, themeMode, prefersDark)
      /\ UNCHANGED <<onTarget, brand, themeMode, listening, prefersDark, late>>
  BY DEF Mount
<1>2. ~onTarget /\ ~late => (themeMode = "auto" => listening)
  BY <1>1 DEF BrandInv
<1>3. CASE ~onTarget /\ ~late
  BY <1>1, <1>2, <1>3, AppliedInv
<1>4. CASE onTarget \/ late
  BY <1>1, <1>4, AppliedKeepsDomain DEF BrandInv
<1> QED BY <1>3, <1>4

LEMMA LoadEndsInv ==
    ASSUME BrandInv, NEW load, NEW remote, LoadEnds(load, remote)
    PROVE  BrandInv'
<1>1. /\ Applied(Target, brand', themeMode, prefersDark)
      /\ UNCHANGED <<phase, onTarget, themeMode, listening, prefersDark>>
  BY DEF LoadEnds
<1>2. late' <=> late \/ phase = "gone"
  BY Zenon DEF LoadEnds
<1>3. CASE ~onTarget /\ ~late'
  <2>1. ~late /\ phase # "gone" /\ (themeMode = "auto" => listening)
    BY <1>2, <1>3 DEF BrandInv
  <2>2. dom["root"].names = cssVars.names /\ DOMAIN dom = {"root", "target"}
    BY <1>3, <2>1 DEF BrandInv, Branded
  <2> QED BY <1>1, <1>3, <2>1, <2>2, AppliedToRoot DEF BrandInv, Branded, Target
<1>4. CASE onTarget \/ late'
  BY <1>1, <1>4, AppliedKeepsDomain DEF BrandInv
<1> QED BY <1>3, <1>4

LEMMA SetUpInv == ASSUME BrandInv, SetUp PROVE BrandInv'
<1>1. PICK setting \in {"light", "auto"} :
        /\ themeMode' = setting
        /\ listening' = (setting = "auto")
        /\ cssVars' = generateCssVariables(brand', Effective(setting, prefersDark))
        /\ dom' = [dom EXCEPT !.root = [names |-> @.names \cup cssVars'.names,
                                        colours |-> cssVars'.colours,
                                        theme |-> Effective(setting, prefersDark)]]
  BY DEF SetUp
<1>2. /\ phase = "gone" /\ phase' = "set up" /\ edited' = FALSE
      /\ UNCHANGED <<onTarget, prefersDark, late>>
  BY DEF SetUp
<1>3. PICK el : el = [names |-> dom["root"].names \cup cssVars'.names,
                      colours |-> cssVars'.colours, theme |-> Effective(setting, prefersDark)]
  OBVIOUS
<1>4. dom' = [dom EXCEPT !["root"] = el]
  BY <1>1, <1>3
<1>5. DOMAIN dom' = {"root", "target"} /\ dom' = [e \in DOMAIN dom' |-> dom'[e]]
      /\ dom'["root"] = el
  BY <1>4 DEF BrandInv
<1>6. ASSUME ~onTarget, ~late PROVE Branded(Effective(themeMode, prefersDark))'
  <2>1. dom["root"].names = {}
    <3>1. dom["root"] = Bare
      BY <1>2, <1>6 DEF BrandInv
    <3>2. Bare.names = {}
      BY DEF Bare
    <3> QED BY <3>1, <3>2
  <2>2. el.names = cssVars'.names /\ el.colours = cssVars'.colours
        /\ el.theme = Effective(setting, prefersDark)
    BY <1>3, <2>1
  <2>3. cssVars'.colours[2] = Effective(setting, prefersDark)
    BY <1>1 DEF generateCssVariables
  <2> QED BY <1>1, <1>2, <1>5, <2>2, <2>3 DEF Branded, Effective
<1>7. listening' <=> themeMode' = "auto"
  BY <1>1
<1> QED BY <1>2, <1>5, <1>6, <1>7 DEF BrandInv

LEMMA UnmountInv == ASSUME BrandInv, Unmount PROVE BrandInv'
<1>1. /\ phase = "mounted" /\ phase' = "gone" /\ listening' = FALSE
      /\ dom' = [dom EXCEPT !["root"] = [names |-> dom["root"].names \ cssVars.names,
                                         colours |-> <<>>, theme |-> "none"]]
      /\ UNCHANGED <<onTarget, late>>
  BY DEF Unmount
<1>2. PICK el : el = [names |-> dom["root"].names \ cssVars.names, colours |-> <<>>,
                      theme |-> "none"]
  OBVIOUS
<1>3. dom' = [dom EXCEPT !["root"] = el]
  BY <1>1, <1>2
<1>4. DOMAIN dom' = {"root", "target"} /\ dom' = [e \in DOMAIN dom' |-> dom'[e]]
      /\ dom'["root"] = el
  BY <1>3 DEF BrandInv
<1>5. ~onTarget /\ ~late => el = Bare
  BY <1>1, <1>2 DEF BrandInv, Branded, Bare
<1> QED BY <1>1, <1>4, <1>5 DEF BrandInv

LEMMA setThemeInv == ASSUME BrandInv, setTheme PROVE BrandInv'
<1>1. PICK setting : setThemeMode(setting)
  BY DEF setTheme
<1>2. /\ themeMode' = setting /\ listening' = (setting = "auto")
      /\ Applied("root", brand, setting, prefersDark)
  BY <1>1 DEF setThemeMode
<1>3. phase = "mounted" /\ UNCHANGED <<phase, onTarget, brand, prefersDark, late>>
  BY DEF setTheme
<1> QED BY <1>2, <1>3, AppliedInv

LEMMA SystemThemeInv == ASSUME BrandInv, SystemThemeChanges PROVE BrandInv'
<1>1. UNCHANGED <<phase, onTarget, brand, themeMode, listening, late>>
  BY DEF SystemThemeChanges
<1>2. CASE listening /\ Applied("root", brand, themeMode, prefersDark')
  <2>1. CASE phase = "gone"
    BY <1>1, <1>2, <2>1, AppliedKeepsDomain DEF BrandInv
  <2>2. CASE phase # "gone"
    BY <1>1, <1>2, <2>2, AppliedInv
  <2> QED BY <2>1, <2>2
<1>3. CASE ~listening /\ UNCHANGED <<cssVars, dom, edited>>
  <2>1. themeMode # "auto" => Effective(themeMode, prefersDark)' = Effective(themeMode, prefersDark)
    BY <1>1 DEF Effective
  <2> QED BY <1>1, <1>3, <2>1 DEF BrandInv, Branded
<1> QED BY <1>2, <1>3 DEF SystemThemeChanges

LEMMA BrandStep == ASSUME BrandInv, [BrandNext]_brandVars PROVE BrandInv'
<1>1. CASE updateConfig
  <2>1. /\ phase # "gone" /\ edited' = TRUE
        /\ UNCHANGED <<phase, onTarget, themeMode, cssVars, dom, listening, prefersDark, late>>
    BY <1>1 DEF updateConfig
  <2> QED BY <2>1 DEF BrandInv, Branded
<1>2. CASE ClockTicks \/ UNCHANGED brandVars
  <2>1. UNCHANGED <<phase, onTarget, brand, themeMode, cssVars, dom, listening, prefersDark,
                    edited, late>>
    BY <1>2 DEF ClockTicks, brandVars
  <2> QED BY <2>1 DEF BrandInv, Branded
<1>3. ASSUME NEW load \in loads, RemoteAnswers(load) \/ RemoteFails(load) PROVE BrandInv'
  BY <1>3, LoadEndsInv DEF RemoteAnswers, RemoteFails
<1> QED BY <1>1, <1>2, <1>3, SetUpInv, MountInv, UnmountInv, setThemeInv, SystemThemeInv
        DEF BrandNext

LEMMA BrandStart == BrandInit => BrandInv
BY DEF BrandInit, BrandInv

LEMMA BrandInvariant == BrandSpec => []BrandInv
<1>1. BrandInv /\ [BrandNext]_brandVars => BrandInv'
  BY BrandStep
<1> QED BY <1>1, BrandStart, PTL DEF BrandSpec

\* For any clock and any loads, edits and themes in any order: the page has the theme in effect in
\* the colours of the engine, and nothing is left on it of a provider that is gone, but for a mount
\* target and for loads that end too late (_applyCssVariables, _setupAutoTheme, destroy).
THEOREM PageBearsItsBrand == BrandSpec => []PageHasItsBrand
<1>1. BrandInv => PageHasItsBrand
  BY DEF BrandInv, Branded, PageHasItsBrand
<1> QED BY <1>1, BrandInvariant, PTL

-----------------------------------------------------------------------------
(* Types: what the variables of these packages may hold.                    *)

----------------------------------------------------------------------------
(* Usage dashboard *)

\* A refresh under way awaits some of its calls.
AwaitsCalls(r) == r.awaited # {} /\ r.awaited \subseteq r.calls

Staleness == {"unknown", "stale", "fresh"}

DashboardTimes ==
    /\ client \in Client /\ now \in 0 .. MaxTime /\ selectedRange.at \in 0 .. now
    /\ \A r \in refreshes : AwaitsCalls(r)
    /\ fetchLoading \in BOOLEAN /\ isStale \in Staleness
    /\ refreshed \in 0 .. MaxRefreshes

LEMMA StartTypes ==
    ASSUME DashboardTimes, NEW asks, NEW q, NEW type, Start(asks, q, type)
    PROVE  /\ \A r \in refreshes' : AwaitsCalls(r)
           /\ fetchLoading' \in BOOLEAN /\ isStale' \in Staleness
           /\ refreshed' \in 0 .. MaxRefreshes
<1> DEFINE awaited0 == Misses(q, asks, type)
           r0 == [n |-> refreshed, calls |-> asks, query |-> q, type |-> type,
                  awaited |-> awaited0, asked |-> AskedAt(q, "charts", type), began |-> now]
<1>1. awaited0 \subseteq asks
  BY DEF Misses
<1>2. r0.awaited = awaited0 /\ r0.calls = asks
  OBVIOUS
<1>3. /\ refreshed < MaxRefreshes /\ refreshed' = refreshed + 1
      /\ IF awaited0 = {}
         THEN Show(r0, now) /\ UNCHANGED refreshes
         ELSE /\ refreshes' = refreshes \cup {r0}
              /\ UNCHANGED <<charts, topConsumers, lastRefreshed, isStale>>
      /\ IF "charts" \in asks
         THEN fetchLoading' = (awaited0 # {}) /\ fetchError' = FALSE
         ELSE UNCHANGED <<fetchLoading, fetchError>>
  BY DEF Start
<1> HIDE DEF awaited0, r0
<1>4. refreshed \in 0 .. MaxRefreshes /\ MaxRefreshes \in Nat
  BY DashboardAssumption DEF DashboardTimes, DashboardAssumption
<1>5. refreshed' \in 0 .. MaxRefreshes
  BY <1>3, <1>4
<1>6. ASSUME NEW r \in refreshes' PROVE AwaitsCalls(r)
  <2>1. r \in refreshes \/ (awaited0 # {} /\ r = r0)
    BY <1>3, <1>6
  <2>2. awaited0 # {} => AwaitsCalls(r0)
    BY <1>1, <1>2 DEF AwaitsCalls
  <2> QED BY <2>1, <2>2 DEF DashboardTimes
<1>7. fetchLoading' \in BOOLEAN
  <2>1. CASE "charts" \in asks
    BY <1>3, <2>1
  <2>2. CASE "charts" \notin asks
    BY <1>3, <2>2 DEF DashboardTimes
  <2> QED BY <2>1, <2>2
<1>8. isStale' \in Staleness
  BY <1>3 DEF DashboardTimes, Show, Staleness
<1> QED BY <1>5, <1>6, <1>7, <1>8

LEMMA FiltersTypes ==
    ASSUME DashboardTimes, NEW asks, NEW q, NEW type, Start(asks, q, type),
           client' = client, now' = now, selectedRange'.at \in 0 .. now
    PROVE  DashboardTimes'
BY StartTypes DEF DashboardTimes

LEMMA FetchTypes ==
    ASSUME DashboardInv, DashboardTimes, NEW f \in fetches, FetchAnswered(f) \/ FetchFails(f)
    PROVE  DashboardTimes'
<1>1. UNCHANGED <<client, now, selectedRange, refreshed>>
  BY DEF FetchAnswered, FetchFails
<1>2. CASE FetchFails(f)
  <2>1. refreshes' \subseteq refreshes /\ fetchLoading' \in BOOLEAN /\ isStale' = isStale
    BY <1>2 DEF FetchFails
  <2> QED BY <1>1, <2>1 DEF DashboardTimes
<1>3. CASE FetchAnswered(f)
  <2> DEFINE mine == {r \in refreshes : r.n = f.n}
             rest == {[r EXCEPT !.awaited = @ \ {f.call}] : r \in mine}
             done == {r \in rest : r.awaited = {}}
  <2>1. /\ refreshes' = (refreshes \ mine) \cup (rest \ done)
        /\ isStale' = isStale \/ isStale' = "unknown"
        /\ fetchLoading' = (fetchLoading /\ ~\E r \in done : "charts" \in r.calls)
    BY <1>3 DEF FetchAnswered, Show
  <2>2. ASSUME NEW r \in rest \ done PROVE AwaitsCalls(r)
    <3>1. PICK s \in mine : r = [s EXCEPT !.awaited = @ \ {f.call}]
      OBVIOUS
    <3>2. s \in Refreshes /\ AwaitsCalls(s)
      BY DEF DashboardInv, DashboardKinds, DashboardTimes
    <3>3. r.calls = s.calls /\ r.awaited = s.awaited \ {f.call}
      BY <3>1, <3>2 DEF Refreshes
    <3>4. r.awaited # {}
      OBVIOUS
    <3> QED BY <3>2, <3>3, <3>4 DEF AwaitsCalls
  <2>3. \A r \in refreshes' : AwaitsCalls(r)
    BY <2>1, <2>2 DEF DashboardTimes
  <2>4. fetchLoading' \in BOOLEAN
    BY <2>1
  <2>5. isStale' \in Staleness
    BY <2>1 DEF DashboardTimes, Staleness
  <2> QED BY <1>1, <2>3, <2>4, <2>5 DEF DashboardTimes
<1> QED BY <1>2, <1>3

LEMMA TimesStep ==
    ASSUME DashboardInv, DashboardTimes, [DashboardNext]_dashboardVars
    PROVE  DashboardTimes'
<1>1. /\ now \in 0 .. MaxTime /\ selectedRange.at \in 0 .. now /\ MaxTime \in Nat
      /\ now \in Nat
  BY DashboardAssumption DEF DashboardTimes, DashboardAssumption, DashboardInv, DashboardKinds
<1>2. CASE setRange \/ setCustomRange
  <2>1. PICK q : Start({"charts", "top"}, q, consumerType)
    BY <1>2 DEF setRange, setCustomRange, refresh
  <2>2. client' = client /\ now' = now
    BY <1>2 DEF setRange, setCustomRange
  <2>3. selectedRange'.at = now \/ selectedRange'.at = 0
    BY <1>2 DEF setRange, setCustomRange, presetToDateRange
  <2>4. selectedRange'.at \in 0 .. now
    BY <1>1, <2>3
  <2> QED BY <2>1, <2>2, <2>4, FiltersTypes
<1>3. CASE setModelCategory \/ setConsumerType \/ RefreshByHand \/ AutoRefresh
  <2>1. PICK asks, q, type : Start(asks, q, type)
    BY <1>3 DEF setModelCategory, setConsumerType, RefreshByHand, AutoRefresh, refresh,
       refreshTopConsumers
  <2>2. client' = client /\ now' = now /\ selectedRange' = selectedRange
    BY <1>3 DEF setModelCategory, setConsumerType, RefreshByHand, AutoRefresh
  <2> QED BY <1>1, <2>1, <2>2, FiltersTypes
<1>4. CASE PassTime
  <2>1. now' \in 0 .. MaxTime /\ 0 .. now \subseteq 0 .. now'
    <3>1. now < MaxTime /\ now' = now + 1
      BY <1>4 DEF PassTime
    <3> QED BY <1>1, <3>1
  <2>2. UNCHANGED <<client, selectedRange, refreshes, fetchLoading, isStale, refreshed>>
    BY <1>4 DEF PassTime
  <2> QED BY <1>1, <2>1, <2>2 DEF DashboardTimes
<1>5. CASE StoreSets
  <2>1. UNCHANGED <<client, now, refreshes, fetchLoading, isStale, refreshed>>
    BY <1>5 DEF StoreSets
  <2>2. selectedRange'.at = 0 \/ selectedRange' = selectedRange
    BY <1>5 DEF StoreSets
  <2>3. selectedRange'.at \in 0 .. now
    BY <1>1, <2>2
  <2> QED BY <2>1, <2>3 DEF DashboardTimes
<1>6. ASSUME NEW force, fetchAll(force) PROVE DashboardTimes'
  <2>1. UNCHANGED <<client, now, selectedRange>>
    BY <1>6 DEF fetchAll
  <2>2. CASE Start({"charts", "top"}, Query, "user")
    BY <1>1, <2>1, <2>2, FiltersTypes
  <2>3. CASE /\ isStale' = StaleNow
             /\ UNCHANGED <<refreshes, fetchLoading, refreshed>>
    <3>1. StaleNow \in Staleness
      BY DEF StaleNow, Staleness, DashboardTimes
    <3> QED BY <2>1, <2>3, <3>1 DEF DashboardTimes
  <2> QED BY <1>6, <2>2, <2>3 DEF fetchAll, refresh
<1>7. CASE reset
  BY <1>7 DEF reset, DashboardTimes, Staleness
<1>8. CASE UNCHANGED dashboardVars
  BY <1>8 DEF dashboardVars, DashboardTimes
<1> QED BY <1>2, <1>3, <1>4, <1>5, <1>6, <1>7, <1>8, FetchTypes DEF DashboardNext

\* Whatever is filtered, refreshed and answered: every refresh under way awaits some of its calls,
\* so that it ends with the last of them, and no range was selected in the future.
THEOREM DashboardTypeCorrect == DashboardSpec => []DashboardTypeOK
<1>1. DashboardInit => DashboardTimes
  <2> SUFFICES ASSUME DashboardInit PROVE DashboardTimes
    OBVIOUS
  <2>1. now = 0 /\ refreshed = 0 /\ selectedRange.at = 0
    BY DEF DashboardInit
  <2>2. MaxTime \in Nat /\ MaxRefreshes \in Nat
    BY DashboardAssumption DEF DashboardAssumption
  <2>3. /\ now \in 0 .. MaxTime /\ selectedRange.at \in 0 .. now
        /\ refreshed \in 0 .. MaxRefreshes
    BY <2>1, <2>2
  <2> QED BY <2>3 DEF DashboardInit, DashboardTimes, Staleness
<1>2. DashboardInv /\ DashboardTimes /\ [DashboardNext]_dashboardVars => DashboardTimes'
  BY TimesStep
<1>3. DashboardInv /\ DashboardTimes => DashboardTypeOK
  BY DEF DashboardInv, DashboardKinds, Dates, DashboardTimes, AwaitsCalls, Staleness,
     DashboardTypeOK
<1> QED BY <1>1, <1>2, <1>3, DashboardInvariant, PTL DEF DashboardSpec

----------------------------------------------------------------------------
(* Playground, design system and brand *)

States == {"idle", "sending", "streaming", "done", "error"}

\* A call keeps its endpoint while its answer turns into a stream.
IsSend(c) ==
    /\ c = [n |-> c.n, endpoint |-> c.endpoint, streams |-> c.streams]
    /\ c.n \in 1 .. sendCount /\ c.endpoint \in Endpoint

PanelTypes ==
    /\ mode \in Mode /\ selectedEndpoint \in Endpoint \cup {NoEndpoint}
    /\ state \in States /\ sendCount \in 0 .. MaxSends
    /\ abortController \in 0 .. sendCount /\ response \in 0 .. sendCount
    /\ streamBuffer \subseteq 1 .. sendCount
    /\ \A c \in sends : IsSend(c)

\* The first endpoint of a mode is one.
LEMMA FirstIsEndpoint ==
    ASSUME NEW m, Listed(m) # {}
    PROVE  FirstListed(m) \in Endpoint
<1>1. DOMAIN Endpoints \subseteq Nat
  BY PlaygroundAssumption DEF PlaygroundAssumption
<1>2. Listed(m) \in SUBSET Nat /\ Listed(m) \subseteq DOMAIN Endpoints
  BY <1>1 DEF Listed
<1>3. Min(Listed(m)) \in Listed(m)
  BY <1>2, LeastElement
<1> QED BY <1>2, <1>3 DEF FirstListed, Endpoint

LEMMA NoCallYet ==
    ASSUME sendCount \in 0 .. MaxSends
    PROVE  NoCall \in 0 .. sendCount
BY PlaygroundAssumption DEF NoCall, PlaygroundAssumption

LEMMA ShowTypes ==
    ASSUME PanelTypes, NEW e, (ShowEndpoint(e) /\ e \in Endpoint) \/ ShowNoEndpoint,
           mode' \in Mode, sendCount' = sendCount
    PROVE  PanelTypes'
<1>1. NoCall \in 0 .. sendCount
  BY NoCallYet DEF PanelTypes
<1>2. selectedEndpoint' \in Endpoint \cup {NoEndpoint}
  BY DEF ShowEndpoint, ShowNoEndpoint
<1>3. /\ state' = state \/ state' = "idle"
      /\ response' = response \/ response' = NoCall
      /\ streamBuffer' = streamBuffer \/ streamBuffer' = {}
      /\ abortController' = abortController \/ abortController' = NoCall
      /\ sends' = sends \/ sends' = {}
  BY DEF ShowEndpoint, ShowNoEndpoint
<1>4. state' \in States
  BY <1>3 DEF PanelTypes, States
<1>5. \A c \in sends' : IsSend(c)'
  BY <1>3 DEF PanelTypes, IsSend
<1> QED BY <1>1, <1>2, <1>3, <1>4, <1>5 DEF PanelTypes

LEMMA SendTypes == ASSUME PanelTypes, send PROVE PanelTypes'
<1>0. PICK c0 : c0 = [n |-> sendCount + 1, endpoint |-> selectedEndpoint, streams |-> FALSE]
  OBVIOUS
<1>1. /\ sendCount < MaxSends /\ sendCount' = sendCount + 1
      /\ abortController' = sendCount' /\ state' = "sending" /\ response' = NoCall
      /\ streamBuffer' = {} /\ UNCHANGED <<mode, selectedEndpoint>>
  BY DEF send
<1>2. sends' = sends \cup {c0} /\ selectedEndpoint \in Endpoint
  BY <1>0 DEF send, PanelTypes
<1>3. c0 = [n |-> c0.n, endpoint |-> c0.endpoint, streams |-> c0.streams]
      /\ c0.n = sendCount + 1 /\ c0.endpoint \in Endpoint
  BY <1>0, <1>2
<1>4. sendCount \in 0 .. MaxSends /\ MaxSends \in Nat
  BY PlaygroundAssumption DEF PanelTypes, PlaygroundAssumption
<1>5. /\ sendCount' \in 0 .. MaxSends /\ sendCount' \in 0 .. sendCount'
      /\ sendCount + 1 \in 1 .. sendCount' /\ 1 .. sendCount \subseteq 1 .. sendCount'
  BY <1>1, <1>4
<1>6. NoCall \in 0 .. sendCount'
  BY <1>5 DEF NoCall
<1>7. IsSend(c0)'
  BY <1>3, <1>5 DEF IsSend
<1>8. \A c \in sends' : IsSend(c)'
  BY <1>2, <1>5, <1>7 DEF PanelTypes, IsSend
<1> QED BY <1>1, <1>5, <1>6, <1>8 DEF PanelTypes, States

LEMMA CallTypes ==
    ASSUME PanelTypes, NEW c \in sends, StreamStarts(c) \/ ChunkComes(c) \/ CallEnds(c)
    PROVE  PanelTypes'
<1>1. IsSend(c) /\ c.n \in 1 .. sendCount /\ 1 .. sendCount \subseteq 0 .. sendCount
  BY DEF PanelTypes, IsSend
<1>2. NoCall \in 0 .. sendCount
  BY NoCallYet DEF PanelTypes
<1>3. CASE StreamStarts(c)
  <2>0. PICK d : d = [c EXCEPT !.streams = TRUE]
    OBVIOUS
  <2>1. d = [n |-> d.n, endpoint |-> d.endpoint, streams |-> d.streams]
        /\ d.n = c.n /\ d.endpoint = c.endpoint
    BY <1>1, <2>0 DEF IsSend
  <2>2. sends' = (sends \ {c}) \cup {d}
    BY <1>3, <2>0 DEF StreamStarts
  <2>3. /\ UNCHANGED <<mode, selectedEndpoint, abortController, response, streamBuffer, sendCount>>
        /\ state' \in States
    BY <1>3 DEF StreamStarts, States
  <2>4. IsSend(d)'
    BY <1>1, <2>1, <2>3 DEF IsSend
  <2>5. \A e \in sends' : IsSend(e)'
    BY <2>2, <2>3, <2>4 DEF PanelTypes, IsSend
  <2> QED BY <2>3, <2>5 DEF PanelTypes
<1>4. CASE ChunkComes(c)
  BY <1>1, <1>4 DEF ChunkComes, PanelTypes, IsSend
<1>5. CASE CallEnds(c)
  <2>1. /\ UNCHANGED <<mode, selectedEndpoint, streamBuffer, sendCount>>
        /\ state' \in States /\ response' = c.n /\ abortController' = NoCall
        /\ sends' \subseteq sends
    BY <1>5 DEF CallEnds, States
  <2> QED BY <1>1, <1>2, <2>1 DEF PanelTypes, IsSend
<1> QED BY <1>3, <1>4, <1>5

LEMMA PanelTypesStep ==
    ASSUME PanelTypes, [PlaygroundNext]_playgroundVars
    PROVE  PanelTypes'
<1>1. CASE setMode
  <2>1. PICK m \in Mode :
          /\ mode' = m
          /\ IF m # mode /\ Listed(m) # {} THEN ShowEndpoint(FirstListed(m)) ELSE ShowNoEndpoint
    BY <1>1 DEF setMode
  <2>2. (ShowEndpoint(FirstListed(m)) /\ FirstListed(m) \in Endpoint) \/ ShowNoEndpoint
    BY <2>1, FirstIsEndpoint
  <2>3. sendCount' = sendCount
    BY <1>1 DEF setMode
  <2> QED BY <2>1, <2>2, <2>3, ShowTypes
<1>2. CASE selectEndpoint
  <2>1. PICK e \in IF isSearching THEN searchEndpoints ELSE {Endpoints[i] : i \in Listed(mode)} :
          ShowEndpoint(e) /\ mode' = ModeOf[e]
    BY <1>2 DEF selectEndpoint
  <2>2. e \in Endpoint
    <3>1. e \in searchEndpoints \/ e \in {Endpoints[i] : i \in Listed(mode)}
      BY <2>1
    <3> QED BY <3>1 DEF searchEndpoints, Listed, Endpoint
  <2>3. mode' \in Mode /\ sendCount' = sendCount
    BY <1>2, <2>1, <2>2, PlaygroundAssumption DEF selectEndpoint, PlaygroundAssumption
  <2> QED BY <2>1, <2>2, <2>3, ShowTypes
<1>3. CASE TypeQuery \/ UNCHANGED playgroundVars
  BY <1>3 DEF TypeQuery, playgroundVars, PanelTypes, IsSend
<1>4. CASE cancel \/ resetPlayground
  <2>1. /\ UNCHANGED <<mode, selectedEndpoint, sendCount>>
        /\ state' \in States /\ abortController' = NoCall /\ sends' \subseteq sends
        /\ response' = response \/ response' = NoCall
        /\ streamBuffer' = streamBuffer \/ streamBuffer' = {}
    BY <1>4 DEF cancel, resetPlayground, Abort, States
  <2>2. NoCall \in 0 .. sendCount
    BY NoCallYet DEF PanelTypes
  <2> QED BY <2>1, <2>2 DEF PanelTypes, IsSend
<1> QED BY <1>1, <1>2, <1>3, <1>4, SendTypes, CallTypes DEF PlaygroundNext

\* Whatever is searched for, selected, sent and cancelled: the endpoint shown is one that there is,
\* and the call that Cancel would abort, the answer and the chunks shown are of calls that were
\* sent (use-api-docs.ts, use-playground.ts).
THEOREM PlaygroundTypeCorrect == PlaygroundSpec => []PlaygroundTypeOK
<1>1. PlaygroundInit => PanelTypes
  <2> SUFFICES ASSUME PlaygroundInit PROVE PanelTypes
    OBVIOUS
  <2>1. mode \in Mode /\ Listed(mode) # {} /\ selectedEndpoint = FirstListed(mode)
    BY DEF PlaygroundInit
  <2>2. selectedEndpoint \in Endpoint
    BY <2>1, FirstIsEndpoint
  <2>3. sendCount = 0 /\ MaxSends \in Nat
    BY PlaygroundAssumption DEF PlaygroundInit, PlaygroundAssumption
  <2>4. sendCount \in 0 .. MaxSends
    BY <2>3
  <2>5. NoCall \in 0 .. sendCount
    BY <2>4, NoCallYet
  <2> QED BY <2>1, <2>2, <2>4, <2>5 DEF PlaygroundInit, PanelTypes, States
<1>2. PanelTypes /\ [PlaygroundNext]_playgroundVars => PanelTypes'
  BY PanelTypesStep
<1>3. PanelTypes => PlaygroundTypeOK
  BY DEF PanelTypes, IsSend, States, PlaygroundTypeOK
<1> QED BY <1>1, <1>2, <1>3, PTL DEF PlaygroundSpec

----------------------------------------------------------------------------

\* What a modal found is what a page may have.
PartTypes ==
    /\ part \in Part /\ overflow \in {"", "hidden"}
    /\ \A m \in 1 .. Modals : previous[m] \in {"", "hidden"}
ToastTypes == added \in 0 .. MaxToasts /\ toasts \subseteq 1 .. added
ThemeTypes ==
    system \in Theme /\ persisted \in ThemeMode /\ dataTheme \in Theme \cup {"none"}

LEMMA UnlockedTypes ==
    ASSUME PartTypes, NEW m \in 1 .. Modals
    PROVE  Unlocked(m) \in {"", "hidden"}
BY DEF PartTypes, Unlocked

LEMMA StackIsOfModals ==
    ASSUME NEW open \in Seq(1 .. Modals)
    PROVE  ToSet(open) \subseteq 1 .. Modals /\ (open # <<>> => ToSet(open) # {})
<1>1. DOMAIN open = 1 .. Len(open) /\ Len(open) \in Nat
  BY LenProperties
<1>2. \A i \in 1 .. Len(open) : open[i] \in 1 .. Modals
  BY ElementOfSeq
<1>3. open # <<>> => 1 \in 1 .. Len(open)
  BY <1>1, EmptySeq
<1> QED BY <1>1, <1>2, <1>3 DEF ToSet

LEMMA ModalTypesStep ==
    ASSUME ScrollInv, PartTypes, ModalNext
    PROVE  PartTypes'
<1>1. /\ openModals \in Seq(1 .. Modals) /\ DOMAIN previous = 1 .. Modals
      /\ Modals \in Nat
  BY DesignAssumption DEF ScrollInv, OpenOnce, DesignAssumption
<1>2. ASSUME NEW m \in 1 .. Modals, OpenModal(m) PROVE PartTypes'
  <2>1. /\ part' = part /\ overflow' = "hidden"
        /\ previous' = [previous EXCEPT ![m] = overflow] \/ previous' = previous
    BY <1>2 DEF OpenModal
  <2>2. \A k \in 1 .. Modals : previous'[k] \in {"", "hidden"}
    BY <1>1, <2>1 DEF PartTypes
  <2> QED BY <2>1, <2>2 DEF PartTypes
<1>3. CASE CloseModal
  <2>1. PICK i \in DOMAIN openModals : overflow' = Unlocked(openModals[i])
    BY <1>3 DEF CloseModal
  <2>2. openModals[i] \in 1 .. Modals
    BY <1>1, <2>1
  <2>3. part' = part /\ previous' = previous
    BY <1>3 DEF CloseModal
  <2> QED BY <2>1, <2>2, <2>3, UnlockedTypes DEF PartTypes
<1>4. CASE Escape
  <2>1. openModals # <<>> /\ overflow' = Unlocked(Max(ToSet(openModals)))
        /\ part' = part /\ previous' = previous
    BY <1>4 DEF Escape
  <2>2. ToSet(openModals) \subseteq 1 .. Modals /\ ToSet(openModals) # {}
    BY <1>1, <2>1, StackIsOfModals
  <2>3. ToSet(openModals) \in SUBSET Nat /\ \A y \in ToSet(openModals) : y <= Modals
    BY <1>1, <2>2
  <2>4. Max(ToSet(openModals)) \in ToSet(openModals)
    BY <1>1, <2>2, <2>3, GreatestElement
  <2> QED BY <2>1, <2>2, <2>4, UnlockedTypes DEF PartTypes
<1>5. ASSUME NEW m \in 1 .. Modals, UnmountModal(m) PROVE PartTypes'
  BY <1>5 DEF UnmountModal, PartTypes
<1> QED BY <1>2, <1>3, <1>4, <1>5 DEF ModalNext

LEMMA ToastTypesStep == ASSUME ToastTypes, ToastNext PROVE ToastTypes'
<1>1. CASE addToast
  <2>1. added < MaxToasts /\ added' = added + 1 /\ toasts' = toasts \cup {added'}
    BY <1>1 DEF addToast
  <2>2. added \in 0 .. MaxToasts /\ MaxToasts \in Nat
    BY DesignAssumption DEF ToastTypes, DesignAssumption
  <2>3. added' \in 0 .. MaxToasts /\ added' \in 1 .. added' /\ 1 .. added \subseteq 1 .. added'
    BY <2>1, <2>2
  <2> QED BY <2>1, <2>3 DEF ToastTypes
<1>2. CASE Dismiss \/ TimerFires
  BY <1>2 DEF Dismiss, TimerFires, remove, ToastTypes
<1>3. CASE clear \/ SecondPasses
  BY <1>3 DEF clear, SecondPasses, ToastTypes
<1> QED BY <1>1, <1>2, <1>3 DEF ToastNext

LEMMA ResolvedTheme ==
    ASSUME ThemeTypes, NEW m \in ThemeMode
    PROVE  resolveTheme(m) \in Theme
BY DEF ThemeTypes, ThemeMode, resolveTheme

LEMMA ThemeSet ==
    ASSUME ThemeTypes, NEW c, NEW m \in ThemeMode, SetThemeMode(c, m)
    PROVE  ThemeTypes'
BY ResolvedTheme DEF SetThemeMode, ThemeTypes

LEMMA ThemeTypesStep == ASSUME ThemeTypes, ThemeNext PROVE ThemeTypes'
<1>1. ASSUME NEW c \in Themed, MountTheme(c) PROVE ThemeTypes'
  BY <1>1, ResolvedTheme DEF MountTheme, ThemeTypes
<1>2. ASSUME NEW c \in Themed, toggleTheme(c) PROVE ThemeTypes'
  <2>1. PICK m \in ThemeMode : SetThemeMode(c, m)
    BY <1>2 DEF toggleTheme, ThemeMode, Theme
  <2> QED BY <2>1, ThemeSet
<1>3. ASSUME NEW c \in Themed, UnmountTheme(c) PROVE ThemeTypes'
  BY <1>3 DEF UnmountTheme, ThemeTypes
<1>4. CASE SystemChanges \/ OtherTabPersists
  BY <1>4 DEF SystemChanges, OtherTabPersists, ThemeTypes
<1> QED BY <1>1, <1>2, <1>3, <1>4, ThemeSet DEF ThemeNext

DesignTypes == PartTypes /\ ToastTypes /\ ThemeTypes

LEMMA DesignTypesStep ==
    ASSUME ScrollInv, DesignTypes, [DesignNext]_designVars
    PROVE  DesignTypes'
<1>1. part' = part /\ (UNCHANGED modalVars => PartTypes')
  BY DEF DesignTypes, PartTypes, DesignNext, OpenModal, UnmountModal, CloseModal, Escape,
     addToast, Dismiss, TimerFires, remove, clear, SecondPasses, MountTheme, UnmountTheme,
     toggleTheme, SetThemeMode, SystemChanges, OtherTabPersists, designVars, modalVars
<1>2. /\ UNCHANGED toastVars => ToastTypes'
      /\ UNCHANGED themeVars => ThemeTypes'
  BY DEF DesignTypes, ToastTypes, ThemeTypes, toastVars, themeVars
<1>3. CASE ModalNext
  BY <1>2, <1>3, ModalTypesStep, PartsAreApart DEF DesignTypes
<1>4. CASE ToastNext
  BY <1>1, <1>2, <1>4, ToastTypesStep, PartsAreApart DEF DesignTypes
<1>5. CASE ThemeNext
  BY <1>1, <1>2, <1>5, ThemeTypesStep, PartsAreApart DEF DesignTypes
<1>6. CASE UNCHANGED designVars
  <2>1. UNCHANGED <<modalVars, toastVars, themeVars>>
    BY <1>6 DEF designVars, modalVars, toastVars, themeVars
  <2> QED BY <1>1, <1>2, <2>1 DEF DesignTypes
<1> QED BY <1>3, <1>4, <1>5, <1>6, NextIs

\* Whatever is opened, shown and mounted: the page is locked or not, its toasts are ones that were
\* added, and its theme is one that there is, the system's included (use-modal.ts,
\* toast-manager.ts, theme-manager.ts).
THEOREM DesignTypeCorrect == DesignSpec => []DesignTypeOK
<1>1. DesignInit => DesignTypes
  <2> SUFFICES ASSUME DesignInit PROVE DesignTypes
    OBVIOUS
  <2>1. PartTypes
    BY DEF DesignInit, PartTypes
  <2>2. added = 0 /\ toasts = {} /\ MaxToasts \in Nat
    BY DesignAssumption DEF DesignInit, DesignAssumption
  <2>3. added \in 0 .. MaxToasts
    BY <2>2
  <2>4. ThemeTypes
    BY DEF DesignInit, ThemeTypes, Theme, ThemeMode
  <2> QED BY <2>1, <2>2, <2>3, <2>4 DEF DesignTypes, ToastTypes
<1>2. ScrollInv /\ DesignTypes /\ [DesignNext]_designVars => DesignTypes'
  BY DesignTypesStep
<1>3. DesignSpec => []ScrollInv
  BY ScrollInit, ScrollStep, PTL DEF DesignSpec
<1>4. ScrollInv /\ DesignTypes => DesignTypeOK
  <2> SUFFICES ASSUME ScrollInv, DesignTypes PROVE DesignTypeOK
    OBVIOUS
  <2>1. kind \in {"useModal", "LnModal"} /\ openModals \in Seq(1 .. Modals)
    BY DEF ScrollInv, OpenOnce
  <2>2. ToSet(openModals) \subseteq 1 .. Modals
    BY <2>1, StackIsOfModals
  <2> QED BY <2>1, <2>2 DEF DesignTypes, PartTypes, ToastTypes, ThemeTypes, DesignTypeOK
<1> QED BY <1>1, <1>2, <1>3, <1>4, PTL DEF DesignSpec

----------------------------------------------------------------------------

Effects == {"light", "dark"}
Settings == {"light", "dark", "auto"}

\* A provider that is set up is about to load once more, within the bound.
BrandTypes ==
    /\ phase \in {"set up", "mounted", "gone"}
    /\ DOMAIN brand = {"id", "custom"} /\ themeMode \in Settings
    /\ \A el \in {"root", "target"} : dom[el].theme \in Effects \cup {"none"}
    /\ clock \in 0 .. MaxClock /\ loaded \in 0 .. MaxLoads /\ editions \in 0 .. MaxEditions
    /\ phase = "set up" => loaded < MaxLoads

LEMMA EffectiveTheme == ASSUME NEW m \in Settings, NEW dark PROVE Effective(m, dark) \in Effects
BY DEF Settings, Effects, Effective

LEMMA MergeKeepsKeys ==
    ASSUME NEW target, NEW partial
    PROVE  DOMAIN deepMerge(target, partial) = DOMAIN target
BY DEF deepMerge

LEMMA LoadedKeys ==
    /\ \A static : DOMAIN loadBrandConfigSync(static) = {"id", "custom"}
    /\ \A remote, static : DOMAIN loadBrandConfig(remote, static) = {"id", "custom"}
<1>1. DOMAIN DefaultConfig = {"id", "custom"}
  BY DEF DefaultConfig
<1> QED BY <1>1, MergeKeepsKeys DEF loadBrandConfigSync, loadBrandConfig

LEMMA AppliedTypes ==
    ASSUME BrandInv, BrandTypes, NEW el \in {"root", "target"}, NEW given, NEW m \in Settings,
           NEW dark, Applied(el, given, m, dark)
    PROVE  \A e \in {"root", "target"} : dom'[e].theme \in Effects \cup {"none"}
<1>1. Effective(m, dark) \in Effects
  BY EffectiveTheme
<1> DEFINE css == generateCssVariables(given, Effective(m, dark))
           new == [names |-> (dom[el].names \ cssVars.names) \cup css.names,
                   colours |-> css.colours, theme |-> Effective(m, dark)]
<1>2. dom' = [dom EXCEPT ![el] = new]
  BY DEF Applied
<1>3. new.theme \in Effects
  BY <1>1
<1> HIDE DEF new
<1> QED BY <1>2, <1>3 DEF BrandInv, BrandTypes

LEMMA TargetIs == Target \in {"root", "target"}
BY DEF Target

LEMMA BrandTypesStep ==
    ASSUME BrandInv, BrandTypes, [BrandNext]_brandVars
    PROVE  BrandTypes'
<1>1. themeMode \in Settings /\ DOMAIN brand = {"id", "custom"}
  BY DEF BrandTypes
<1>2. CASE Mount
  <2>1. /\ phase = "set up" /\ phase' = "mounted"
        /\ Applied(Target, brand, themeMode, prefersDark)
        /\ UNCHANGED <<brand, themeMode, clock, editions>>
    BY <1>2 DEF Mount
  <2>2. loaded' \in 0 .. MaxLoads
    <3>1. loaded' = loaded + 1 \/ loaded' = loaded
      BY <1>2 DEF Mount
    <3>2. loaded \in 0 .. MaxLoads /\ MaxLoads \in Nat /\ loaded < MaxLoads
      BY <2>1, BrandAssumption DEF BrandTypes, BrandAssumption
    <3> QED BY <3>1, <3>2
  <2>3. \A el \in {"root", "target"} : dom'[el].theme \in Effects \cup {"none"}
    BY <1>1, <2>1, TargetIs, AppliedTypes
  <2> QED BY <2>1, <2>2, <2>3 DEF BrandTypes
<1>3. ASSUME NEW load, NEW remote, LoadEnds(load, remote) PROVE BrandTypes'
  <2>1. /\ Applied(Target, brand', themeMode, prefersDark)
        /\ brand' = loadBrandConfig(remote, load.props)
        /\ UNCHANGED <<phase, themeMode, clock, loaded, editions>>
    BY <1>3 DEF LoadEnds
  <2>2. \A el \in {"root", "target"} : dom'[el].theme \in Effects \cup {"none"}
    BY <1>1, <2>1, TargetIs, AppliedTypes
  <2> QED BY <2>1, <2>2, LoadedKeys DEF BrandTypes
<1>4. CASE updateConfig
  <2>1. PICK p \in Partial : brand' = deepMerge(brand, p)
    BY <1>4 DEF updateConfig
  <2>2. /\ editions < MaxEditions /\ editions' = editions + 1
        /\ UNCHANGED <<phase, themeMode, dom, clock, loaded>>
    BY <1>4 DEF updateConfig
  <2>3. editions \in 0 .. MaxEditions /\ MaxEditions \in Nat
    BY BrandAssumption DEF BrandTypes, BrandAssumption
  <2>4. editions' \in 0 .. MaxEditions
    BY <2>2, <2>3
  <2> QED BY <1>1, <2>1, <2>2, <2>4, MergeKeepsKeys DEF BrandTypes
<1>5. CASE setTheme
  <2>1. PICK m \in {"light", "dark", "auto"} : setThemeMode(m)
    BY <1>5 DEF setTheme
  <2>2. m \in Settings /\ themeMode' = m /\ Applied("root", brand, m, prefersDark)
    BY <2>1 DEF setThemeMode, Settings
  <2>3. UNCHANGED <<phase, brand, clock, loaded, editions>>
    BY <1>5 DEF setTheme
  <2>4. \A el \in {"root", "target"} : dom'[el].theme \in Effects \cup {"none"}
    BY <2>2, AppliedTypes
  <2> QED BY <2>2, <2>3, <2>4 DEF BrandTypes
<1>6. CASE SystemThemeChanges
  <2>1. UNCHANGED <<phase, brand, themeMode, clock, loaded, editions>>
    BY <1>6 DEF SystemThemeChanges
  <2>2. Applied("root", brand, themeMode, prefersDark') \/ dom' = dom
    BY <1>6 DEF SystemThemeChanges
  <2>3. \A el \in {"root", "target"} : dom'[el].theme \in Effects \cup {"none"}
    <3>1. CASE Applied("root", brand, themeMode, prefersDark')
      BY <1>1, <3>1, AppliedTypes
    <3>2. CASE dom' = dom
      BY <3>2 DEF BrandTypes
    <3> QED BY <2>2, <3>1, <3>2
  <2> QED BY <2>1, <2>3 DEF BrandTypes
<1>7. CASE Unmount
  <2> DEFINE new == [names |-> dom["root"].names \ cssVars.names, colours |-> <<>>,
                     theme |-> "none"]
  <2>1. /\ phase' = "gone" /\ dom' = [dom EXCEPT !["root"] = new]
        /\ UNCHANGED <<brand, themeMode, clock, loaded, editions>>
    BY <1>7 DEF Unmount
  <2>2. new.theme = "none"
    OBVIOUS
  <2> HIDE DEF new
  <2>3. \A el \in {"root", "target"} : dom'[el].theme \in Effects \cup {"none"}
    BY <2>1, <2>2 DEF BrandInv, BrandTypes
  <2> QED BY <2>1, <2>3 DEF BrandTypes
<1>8. CASE SetUp
  <2>1. PICK m \in {"light", "auto"} :
          /\ themeMode' = m
          /\ dom' = [dom EXCEPT !["root"] =
                        [names |-> dom["root"].names
                                     \cup generateCssVariables(brand', Effective(m, prefersDark)).names,
                         colours |-> generateCssVariables(brand', Effective(m, prefersDark)).colours,
                         theme |-> Effective(m, prefersDark)]]
    BY <1>8 DEF SetUp
  <2> DEFINE css == generateCssVariables(brand', Effective(m, prefersDark))
             new == [names |-> dom["root"].names \cup css.names, colours |-> css.colours,
                     theme |-> Effective(m, prefersDark)]
  <2>2. m \in Settings /\ Effective(m, prefersDark) \in Effects
    BY EffectiveTheme DEF Settings
  <2>3. dom' = [dom EXCEPT !["root"] = new] /\ new.theme \in Effects
    BY <2>1, <2>2
  <2> HIDE DEF new
  <2>4. \A el \in {"root", "target"} : dom'[el].theme \in Effects \cup {"none"}
    BY <2>3 DEF BrandInv, BrandTypes
  <2>5. /\ phase' = "set up" /\ loaded < MaxLoads /\ brand' = loadBrandConfigSync(props)
        /\ UNCHANGED <<clock, loaded, editions>>
    BY <1>8 DEF SetUp
  <2> QED BY <2>1, <2>2, <2>4, <2>5, LoadedKeys DEF BrandTypes
<1>9. CASE ClockTicks
  <2>1. /\ clock < MaxClock /\ clock' = clock + 1
        /\ UNCHANGED <<phase, brand, themeMode, dom, loaded, editions>>
    BY <1>9 DEF ClockTicks
  <2>2. clock \in 0 .. MaxClock /\ MaxClock \in Nat
    BY BrandAssumption DEF BrandTypes, BrandAssumption
  <2>3. clock' \in 0 .. MaxClock
    BY <2>1, <2>2
  <2> QED BY <2>1, <2>3 DEF BrandTypes
<1>10. CASE UNCHANGED brandVars
  BY <1>10 DEF brandVars, BrandTypes
<1>11. ASSUME NEW load \in loads, RemoteAnswers(load) \/ RemoteFails(load) PROVE BrandTypes'
  BY <1>3, <1>11 DEF RemoteAnswers, RemoteFails
<1> QED BY <1>2, <1>4, <1>5, <1>6, <1>7, <1>8, <1>9, <1>10, <1>11 DEF BrandNext

\* Whatever is loaded, edited and mounted: the engine's configuration has every key of the default
\* one, since merging drops none, and the page's theme is one that there is (deepMerge,
\* _applyCssVariables).
THEOREM BrandTypeCorrect == BrandSpec => []BrandTypeOK
<1>1. BrandInit => BrandTypes
  <2> SUFFICES ASSUME BrandInit PROVE BrandTypes
    OBVIOUS
  <2>1. clock = 0 /\ loaded = 0 /\ editions = 0
    BY DEF BrandInit
  <2>2. MaxClock \in Nat /\ MaxLoads \in Nat /\ MaxEditions \in Nat
    BY BrandAssumption DEF BrandAssumption
  <2>3. clock \in 0 .. MaxClock /\ loaded \in 0 .. MaxLoads /\ editions \in 0 .. MaxEditions
    BY <2>1, <2>2
  <2>4. phase = "gone" /\ themeMode = "light" /\ DOMAIN brand = {"id", "custom"}
    BY LoadedKeys DEF BrandInit
  <2>5. \A el \in {"root", "target"} : dom[el].theme = "none"
    BY DEF BrandInit, Bare
  <2> QED BY <2>3, <2>4, <2>5 DEF BrandTypes, Settings
<1>2. BrandInv /\ BrandTypes /\ [BrandNext]_brandVars => BrandTypes'
  BY BrandTypesStep
<1>3. BrandTypes => BrandTypeOK
  BY DEF BrandTypes, Effects, Settings, BrandTypeOK
<1> QED BY <1>1, <1>2, <1>3, BrandInvariant, PTL DEF BrandSpec

-----------------------------------------------------------------------------
(* Types of the usage records.                                              *)

\* The rows of a table do not change when one is added.
LEMMA EarlierRowsStay ==
    ASSUME NEW R, NEW rows \in Seq(R), NEW r \in R, NEW n \in 0 .. Len(rows)
    PROVE  /\ SubSeq(Append(rows, r), 1, n) = SubSeq(rows, 1, n)
           /\ SubSeq(rows, 1, Len(rows)) = rows
OBVIOUS

\* The rows are ones that the backend may store, and the dashboard holds the answers of its queries
\* as they were when it asked.
THEOREM QuotaTypeCorrect == QuotaSpec => []QuotaTypeOK
<1>1. QuotaInit => QuotaTypeOK
  <2> SUFFICES ASSUME QuotaInit PROVE QuotaTypeOK
    OBVIOUS
  <2>1. /\ quotaData = <<>> /\ data = <<>> /\ usersData = <<>> /\ modelRows = 0 /\ userRows = 0
        /\ role \in {"admin", "user"} /\ category \in Category \cup {"all"} /\ gran \in Granularity
    BY DEF QuotaInit
  <2>2. FirstRows(0) = <<>>
    BY <2>1 DEF FirstRows
  <2>3. GetAllQuotaDates(<<>>) = <<>> /\ GetQuotaDataGroupByUser(<<>>) = <<>>
    BY DEF GetAllQuotaDates, GetQuotaDataGroupByUser
  <2>4. ModelData(FirstRows(0)) = <<>>
    BY <2>2, <2>3 DEF ModelData, GetQuotaDataByUserId
  <2> QED BY <2>1, <2>2, <2>3, <2>4, QuotaAssumption DEF QuotaTypeOK, QuotaAssumption
<1>2. QuotaTypeOK /\ [QuotaNext]_quotaVars => QuotaTypeOK'
  <2> SUFFICES ASSUME QuotaTypeOK, [QuotaNext]_quotaVars PROVE QuotaTypeOK'
    OBVIOUS
  <2>1. CASE StoreUsage
    <3>1. PICK r \in UsageRecord : quotaData' = Append(quotaData, r)
      BY <2>1 DEF StoreUsage
    <3>2. /\ Len(quotaData) < MaxUsage /\ MaxUsage \in Nat
          /\ UNCHANGED <<role, data, usersData, modelRows, userRows, category, gran>>
      BY <2>1, QuotaAssumption DEF StoreUsage, QuotaAssumption
    <3>3. quotaData \in Seq(UsageRecord) /\ Len(quotaData) \in Nat
      BY DEF QuotaTypeOK
    <3>4. quotaData' \in Seq(UsageRecord) /\ Len(quotaData') = Len(quotaData) + 1
      BY <3>1, <3>3
    <3>5. Len(quotaData') <= MaxUsage
      BY <3>2, <3>3, <3>4
    <3>6. modelRows' \in 0 .. Len(quotaData') /\ userRows' \in 0 .. Len(quotaData')
      BY <3>2, <3>3, <3>4 DEF QuotaTypeOK
    <3>7. /\ FirstRows(modelRows)' = FirstRows(modelRows)
          /\ FirstRows(userRows)' = FirstRows(userRows)
      <4>1. modelRows \in 0 .. Len(quotaData) /\ userRows \in 0 .. Len(quotaData)
        BY DEF QuotaTypeOK
      <4> QED BY <3>1, <3>2, <3>3, <4>1, EarlierRowsStay DEF FirstRows
    <3>8. /\ data' = ModelData(FirstRows(modelRows))'
          /\ usersData' = GetQuotaDataGroupByUser(FirstRows(userRows))'
      BY <3>2, <3>7 DEF QuotaTypeOK, ModelData
    <3> QED BY <3>2, <3>4, <3>5, <3>6, <3>8 DEF QuotaTypeOK
  <2>2. CASE fetchModelData
    <3>1. /\ Len(quotaData) \in Nat /\ modelRows' = Len(quotaData) /\ data' = ModelData(quotaData)
          /\ UNCHANGED <<quotaData, role, usersData, userRows, category, gran>>
      BY <2>2 DEF fetchModelData, QuotaTypeOK
    <3>2. FirstRows(modelRows)' = quotaData
      BY <3>1, EarlierRowsStay DEF FirstRows, QuotaTypeOK
    <3>3. data' = ModelData(FirstRows(modelRows))'
      BY <3>1, <3>2 DEF ModelData
    <3>4. usersData' = GetQuotaDataGroupByUser(FirstRows(userRows))'
      BY <3>1 DEF QuotaTypeOK, FirstRows
    <3> QED BY <3>1, <3>3, <3>4 DEF QuotaTypeOK
  <2>3. CASE fetchUsersData
    <3>1. /\ Len(quotaData) \in Nat /\ userRows' = Len(quotaData)
          /\ usersData' = GetQuotaDataGroupByUser(quotaData)
          /\ UNCHANGED <<quotaData, role, data, modelRows, category, gran>>
      BY <2>3 DEF fetchUsersData, QuotaTypeOK
    <3>2. FirstRows(userRows)' = quotaData
      BY <3>1, EarlierRowsStay DEF FirstRows, QuotaTypeOK
    <3>3. usersData' = GetQuotaDataGroupByUser(FirstRows(userRows))'
      BY <3>1, <3>2
    <3>4. data' = ModelData(FirstRows(modelRows))'
      BY <3>1 DEF QuotaTypeOK, FirstRows, ModelData
    <3> QED BY <3>1, <3>3, <3>4 DEF QuotaTypeOK
  <2>4. CASE UNCHANGED quotaVars
    BY <2>4 DEF quotaVars, QuotaTypeOK, FirstRows, ModelData
  <2> QED BY <2>1, <2>2, <2>3, <2>4 DEF QuotaNext
<1> QED BY <1>1, <1>2, PTL DEF QuotaSpec

-----------------------------------------------------------------------------
(* Usage records: the rows that are stored, and the answers made of them.   *)

\* An answer: its records, and that their amounts are numbers.
Recorded(d) ==
    /\ IsFiniteSet(DOMAIN d)
    /\ \A i \in DOMAIN d :
           /\ d[i].created_at \in Nat /\ d[i].quota \in Nat /\ d[i].count \in Nat
           /\ d[i].prompt_tokens \in Nat /\ d[i].completion_tokens \in Nat
           /\ d[i].upstream_cost \in Nat \cup {-1}

\* The rows themselves, and the first of them.
LEMMA RowsAreRecorded ==
    ASSUME QuotaAssumption, QuotaTypeOK, NEW n \in 0 .. Len(quotaData)
    PROVE  /\ n \in Nat /\ IsFiniteSet(1 .. n) /\ 1 .. n \subseteq DOMAIN quotaData
           /\ DOMAIN FirstRows(n) = 1 .. n /\ \A i \in 1 .. n : FirstRows(n)[i] = quotaData[i]
           /\ Recorded(quotaData) /\ Recorded(FirstRows(n))
           /\ \A i \in 1 .. n : /\ QuotaIn(quotaData)[i] \in Nat /\ RequestsIn(quotaData)[i] \in Nat
                                /\ TokensIn(quotaData)[i] \in Nat
<1>1. PICK len \in Nat : len = Len(quotaData) /\ DOMAIN quotaData = 1 .. len
  BY DEF QuotaTypeOK
<1>2. n \in Nat /\ IsFiniteSet(1 .. n) /\ 1 .. n \subseteq DOMAIN quotaData
  BY <1>1, FS_Interval
<1>3. ASSUME NEW i \in DOMAIN quotaData
      PROVE  /\ quotaData[i].created_at \in Nat /\ quotaData[i].quota \in Nat
             /\ quotaData[i].count \in Nat /\ quotaData[i].prompt_tokens \in Nat
             /\ quotaData[i].completion_tokens \in Nat
             /\ quotaData[i].upstream_cost \in Nat \cup {-1}
  <2>1. quotaData[i] \in UsageRecord
    BY <1>1 DEF QuotaTypeOK
  <2> QED BY <2>1 DEF QuotaAssumption
<1>4. IsFiniteSet(DOMAIN quotaData)
  BY <1>1, FS_Interval
<1>5. Recorded(quotaData)
  BY <1>3, <1>4 DEF Recorded
<1>6. /\ DOMAIN FirstRows(n) = 1 .. n /\ \A i \in 1 .. n : FirstRows(n)[i] = quotaData[i]
      /\ Recorded(FirstRows(n))
  <2>1. PICK d : d = FirstRows(n)
    OBVIOUS
  <2>2. DOMAIN d = 1 .. n /\ \A i \in 1 .. n : d[i] = quotaData[i]
    BY <1>1, <1>2, <2>1 DEF FirstRows, QuotaTypeOK
  <2>3. Recorded(d)
    BY <1>2, <1>3, <2>2 DEF Recorded
  <2> QED BY <2>1, <2>2, <2>3
<1>7. ASSUME NEW i \in 1 .. n
      PROVE  /\ QuotaIn(quotaData)[i] \in Nat /\ RequestsIn(quotaData)[i] \in Nat
             /\ TokensIn(quotaData)[i] \in Nat
  <2>1. i \in DOMAIN quotaData
    BY <1>2
  <2> QED BY <1>3, <2>1 DEF QuotaIn, RequestsIn, TokensIn
<1> QED BY <1>2, <1>5, <1>6, <1>7

\* What a row of a query adds up.
SumOfRow(r, S) ==
    /\ r.quota = SumFunctionOnSet(QuotaIn(quotaData), S) /\ r.quota \in Nat
    /\ r.prompt_tokens \in Nat /\ r.completion_tokens \in Nat /\ r.count \in Nat
    /\ r.prompt_tokens + r.completion_tokens = SumFunctionOnSet(TokensIn(quotaData), S)
    /\ r.upstream_cost = -1

LEMMA SumOfRowsIs ==
    ASSUME Recorded(quotaData), NEW S, IsFiniteSet(S), S \subseteq DOMAIN quotaData,
           NEW rows, \A i \in S : rows[i] = quotaData[i],
           NEW user, NEW name, NEW time
    PROVE  /\ SumOfRow(SumOfRows(rows, S, user, name, time), S)
           /\ SumOfRows(rows, S, user, name, time).created_at = time
<1>1. PICK prompt, completion, paid, asked :
          /\ prompt = [i \in S |-> rows[i].prompt_tokens]
          /\ completion = [i \in S |-> rows[i].completion_tokens]
          /\ paid = [i \in S |-> rows[i].quota] /\ asked = [i \in S |-> rows[i].count]
  OBVIOUS
<1>2. PICK quota, tokens : quota = QuotaIn(quotaData) /\ tokens = TokensIn(quotaData)
  OBVIOUS
<1>3. ASSUME NEW i \in S
      PROVE  /\ prompt[i] \in Nat /\ completion[i] \in Nat /\ paid[i] \in Nat /\ asked[i] \in Nat
             /\ tokens[i] = prompt[i] + completion[i] /\ quota[i] = paid[i]
  <2>1. PICK r : r = quotaData[i] /\ r = rows[i]
    OBVIOUS
  <2>2. /\ r.quota \in Nat /\ r.count \in Nat /\ r.prompt_tokens \in Nat
        /\ r.completion_tokens \in Nat
    BY <2>1 DEF Recorded
  <2>3. /\ prompt[i] = r.prompt_tokens /\ completion[i] = r.completion_tokens
        /\ paid[i] = r.quota /\ asked[i] = r.count
    BY <1>1, <2>1
  <2>4. quota[i] = r.quota /\ tokens[i] = r.prompt_tokens + r.completion_tokens
    BY <1>2, <2>1 DEF QuotaIn, TokensIn
  <2> QED BY <2>2, <2>3, <2>4
<1>4. /\ SumFunctionOnSet(prompt, S) \in Nat /\ SumFunctionOnSet(completion, S) \in Nat
      /\ SumFunctionOnSet(paid, S) \in Nat /\ SumFunctionOnSet(asked, S) \in Nat
  BY <1>3, SumOfNaturals
<1>5. SumFunctionOnSet(tokens, S) = SumFunctionOnSet(prompt, S) + SumFunctionOnSet(completion, S)
  <2>1. \A i \in S : /\ prompt[i] \in Int /\ completion[i] \in Int
                     /\ tokens[i] = prompt[i] + completion[i]
    BY <1>3
  <2> QED BY <2>1, SumAdds
<1>6. SumFunctionOnSet(quota, S) = SumFunctionOnSet(paid, S)
  BY <1>3, SumOfEquals
<1>7. PICK r : r = SumOfRows(rows, S, user, name, time)
  OBVIOUS
<1>8. /\ r.quota = SumFunctionOnSet(paid, S) /\ r.count = SumFunctionOnSet(asked, S)
      /\ r.prompt_tokens = SumFunctionOnSet(prompt, S)
      /\ r.completion_tokens = SumFunctionOnSet(completion, S)
      /\ r.upstream_cost = -1 /\ r.created_at = time
  BY <1>1, <1>7 DEF SumOfRows, Total, Undefined
<1> QED BY <1>2, <1>4, <1>5, <1>6, <1>7, <1>8 DEF SumOfRow

\* An answer that groups the first n rows by a key.
GroupsRows(d, n, key) ==
    /\ DOMAIN d = {key[i] : i \in 1 .. n}
    /\ \A k \in DOMAIN d : SumOfRow(d[k], OfKey(1 .. n, key, k)) /\ d[k].created_at \in Nat

\* Grouping loses nothing.
LEMMA GroupsAddUp ==
    ASSUME QuotaAssumption, QuotaTypeOK, NEW n \in 0 .. Len(quotaData),
           NEW d, NEW key, GroupsRows(d, n, key)
    PROVE  /\ Recorded(d)
           /\ SumFunctionOnSet(TokensIn(d), DOMAIN d) = SumFunctionOnSet(TokensIn(quotaData), 1 .. n)
           /\ SumFunctionOnSet(QuotaIn(d), DOMAIN d) = SumFunctionOnSet(QuotaIn(quotaData), 1 .. n)
<1>1. IsFiniteSet(1 .. n)
  BY RowsAreRecorded
<1>2. PICK D : D = DOMAIN d
  OBVIOUS
<1>3. IsFiniteSet(D) /\ \A i \in 1 .. n : key[i] \in D
  BY <1>1, <1>2, FiniteImage DEF GroupsRows
<1>4. \A k \in D : SumOfRow(d[k], OfKey(1 .. n, key, k)) /\ d[k].created_at \in Nat
  BY <1>2 DEF GroupsRows
<1>5. Recorded(d)
  BY <1>2, <1>3, <1>4 DEF Recorded, SumOfRow
<1>6. PICK tokens, quota, ofTokens, ofQuota :
          /\ tokens = TokensIn(d) /\ quota = QuotaIn(d)
          /\ ofTokens = TokensIn(quotaData) /\ ofQuota = QuotaIn(quotaData)
  OBVIOUS
<1>7. \A k \in D : /\ tokens[k] = SumFunctionOnSet(ofTokens, OfKey(1 .. n, key, k))
                   /\ quota[k] = SumFunctionOnSet(ofQuota, OfKey(1 .. n, key, k))
  BY <1>2, <1>4, <1>6 DEF SumOfRow, TokensIn, QuotaIn
<1>8. \A i \in 1 .. n : ofTokens[i] \in Int /\ ofQuota[i] \in Int
  BY <1>6, RowsAreRecorded
<1>9. PICK S : S = 1 .. n
  OBVIOUS
<1>10. SumFunctionOnSet(tokens, D) = SumFunctionOnSet(ofTokens, S)
  <2>1. \A i \in S : key[i] \in D /\ ofTokens[i] \in Int
    BY <1>3, <1>8, <1>9
  <2>2. \A k \in D : tokens[k] = SumFunctionOnSet(ofTokens, OfKey(S, key, k))
    BY <1>7, <1>9
  <2>3. IsFiniteSet(D) /\ IsFiniteSet(S)
    BY <1>1, <1>3, <1>9
  <2> QED BY <2>1, <2>2, <2>3, SumByKey
<1>11. SumFunctionOnSet(quota, D) = SumFunctionOnSet(ofQuota, S)
  <2>1. \A i \in S : key[i] \in D /\ ofQuota[i] \in Int
    BY <1>3, <1>8, <1>9
  <2>2. \A k \in D : quota[k] = SumFunctionOnSet(ofQuota, OfKey(S, key, k))
    BY <1>7, <1>9
  <2>3. IsFiniteSet(D) /\ IsFiniteSet(S)
    BY <1>1, <1>3, <1>9
  <2> QED BY <2>1, <2>2, <2>3, SumByKey
<1> QED BY <1>2, <1>5, <1>6, <1>9, <1>10, <1>11

\* What an administrator is answered has all the usage of the rows: by model, without a category, ...
LEMMA ModelsAreGroups ==
    ASSUME QuotaAssumption, QuotaTypeOK, NEW n \in 0 .. Len(quotaData),
           NEW d, d = GetAllQuotaDates(FirstRows(n))
    PROVE  /\ \E key : GroupsRows(d, n, key)
           /\ \A k \in DOMAIN d : d[k].model_category = Untold
<1>0. PICK rows : /\ rows = FirstRows(n) /\ DOMAIN rows = 1 .. n
                  /\ \A i \in 1 .. n : rows[i] = quotaData[i]
  BY RowsAreRecorded
<1>1. PICK key : key = [i \in 1 .. n |-> <<rows[i].model_name, rows[i].created_at>>]
  OBVIOUS
<1>2. d = [k \in {key[i] : i \in 1 .. n} |->
               SumOfRows(rows, OfKey(1 .. n, key, k), Untold, k[1], k[2])]
  BY <1>0, <1>1 DEF GetAllQuotaDates, OfKey
<1>3. ASSUME NEW k \in DOMAIN d
      PROVE  /\ SumOfRow(d[k], OfKey(1 .. n, key, k)) /\ d[k].created_at \in Nat
             /\ d[k].model_category = Untold
  <2>1. PICK i \in 1 .. n : k = <<quotaData[i].model_name, quotaData[i].created_at>>
    BY <1>0, <1>1, <1>2
  <2>2. k[2] \in Nat
    BY <2>1, RowsAreRecorded DEF Recorded
  <2>3. d[k] = SumOfRows(rows, OfKey(1 .. n, key, k), Untold, k[1], k[2])
    BY <1>2
  <2>4. PICK S, user, name, time :
            /\ S = OfKey(1 .. n, key, k) /\ user = Untold /\ name = k[1] /\ time = k[2]
    BY Zenon
  <2>5. /\ IsFiniteSet(S) /\ S \subseteq DOMAIN quotaData /\ Recorded(quotaData)
        /\ \A j \in S : rows[j] = quotaData[j]
    <3>1. S \in SUBSET (1 .. n)
      BY <2>4 DEF OfKey
    <3> QED BY <1>0, <3>1, RowsAreRecorded, FS_Subset
  <2>6. d[k] = SumOfRows(rows, S, user, name, time)
    BY <2>3, <2>4
  <2>7. SumOfRow(d[k], S) /\ d[k].created_at = time
    BY <2>5, <2>6, SumOfRowsIs
  <2>8. d[k].model_category = Untold
    BY <2>6 DEF SumOfRows
  <2> QED BY <2>2, <2>4, <2>7, <2>8
<1>4. DOMAIN d = {key[i] : i \in 1 .. n}
  BY <1>2
<1>5. GroupsRows(d, n, key)
  BY <1>3, <1>4 DEF GroupsRows
<1> QED BY <1>3, <1>5

\* ... and by user, of a model whose name has no word.
LEMMA UsersAreGroups ==
    ASSUME QuotaAssumption, QuotaTypeOK, NEW n \in 0 .. Len(quotaData),
           NEW d, d = GetQuotaDataGroupByUser(FirstRows(n))
    PROVE  /\ \E key : GroupsRows(d, n, key)
           /\ \A k \in DOMAIN d : d[k].model_category = Untold /\ d[k].model_name = {}
<1>0. PICK rows : /\ rows = FirstRows(n) /\ DOMAIN rows = 1 .. n
                  /\ \A i \in 1 .. n : rows[i] = quotaData[i]
  BY RowsAreRecorded
<1>1. PICK key : key = [i \in 1 .. n |-> <<rows[i].username, rows[i].created_at>>]
  OBVIOUS
<1>2. d = [k \in {key[i] : i \in 1 .. n} |->
               SumOfRows(rows, OfKey(1 .. n, key, k), k[1], {}, k[2])]
  BY <1>0, <1>1 DEF GetQuotaDataGroupByUser, OfKey
<1>3. ASSUME NEW k \in DOMAIN d
      PROVE  /\ SumOfRow(d[k], OfKey(1 .. n, key, k)) /\ d[k].created_at \in Nat
             /\ d[k].model_category = Untold /\ d[k].model_name = {}
  <2>1. PICK i \in 1 .. n : k = <<quotaData[i].username, quotaData[i].created_at>>
    BY <1>0, <1>1, <1>2
  <2>2. k[2] \in Nat
    BY <2>1, RowsAreRecorded DEF Recorded
  <2>3. d[k] = SumOfRows(rows, OfKey(1 .. n, key, k), k[1], {}, k[2])
    BY <1>2
  <2>4. PICK S, user, name, time :
            /\ S = OfKey(1 .. n, key, k) /\ user = k[1] /\ name = {} /\ time = k[2]
    BY Zenon
  <2>5. /\ IsFiniteSet(S) /\ S \subseteq DOMAIN quotaData /\ Recorded(quotaData)
        /\ \A j \in S : rows[j] = quotaData[j]
    <3>1. S \in SUBSET (1 .. n)
      BY <2>4 DEF OfKey
    <3> QED BY <1>0, <3>1, RowsAreRecorded, FS_Subset
  <2>6. d[k] = SumOfRows(rows, S, user, name, time)
    BY <2>3, <2>4
  <2>7. SumOfRow(d[k], S) /\ d[k].created_at = time
    BY <2>5, <2>6, SumOfRowsIs
  <2>8. d[k].model_category = Untold /\ d[k].model_name = {}
    BY <2>4, <2>6 DEF SumOfRows
  <2> QED BY <2>2, <2>4, <2>7, <2>8
<1>4. DOMAIN d = {key[i] : i \in 1 .. n}
  BY <1>2
<1>5. GroupsRows(d, n, key)
  BY <1>3, <1>4 DEF GroupsRows
<1> QED BY <1>3, <1>5

\* The records that the dashboard holds are records, whoever they are for.
LEMMA DataIsRecorded ==
    ASSUME QuotaAssumption, QuotaTypeOK
    PROVE  Recorded(data)
<1>1. modelRows \in 0 .. Len(quotaData) /\ data = ModelData(FirstRows(modelRows))
  BY DEF QuotaTypeOK
<1>2. CASE role = "admin"
  <2>1. PICK d : d = GetAllQuotaDates(FirstRows(modelRows))
    OBVIOUS
  <2>2. Recorded(d)
    BY <1>1, <2>1, ModelsAreGroups, GroupsAddUp
  <2> QED BY <1>1, <1>2, <2>1, <2>2 DEF ModelData
<1>3. CASE role # "admin"
  BY <1>1, <1>3, RowsAreRecorded DEF ModelData, GetQuotaDataByUserId
<1> QED BY <1>2, <1>3

\* What is kept of an answer, and its amounts.
LEMMA AmountsOf ==
    ASSUME NEW d, Recorded(d)
    PROVE  /\ IsFiniteSet(KeptOf(d)) /\ KeptOf(d) \subseteq DOMAIN d
           /\ \A i \in DOMAIN d :
                  /\ QuotaIn(d)[i] \in Nat /\ RequestsIn(d)[i] \in Nat /\ TokensIn(d)[i] \in Nat
<1>1. KeptOf(d) \in SUBSET DOMAIN d
  BY DEF KeptOf
<1>2. IsFiniteSet(KeptOf(d))
  BY <1>1, FS_Subset DEF Recorded
<1>3. \A i \in DOMAIN d :
          /\ QuotaIn(d)[i] \in Nat /\ RequestsIn(d)[i] \in Nat /\ TokensIn(d)[i] \in Nat
  BY DEF Recorded, QuotaIn, RequestsIn, TokensIn
<1> QED BY <1>1, <1>2, <1>3

\* Every record is a record.
LEMMA RecordsAre ==
    ASSUME QuotaAssumption, QuotaTypeOK
    PROVE  /\ IsFiniteSet(Kept) /\ Kept \subseteq DOMAIN data
           /\ \A i \in DOMAIN data :
                  /\ data[i].created_at \in Nat
                  /\ Quota[i] \in Nat /\ Requests[i] \in Nat /\ TokensUsed[i] \in Nat
                  /\ Prompt[i] \in Nat /\ Completion[i] \in Nat /\ Upstream[i] \in Nat
                  /\ TokensUsed[i] = Prompt[i] + Completion[i]
<1>1. PICK d : d = data
  OBVIOUS
<1>2. Recorded(d)
  BY <1>1, DataIsRecorded
<1>3. IsFiniteSet(Kept) /\ Kept \subseteq DOMAIN d
  BY <1>1, <1>2, AmountsOf DEF Kept
<1>4. ASSUME NEW i \in DOMAIN d
      PROVE  /\ d[i].created_at \in Nat
             /\ Quota[i] \in Nat /\ Requests[i] \in Nat /\ TokensUsed[i] \in Nat
             /\ Prompt[i] \in Nat /\ Completion[i] \in Nat /\ Upstream[i] \in Nat
             /\ TokensUsed[i] = Prompt[i] + Completion[i]
  <2>1. PICK r : r = d[i]
    OBVIOUS
  <2>2. /\ r.created_at \in Nat /\ r.quota \in Nat /\ r.count \in Nat /\ r.prompt_tokens \in Nat
        /\ r.completion_tokens \in Nat /\ r.upstream_cost \in Nat \cup {-1}
    BY <1>2, <2>1 DEF Recorded
  <2>3. /\ Quota[i] = r.quota /\ Requests[i] = r.count /\ Prompt[i] = r.prompt_tokens
        /\ Completion[i] = r.completion_tokens
        /\ TokensUsed[i] = r.prompt_tokens + r.completion_tokens
    BY <1>1, <2>1 DEF Quota, Requests, Prompt, Completion, TokensUsed, QuotaIn, RequestsIn, TokensIn
  <2>4. Upstream[i] = IF r.upstream_cost = -1 THEN 0 ELSE r.upstream_cost
    BY <1>1, <2>1 DEF Upstream, Undefined
  <2> QED BY <2>1, <2>2, <2>3, <2>4
<1> QED BY <1>1, <1>3, <1>4

\* An amount of records is a natural.
Amounts == {Quota, Requests, TokensUsed, Prompt, Completion, Upstream}

LEMMA AmountsAre ==
    ASSUME QuotaAssumption, QuotaTypeOK, NEW f \in Amounts, NEW S, S \subseteq Kept
    PROVE  /\ IsFiniteSet(S) /\ \A i \in S : f[i] \in Nat
           /\ Total(f, S) \in Nat /\ Total(f, S) = SumFunctionOnSet(f, S)
<1>1. IsFiniteSet(S)
  BY RecordsAre, FS_Subset
<1>2. \A i \in S : f[i] \in Nat
  BY RecordsAre DEF Amounts
<1>3. SumFunctionOnSet(f, S) \in Nat
  BY <1>1, <1>2, SumOfNaturals
<1> QED BY <1>1, <1>2, <1>3 DEF Total

RanksTaken(below, S) ==
    \A k \in 0 .. Cardinality(S) - 1 : \E x \in S : Cardinality(below[x]) = k

\* Every rank of an order is taken.
LEMMA RanksAreTaken ==
    ASSUME NEW S, IsFiniteSet(S), NEW below, Ranks(below, S)
    PROVE  RanksTaken(below, S)
BY EveryRankIsTaken, SMT DEF RanksTaken

\* The numbers of a set in order are all of them, each once.
LEMMA AscendingIs ==
    ASSUME NEW S \in SUBSET Int, IsFiniteSet(S)
    PROVE  /\ Cardinality(S) \in Nat /\ DOMAIN Ascending(S) = 1 .. Cardinality(S)
           /\ \A k \in 1 .. Cardinality(S) : Ascending(S)[k] \in S
           /\ \A j, k \in 1 .. Cardinality(S) : Ascending(S)[j] = Ascending(S)[k] => j = k
           /\ \A x \in S : \E k \in 1 .. Cardinality(S) : Ascending(S)[k] = x
<1>1. PICK n \in Nat : n = Cardinality(S)
  BY FS_CardinalityType
<1>2. PICK below : below = [x \in S |-> {y \in S : y < x}]
  OBVIOUS
<1>3. Ranks(below, S)
  <2>1. \A x \in S : below[x] \subseteq S /\ x \notin below[x]
    BY <1>2
  <2>2. \A x, y \in S : x # y => x \in below[y] \/ y \in below[x]
    BY <1>2
  <2>3. ASSUME NEW x \in S, NEW y \in S, x \in below[y]
        PROVE  below[x] \subseteq below[y]
    <3>1. x < y
      BY <1>2, <2>3
    <3> SUFFICES ASSUME NEW z \in below[x] PROVE z \in below[y]
      OBVIOUS
    <3>2. z \in S /\ z < x
      BY <1>2
    <3>3. z < y
      BY <3>1, <3>2
    <3> QED BY <1>2, <3>2, <3>3
  <2> QED BY <2>1, <2>2, <2>3, Zenon DEF Ranks
<1>4. PICK f : f = Ascending(S)
  OBVIOUS
<1>5. f = [k \in 1 .. n |-> CHOOSE x \in S : Cardinality({y \in S : y < x}) = k - 1]
  BY <1>1, <1>4 DEF Ascending
<1>6. ASSUME NEW k \in 1 .. n
      PROVE  f[k] \in S /\ Cardinality(below[f[k]]) = k - 1
  <2>1. k - 1 \in 0 .. Cardinality(S) - 1
    BY <1>1
  <2>2. PICK x \in S : Cardinality(below[x]) = k - 1
    <3>1. RanksTaken(below, S)
      BY <1>3, RanksAreTaken, Zenon
    <3> QED BY <2>1, <3>1 DEF RanksTaken
  <2>3. \E z \in S : Cardinality({y \in S : y < z}) = k - 1
    BY <1>2, <2>2
  <2>4. f[k] = CHOOSE z \in S : Cardinality({y \in S : y < z}) = k - 1
    BY <1>5
  <2>5. f[k] \in S /\ Cardinality({y \in S : y < f[k]}) = k - 1
    BY <2>3, <2>4
  <2> QED BY <1>2, <2>5
<1>7. \A j, k \in 1 .. n : f[j] = f[k] => j = k
  <2> SUFFICES ASSUME NEW j \in 1 .. n, NEW k \in 1 .. n, f[j] = f[k] PROVE j = k
    OBVIOUS
  <2>1. j - 1 = k - 1
    BY <1>6
  <2> QED BY <2>1
<1>8. f \in [1 .. n -> S]
  BY <1>5, <1>6
<1>9. f \in Injection(1 .. n, S)
  BY <1>7, <1>8 DEF Injection, IsInjective
<1>10. IsFiniteSet(1 .. n) /\ Cardinality(1 .. n) = n
  BY FS_Interval
<1>11. f \in Surjection(1 .. n, S)
  BY <1>1, <1>9, <1>10, FS_Injection
<1>12. \A x \in S : \E k \in 1 .. n : f[k] = x
  BY <1>11 DEF Surjection
<1>13. DOMAIN f = 1 .. n
  BY <1>5
<1> QED BY <1>1, <1>4, <1>6, <1>7, <1>12, <1>13

-----------------------------------------------------------------------------
(* What is summed up piece by piece.                                          *)

\* What some have in all is no more than what all have.
LEMMA SumOfFewer ==
    ASSUME NEW f, NEW S, IsFiniteSet(S), NEW T \in SUBSET S, \A s \in S : f[s] \in Nat
    PROVE  /\ SumFunctionOnSet(f, T) <= SumFunctionOnSet(f, S)
           /\ SumFunctionOnSet(f, T) \in Nat /\ SumFunctionOnSet(f, S) \in Nat
<1>1. SumFunctionOnSet(f, S) = SumFunctionOnSet(f, S \ T) + SumFunctionOnSet(f, T)
  <2>1. \A s \in S : f[s] \in Int
    OBVIOUS
  <2> QED BY <2>1, SumSplits
<1>2. IsFiniteSet(S \ T) /\ IsFiniteSet(T)
  BY FS_Subset
<1>3. /\ SumFunctionOnSet(f, S \ T) \in Nat /\ SumFunctionOnSet(f, T) \in Nat
      /\ SumFunctionOnSet(f, S) \in Nat
  <2>1. (\A s \in S \ T : f[s] \in Nat) /\ \A s \in T : f[s] \in Nat
    OBVIOUS
  <2> QED BY <1>2, <2>1, SumOfNaturals
<1> QED BY <1>1, <1>3

\* Sets that take a set to pieces.
Parts(piece, D, S) ==
    /\ \A d \in D : piece[d] \subseteq S
    /\ \A s \in S : \E d \in D : s \in piece[d]
    /\ \A c, d \in D : \A s \in S : s \in piece[c] /\ s \in piece[d] => c = d

\* The sums of the parts add up to the sum of all.
LEMMA SumByParts ==
    ASSUME NEW piece, NEW D, NEW S, IsFiniteSet(D), IsFiniteSet(S), Parts(piece, D, S),
           NEW f, \A s \in S : f[s] \in Int,
           NEW sums, \A d \in D : sums[d] = SumFunctionOnSet(f, piece[d])
    PROVE  SumFunctionOnSet(sums, D) = SumFunctionOnSet(f, S)
<1>1. PICK key : key = [s \in S |-> CHOOSE d \in D : s \in piece[d]]
  OBVIOUS
<1>2. ASSUME NEW s \in S
      PROVE  key[s] \in D /\ s \in piece[key[s]]
  <2>1. \E d \in D : s \in piece[d]
    BY DEF Parts
  <2>2. key[s] = CHOOSE d \in D : s \in piece[d]
    BY <1>1
  <2> QED BY <2>1, <2>2
<1>3. ASSUME NEW d \in D
      PROVE  piece[d] = OfKey(S, key, d)
  <2>1. piece[d] \subseteq S
    BY DEF Parts
  <2>2. \A s \in S : s \in piece[d] <=> key[s] = d
    BY <1>2 DEF Parts
  <2> QED BY <2>1, <2>2 DEF OfKey
<1>4. \A s \in S : key[s] \in D /\ f[s] \in Int
  BY <1>2
<1>5. \A d \in D : sums[d] = SumFunctionOnSet(f, OfKey(S, key, d))
  BY <1>3
<1> QED BY <1>4, <1>5, SumByKey

\* A rounded amount is at most half a cent off.
LEMMA Rounded ==
    ASSUME QuotaAssumption, NEW q \in Nat
    PROVE  /\ Cents(q) \in Nat
           /\ 2 * (QuotaPerCent * Cents(q)) <= 2 * q + QuotaPerCent
           /\ 2 * (QuotaPerCent * Cents(q)) >= 2 * q - QuotaPerCent
<1>1. PICK p \in Nat \ {0} : p = QuotaPerCent
  BY DEF QuotaAssumption
<1>2. PICK w \in Nat : w = 2 * q + p
  OBVIOUS
<1>3. PICK v \in Nat \ {0} : v = 2 * p
  OBVIOUS
<1>4. PICK c \in Nat : c = w \div v
  OBVIOUS
<1>5. v * c <= w /\ w < v * c + v
  BY <1>4
<1>6. Cents(q) = c
  BY <1>1, <1>2, <1>3, <1>4 DEF Cents, RoundDiv
<1>7. v * c = 2 * (p * c)
  BY <1>3
<1>8. p * c \in Nat
  OBVIOUS
<1>9. PICK z \in Nat : z = p * c
  BY <1>8
<1>10. 2 * z <= 2 * q + p /\ 2 * z >= 2 * q - p
  BY <1>2, <1>3, <1>5, <1>7, <1>9
<1> QED BY <1>1, <1>6, <1>9, <1>10

LEMMA NothingRounded ==
    ASSUME QuotaAssumption
    PROVE  Cents(0) = 0
<1>1. PICK p \in Nat \ {0} : p = QuotaPerCent
  BY DEF QuotaAssumption
<1>2. (2 * 0 + p) \div (2 * p) = 0
  OBVIOUS
<1> QED BY <1>1, <1>2 DEF Cents, RoundDiv

\* A factor may be dropped on both sides.
LEMMA Scaling ==
    ASSUME NEW p \in Nat \ {0}, NEW x \in Int, NEW y \in Int, p * x <= p * y
    PROVE  x <= y
<1>1. SUFFICES ASSUME y + 1 <= x PROVE FALSE
  OBVIOUS
<1>2. p * (y + 1) <= p * x
  BY <1>1
<1>3. p * (y + 1) = p * y + p
  OBVIOUS
<1>4. p * x \in Int /\ p * y \in Int
  OBVIOUS
<1> QED BY <1>2, <1>3, <1>4

\* What the parts of an amount cost is what it costs in all, but for what rounding may lose.
LEMMA RoundedParts ==
    ASSUME QuotaAssumption,
           NEW piece, NEW D, NEW S, IsFiniteSet(D), IsFiniteSet(S), Parts(piece, D, S),
           NEW f, \A s \in S : f[s] \in Nat,
           NEW cost, \A d \in D : cost[d] = Cents(SumFunctionOnSet(f, piece[d]))
    PROVE  /\ Near(SumFunctionOnSet(cost, D), Cents(SumFunctionOnSet(f, S)), Cardinality(D) + 1)
<1>1. PICK p \in Nat \ {0} : p = QuotaPerCent
  BY DEF QuotaAssumption
<1>2. PICK q : q = [d \in D |-> SumFunctionOnSet(f, piece[d])]
  OBVIOUS
<1>3. ASSUME NEW d \in D
      PROVE  q[d] \in Nat
  <2>1. piece[d] \in SUBSET S
    BY DEF Parts
  <2>2. IsFiniteSet(piece[d])
    BY <2>1, FS_Subset
  <2>3. \A s \in piece[d] : f[s] \in Nat
    BY <2>1
  <2> QED BY <1>2, <2>2, <2>3, SumOfNaturals
<1>4. \A d \in D : /\ cost[d] \in Nat
                   /\ 2 * (p * cost[d]) <= 2 * q[d] + p
                   /\ 2 * (p * cost[d]) >= 2 * q[d] - p
  BY <1>1, <1>2, <1>3, Rounded
<1>5. SumFunctionOnSet(q, D) = SumFunctionOnSet(f, S)
  BY <1>2, SumByParts
<1>6. SumFunctionOnSet(f, S) \in Nat
  BY SumOfNaturals
<1>7. PICK all \in Nat : all = SumFunctionOnSet(f, S)
  BY <1>6
<1>8. PICK v \in Int : v = 2 * p
  OBVIOUS
<1>9. PICK mid, low, high :
        /\ mid = [d \in D |-> v * cost[d] + 0]
        /\ low = [d \in D |-> 2 * q[d] + (0 - p)]
        /\ high = [d \in D |-> 2 * q[d] + p]
  OBVIOUS
<1>10. /\ SumFunctionOnSet(cost, D) \in Int /\ Cardinality(D) \in Nat
       /\ SumFunctionOnSet(mid, D) = v * SumFunctionOnSet(cost, D) + 0 * Cardinality(D)
  <2>1. \A d \in D : cost[d] \in Int /\ mid[d] = v * cost[d] + 0
    BY <1>4, <1>9
  <2>2. PICK b \in Int : b = 0
    OBVIOUS
  <2>3. \A d \in D : cost[d] \in Int /\ mid[d] = v * cost[d] + b
    BY <2>1, <2>2
  <2>4. Linear(mid, cost, v, b, D)
    BY <2>3, Zenon DEF Linear
  <2>5. SumIsLinear(mid, cost, v, b, D)
    BY <2>4, SumLinear, Zenon
  <2> QED BY <2>2, <2>5 DEF SumIsLinear
<1>11. SumFunctionOnSet(low, D) = 2 * all + (0 - p) * Cardinality(D)
  <2>1. PICK a \in Int, b \in Int : a = 2 /\ b = 0 - p
    OBVIOUS
  <2>2. \A d \in D : q[d] \in Int /\ low[d] = a * q[d] + b
    BY <1>3, <1>9, <2>1
  <2>3. Linear(low, q, a, b, D)
    BY <2>2, Zenon DEF Linear
  <2>4. SumIsLinear(low, q, a, b, D)
    BY <2>3, SumLinear, Zenon
  <2> QED BY <1>5, <1>7, <2>1, <2>4 DEF SumIsLinear
<1>12. SumFunctionOnSet(high, D) = 2 * all + p * Cardinality(D)
  <2>1. PICK a \in Int, b \in Int : a = 2 /\ b = p
    OBVIOUS
  <2>2. \A d \in D : q[d] \in Int /\ high[d] = a * q[d] + b
    BY <1>3, <1>9, <2>1
  <2>3. Linear(high, q, a, b, D)
    BY <2>2, Zenon DEF Linear
  <2>4. SumIsLinear(high, q, a, b, D)
    BY <2>3, SumLinear, Zenon
  <2> QED BY <1>5, <1>7, <2>1, <2>4 DEF SumIsLinear
<1>13. \A d \in D : /\ mid[d] \in Int /\ low[d] \in Int /\ high[d] \in Int
                    /\ low[d] <= mid[d] /\ mid[d] <= high[d]
  <2> SUFFICES ASSUME NEW d \in D
               PROVE  /\ mid[d] \in Int /\ low[d] \in Int /\ high[d] \in Int
                      /\ low[d] <= mid[d] /\ mid[d] <= high[d]
    OBVIOUS
  <2>1. PICK c \in Nat, r \in Nat : c = cost[d] /\ r = q[d]
    BY <1>3, <1>4
  <2>2. p * c \in Nat /\ v * c = 2 * (p * c)
    BY <1>8
  <2>3. PICK z \in Nat : z = p * c
    BY <2>2
  <2>4. 2 * z <= 2 * r + p /\ 2 * z >= 2 * r - p
    BY <1>4, <2>1, <2>3
  <2>5. mid[d] = 2 * z /\ low[d] = 2 * r + (0 - p) /\ high[d] = 2 * r + p
    <3>1. mid[d] = v * c + 0
      BY <1>9, <2>1
    <3>2. low[d] = 2 * r + (0 - p) /\ high[d] = 2 * r + p
      BY <1>9, <2>1
    <3> QED BY <2>2, <2>3, <3>1, <3>2
  <2> QED BY <2>4, <2>5
<1>14. SumFunctionOnSet(low, D) <= SumFunctionOnSet(mid, D)
  BY <1>13, SumAtMost
<1>15. SumFunctionOnSet(mid, D) <= SumFunctionOnSet(high, D)
  BY <1>13, SumAtMost
<1>16. PICK c \in Int, n \in Nat : c = SumFunctionOnSet(cost, D) /\ n = Cardinality(D)
  BY <1>10
<1>17. PICK t \in Nat : /\ t = Cents(all)
                        /\ 2 * (p * t) <= 2 * all + p /\ 2 * (p * t) >= 2 * all - p
  BY <1>1, Rounded
<1>18. /\ v * c = 2 * (p * c) /\ (0 - p) * n = 0 - p * n /\ 0 * n = 0
       /\ p * c \in Int /\ p * n \in Int /\ p * t \in Int
  BY <1>8
<1>19. PICK pc \in Int, pn \in Int, pt \in Int : pc = p * c /\ pn = p * n /\ pt = p * t
  BY <1>18
<1>20. 2 * all - pn <= 2 * pc /\ 2 * pc <= 2 * all + pn
  BY <1>10, <1>11, <1>12, <1>14, <1>15, <1>16, <1>18, <1>19
<1>21. 2 * pc - 2 * pt <= pn + p /\ 2 * pt - 2 * pc <= pn + p
  BY <1>17, <1>19, <1>20
<1>22. /\ p * (2 * (c - t)) = 2 * pc - 2 * pt /\ p * (2 * (t - c)) = 2 * pt - 2 * pc
       /\ p * (n + 1) = pn + p
  BY <1>19
<1>23. 2 * (c - t) <= n + 1
  <2>1. PICK x \in Int, y \in Int : x = 2 * (c - t) /\ y = n + 1
    OBVIOUS
  <2>2. p * x <= p * y
    BY <1>21, <1>22, <2>1
  <2> QED BY <2>1, <2>2, Scaling
<1>24. 2 * (t - c) <= n + 1
  <2>1. PICK x \in Int, y \in Int : x = 2 * (t - c) /\ y = n + 1
    OBVIOUS
  <2>2. p * x <= p * y
    BY <1>21, <1>22, <2>1
  <2> QED BY <2>1, <2>2, Scaling
<1>25. Near(c, t, n + 1)
  BY <1>23, <1>24 DEF Near
<1> QED BY <1>7, <1>16, <1>17, <1>25

-----------------------------------------------------------------------------
(* Time buckets.                                                            *)

KeyOf(g) == [i \in Kept |-> timestampToDateKey(data[i].created_at, g)]

\* The key of an hour is the number of it, of its day, of the Monday of its week or of its month.
LEMMA KeysAre ==
    ASSUME NEW time \in Nat, NEW g \in Granularity
    PROVE  /\ timestampToDateKey(time, g) \in Int
           /\ g = "weekly" => (time \div 24) - timestampToDateKey(time, g) \in 0 .. 6
<1>1. PICK day \in Nat : day = time \div 24
  OBVIOUS
<1>2. CASE g = "hourly"
  BY <1>2 DEF timestampToDateKey
<1>3. CASE g = "daily"
  <2>1. timestampToDateKey(time, g) = day
    BY <1>1, <1>3 DEF timestampToDateKey
  <2> QED BY <1>3, <2>1
<1>4. CASE g = "weekly"
  <2>1. PICK weekday \in 0 .. 6 : weekday = (day + 1) % 7
    OBVIOUS
  <2>2. Monday(day) = day + (IF weekday = 0 THEN -6 ELSE 1) - weekday
    BY <2>1 DEF Monday
  <2>3. Monday(day) \in Int /\ day - Monday(day) \in 0 .. 6
    BY <2>2
  <2>4. timestampToDateKey(time, g) = Monday(day)
    BY <1>1, <1>4 DEF timestampToDateKey
  <2> QED BY <1>1, <2>3, <2>4
<1>5. CASE g = "monthly"
  <2>1. PICK months : months = {m \in 1 .. 12 : MonthStart[m] <= day}
    OBVIOUS
  <2>2. months \in SUBSET Nat /\ 1 \in months /\ \A m \in months : m <= 12
    <3>1. MonthStart[1] = 0
      BY DEF MonthStart
    <3> QED BY <2>1, <3>1
  <2>3. Max(months) \in months
    <3>1. PICK twelve \in Nat : twelve = 12
      OBVIOUS
    <3>2. \A m \in months : m <= twelve
      BY <2>2, <3>1
    <3>3. months # {}
      BY <2>2
    <3> QED BY <2>2, <3>2, <3>3, GreatestElement
  <2>4. timestampToDateKey(time, g) = Max(months)
    BY <1>1, <1>5, <2>1 DEF timestampToDateKey
  <2>5. Max(months) \in Nat
    BY <2>2, <2>3, Zenon
  <2>6. g # "weekly"
    BY <1>5
  <2> QED BY <2>4, <2>5, <2>6
<1> QED BY <1>2, <1>3, <1>4, <1>5 DEF Granularity

\* The buckets of an answer: their number, and the records of each.
Bucketed(buckets, n, records) ==
    /\ n \in Nat /\ IsFiniteSet(1 .. n) /\ Cardinality(1 .. n) = n
    /\ DOMAIN buckets = 1 .. n
    /\ records = [b \in 1 .. n |-> buckets[b].records]
    /\ Parts(records, 1 .. n, Kept)

\* Every record that the query keeps falls into one bucket.
LEMMA BucketsAre ==
    ASSUME QuotaAssumption, QuotaTypeOK, NEW g \in Granularity
    PROVE  /\ \E n, records : Bucketed(aggregateByTime(g), n, records)
           /\ \A b \in DOMAIN aggregateByTime(g) : \A i \in aggregateByTime(g)[b].records :
                  /\ i \in Kept
                  /\ aggregateByTime(g)[b].dateKey = timestampToDateKey(data[i].created_at, g)
<1>1. PICK key : key = KeyOf(g)
  OBVIOUS
<1>2. \A i \in Kept : key[i] \in Int
  BY <1>1, RecordsAre, KeysAre DEF KeyOf
<1>3. PICK all : all = {key[i] : i \in Kept}
  OBVIOUS
<1>4. all \in SUBSET Int /\ IsFiniteSet(all)
  <2>1. all \in SUBSET Int
    BY <1>2, <1>3
  <2>2. IsFiniteSet(all)
    BY <1>3, RecordsAre, FiniteImage
  <2> QED BY <2>1, <2>2
<1>5. PICK keys : keys = Ascending(all)
  OBVIOUS
<1>6. PICK n : n = Cardinality(all)
  OBVIOUS
<1>7. /\ n \in Nat /\ DOMAIN keys = 1 .. n
      /\ \A k \in 1 .. n : keys[k] \in all
      /\ \A j, k \in 1 .. n : keys[j] = keys[k] => j = k
      /\ \A x \in all : \E k \in 1 .. n : keys[k] = x
  BY <1>4, <1>5, <1>6, AscendingIs
<1>8. PICK buckets : buckets = aggregateByTime(g)
  OBVIOUS
<1>9. buckets = [b \in 1 .. n |-> [dateKey |-> keys[b], records |-> {i \in Kept : key[i] = keys[b]}]]
  BY <1>1, <1>3, <1>5, <1>7, <1>8 DEF aggregateByTime, KeyOf
<1>10. PICK records : records = [b \in 1 .. n |-> {i \in Kept : key[i] = keys[b]}]
  OBVIOUS
<1>11. records = [b \in 1 .. n |-> buckets[b].records]
  BY <1>9, <1>10
<1>12. Parts(records, 1 .. n, Kept)
  <2>1. \A b \in 1 .. n : records[b] \subseteq Kept
    BY <1>10
  <2>2. ASSUME NEW i \in Kept
        PROVE  \E b \in 1 .. n : i \in records[b]
    <3>1. key[i] \in all
      BY <1>3
    <3>2. PICK b \in 1 .. n : keys[b] = key[i]
      BY <1>7, <3>1
    <3> QED BY <1>10, <3>2
  <2>3. ASSUME NEW b \in 1 .. n, NEW c \in 1 .. n, NEW i \in Kept, i \in records[b], i \in records[c]
        PROVE  b = c
    <3>1. key[i] = keys[b] /\ key[i] = keys[c]
      BY <1>10, <2>3
    <3> QED BY <1>7, <3>1
  <2> QED BY <2>1, <2>2, <2>3 DEF Parts
<1>13. IsFiniteSet(1 .. n) /\ Cardinality(1 .. n) = n
  BY <1>7, FS_Interval
<1>14. DOMAIN buckets = 1 .. n
  BY <1>9
<1>15. Bucketed(buckets, n, records)
  BY <1>7, <1>11, <1>12, <1>13, <1>14, Zenon DEF Bucketed
<1>16. \A b \in 1 .. n : \A i \in buckets[b].records :
           i \in Kept /\ buckets[b].dateKey = timestampToDateKey(data[i].created_at, g)
  <2> SUFFICES ASSUME NEW b \in 1 .. n, NEW i \in buckets[b].records
               PROVE  i \in Kept /\ buckets[b].dateKey = timestampToDateKey(data[i].created_at, g)
    OBVIOUS
  <2>1. i \in Kept /\ key[i] = keys[b] /\ buckets[b].dateKey = keys[b]
    BY <1>9
  <2> QED BY <1>1, <2>1 DEF KeyOf
<1> QED BY <1>8, <1>14, <1>15, <1>16

\* The records of every bucket fall into its time, and none is left out.
LEMMA RecordsHaveTheirBucket ==
    ASSUME QuotaAssumption, QuotaTypeOK
    PROVE  BucketsHold
<1>1. gran \in Granularity
  BY DEF QuotaTypeOK
<1>2. PICK buckets : buckets = aggregateByTime(gran)
  OBVIOUS
<1>3. PICK n, records : Bucketed(buckets, n, records)
  BY <1>1, <1>2, BucketsAre
<1>4. UNION {buckets[b].records : b \in DOMAIN buckets} = Kept
  <2>1. DOMAIN buckets = 1 .. n /\ \A b \in 1 .. n : records[b] = buckets[b].records
    BY <1>3 DEF Bucketed
  <2>2. \A b \in 1 .. n : records[b] \subseteq Kept
    BY <1>3 DEF Bucketed, Parts
  <2>3. \A i \in Kept : \E b \in 1 .. n : i \in records[b]
    BY <1>3 DEF Bucketed, Parts
  <2> QED BY <2>1, <2>2, <2>3
<1>5. ASSUME gran = "weekly", NEW b \in DOMAIN buckets, NEW i \in buckets[b].records
      PROVE  (data[i].created_at \div 24) - buckets[b].dateKey \in 0 .. 6
  <2>1. i \in Kept /\ buckets[b].dateKey = timestampToDateKey(data[i].created_at, gran)
    BY <1>1, <1>2, BucketsAre
  <2>2. data[i].created_at \in Nat
    BY <2>1, RecordsAre
  <2> QED BY <1>1, <1>5, <2>1, <2>2, KeysAre
<1> QED BY <1>2, <1>4, <1>5 DEF BucketsHold

-----------------------------------------------------------------------------
(* Trends.                                                                  *)

Names == {data[i].model_name : i \in Kept}

OfModel(S, m) == {i \in S : data[i].model_name = m}

Priced(S) == \E i \in S : data[i].upstream_cost # Undefined

CostSeries(series, n, records) ==
    /\ DOMAIN series = 1 .. n /\ Len(series) = n
    /\ \A b \in 1 .. n :
           /\ series[b].totalCost = Cents(SumFunctionOnSet(Quota, records[b]))
           /\ series[b].byModel = [m \in {data[i].model_name : i \in records[b]} |->
                                      Cents(SumFunctionOnSet(Quota, OfModel(records[b], m)))]
           /\ series[b].upstreamCost = IF \E c \in 1 .. b : Priced(records[c])
                                       THEN Cents(SumFunctionOnSet(Upstream, records[b]))
                                       ELSE Undefined

\* The cost trend, bucket by bucket.
LEMMA CostTrendIs ==
    ASSUME NEW n, NEW records, Bucketed(aggregateByTime(gran), n, records), NEW cost,
           cost = computeCostTrend(gran)
    PROVE  /\ CostSeries(cost.series, n, records) /\ cost.models = Names
           /\ cost.total = SumFunctionOnSet([b \in 1 .. n |-> cost.series[b].totalCost], 1 .. n)
<1>1. PICK buckets : buckets = aggregateByTime(gran)
  OBVIOUS
<1>2. /\ n \in Nat /\ DOMAIN buckets = 1 .. n
      /\ \A b \in 1 .. n : records[b] = buckets[b].records
  BY <1>1 DEF Bucketed
<1>3. PICK series : series = [b \in 1 .. n |-> CostPoint(buckets, b)]
  OBVIOUS
<1>4. /\ cost.series = series /\ cost.models = {data[i].model_name : i \in Kept}
      /\ cost.total = SumFunction([b \in DOMAIN series |-> series[b].totalCost])
  BY <1>1, <1>2, <1>3 DEF computeCostTrend
<1>5. DOMAIN series = 1 .. n
  BY <1>3
<1>6. Len(series) = n
  <2>1. PICK R : R = {CostPoint(buckets, b) : b \in 1 .. n}
    OBVIOUS
  <2>2. series \in [1 .. n -> R]
    BY <1>3, <2>1
  <2>3. series \in Seq(R)
    BY <1>2, <2>2, SeqDef
  <2> QED BY <1>2, <1>5, <2>3, LenProperties
<1>7. ASSUME NEW b \in 1 .. n
      PROVE  /\ series[b].totalCost = Cents(SumFunctionOnSet(Quota, records[b]))
             /\ series[b].byModel = [m \in {data[i].model_name : i \in records[b]} |->
                                        Cents(SumFunctionOnSet(Quota, OfModel(records[b], m)))]
             /\ series[b].upstreamCost = IF \E c \in 1 .. b : Priced(records[c])
                                         THEN Cents(SumFunctionOnSet(Upstream, records[b]))
                                         ELSE Undefined
  <2>1. series[b] = CostPoint(buckets, b)
    BY <1>3
  <2>2. PICK held : held = records[b] /\ held = buckets[b].records
    BY <1>2
  <2>3. series[b].totalCost = Cents(Total(Quota, held))
    BY <2>1, <2>2 DEF CostPoint
  <2>4. series[b].byModel = [m \in {data[i].model_name : i \in held} |->
                                Cents(Total(Quota, {i \in held : data[i].model_name = m}))]
    BY <2>1, <2>2 DEF CostPoint
  <2>5. series[b].upstreamCost =
            IF \E c \in 1 .. b : \E i \in buckets[c].records : data[i].upstream_cost # Undefined
            THEN Cents(Total(Upstream, held)) ELSE Undefined
    BY <2>1, <2>2 DEF CostPoint
  <2>6. \A c \in 1 .. b : records[c] = buckets[c].records
    BY <1>2
  <2>7. (\E c \in 1 .. b : Priced(records[c]))
          <=> \E c \in 1 .. b : \E i \in buckets[c].records : data[i].upstream_cost # Undefined
    BY <2>6, Zenon DEF Priced
  <2> QED BY <2>2, <2>3, <2>4, <2>5, <2>7, Zenon DEF Total, OfModel
<1>8. CostSeries(series, n, records)
  BY <1>5, <1>6, <1>7, Zenon DEF CostSeries
<1> QED BY <1>4, <1>5, <1>8, Zenon DEF Names, SumFunction

\* The cost of every bucket adds up to that of the query.
LEMMA TotalIsNear ==
    ASSUME QuotaAssumption, QuotaTypeOK,
           NEW n, NEW records, Bucketed(aggregateByTime(gran), n, records),
           NEW series, CostSeries(series, n, records)
    PROVE  Near(SumFunctionOnSet([b \in 1 .. n |-> series[b].totalCost], 1 .. n),
                computeSummary.totalCost, n + 1)
<1>1. PICK sums : sums = [b \in 1 .. n |-> series[b].totalCost]
  OBVIOUS
<1>2. /\ IsFiniteSet(1 .. n) /\ Cardinality(1 .. n) = n /\ Parts(records, 1 .. n, Kept)
  BY DEF Bucketed
<1>3. \A b \in 1 .. n : sums[b] = Cents(SumFunctionOnSet(Quota, records[b]))
  BY <1>1 DEF CostSeries
<1>4. IsFiniteSet(Kept) /\ \A i \in Kept : Quota[i] \in Nat
  BY RecordsAre
<1>5. Near(SumFunctionOnSet(sums, 1 .. n), Cents(SumFunctionOnSet(Quota, Kept)), Cardinality(1 .. n) + 1)
  BY <1>2, <1>3, <1>4, RoundedParts
<1>6. computeSummary.totalCost = Cents(SumFunctionOnSet(Quota, Kept))
  BY DEF computeSummary, Total
<1> QED BY <1>1, <1>2, <1>5, <1>6, Zenon

\* The models of records take them to pieces.
LEMMA ModelsArePieces ==
    ASSUME QuotaAssumption, QuotaTypeOK, NEW S \in SUBSET Kept
    PROVE  /\ IsFiniteSet(Names) /\ IsFiniteSet(S)
           /\ Parts([m \in Names |-> OfModel(S, m)], Names, S)
<1>1. PICK name : name = [i \in Kept |-> data[i].model_name]
  OBVIOUS
<1>2. Names = {name[i] : i \in Kept}
  BY <1>1 DEF Names
<1>3. IsFiniteSet(Names) /\ IsFiniteSet(S)
  BY <1>2, RecordsAre, FiniteImage, FS_Subset
<1>4. PICK piece : piece = [m \in Names |-> OfModel(S, m)]
  OBVIOUS
<1>5. \A m \in Names : \A i \in S : i \in piece[m] <=> data[i].model_name = m
  BY <1>4 DEF OfModel
<1>6. \A m \in Names : piece[m] \subseteq S
  BY <1>4 DEF OfModel
<1>7. \A i \in S : data[i].model_name \in Names
  BY DEF Names
<1>8. Parts(piece, Names, S)
  BY <1>5, <1>6, <1>7 DEF Parts
<1> QED BY <1>3, <1>4, <1>8

\* The tooltip of a bucket shows the sum of the lines: the cost of the bucket.
LEMMA TooltipIsNear ==
    ASSUME QuotaAssumption, QuotaTypeOK,
           NEW n, NEW records, Bucketed(aggregateByTime(gran), n, records),
           NEW cost, cost = computeCostTrend(gran), NEW b \in 1 .. n
    PROVE  Near(CostTooltip(cost, b), cost.series[b].totalCost, Cardinality(cost.models) + 1)
<1>1. CostSeries(cost.series, n, records) /\ cost.models = Names
  BY CostTrendIs, Zenon
<1>2. PICK held : held = records[b]
  OBVIOUS
<1>3. held \in SUBSET Kept
  BY <1>2 DEF Bucketed, Parts
<1>4. PICK line : line = [m \in Names |-> useCostTrendOptions(cost)[m][b]]
  OBVIOUS
<1>5. PICK piece : piece = [m \in Names |-> OfModel(held, m)]
  OBVIOUS
<1>6. PICK point : point = cost.series[b]
  OBVIOUS
<1>7. /\ point.totalCost = Cents(SumFunctionOnSet(Quota, held))
      /\ point.byModel = [m \in {data[i].model_name : i \in held} |->
                             Cents(SumFunctionOnSet(Quota, OfModel(held, m)))]
  BY <1>1, <1>2, <1>6 DEF CostSeries
<1>8. ASSUME NEW m \in Names
      PROVE  line[m] = Cents(SumFunctionOnSet(Quota, piece[m]))
  <2>1. line[m] = IF m \in DOMAIN point.byModel THEN point.byModel[m] ELSE 0
    <3>1. b \in DOMAIN cost.series /\ m \in cost.models
      BY <1>1 DEF CostSeries
    <3> QED BY <1>4, <1>6, <3>1 DEF useCostTrendOptions
  <2>2. CASE m \in {data[i].model_name : i \in held}
    BY <1>5, <1>7, <2>1, <2>2
  <2>3. CASE m \notin {data[i].model_name : i \in held}
    <3>1. piece[m] = {}
      BY <1>5, <2>3 DEF OfModel
    <3>2. SumFunctionOnSet(Quota, piece[m]) = 0
      BY <3>1, SumOfNothing
    <3>3. m \notin DOMAIN point.byModel
      BY <1>7, <2>3
    <3> QED BY <2>1, <3>2, <3>3, NothingRounded
  <2> QED BY <2>2, <2>3
<1>9. IsFiniteSet(Names) /\ IsFiniteSet(held) /\ Parts(piece, Names, held)
  BY <1>3, <1>5, ModelsArePieces
<1>10. \A i \in held : Quota[i] \in Nat
  BY <1>3, RecordsAre
<1>11. Near(SumFunctionOnSet(line, Names), Cents(SumFunctionOnSet(Quota, held)), Cardinality(Names) + 1)
  BY <1>8, <1>9, <1>10, RoundedParts
<1>12. CostTooltip(cost, b) = SumFunctionOnSet(line, Names)
  <2>1. DOMAIN line = Names
    BY <1>4
  <2>2. CostTooltip(cost, b) = SumFunction(line)
    BY <1>1, <1>4 DEF CostTooltip
  <2> QED BY <2>1, <2>2 DEF SumFunction
<1> QED BY <1>1, <1>6, <1>7, <1>11, <1>12

\* The lines of the models are the costs that the analysis has of them.
LEMMA LinesAreTrends ==
    ASSUME QuotaAssumption, QuotaTypeOK,
           NEW n, NEW records, Bucketed(aggregateByTime(gran), n, records),
           NEW cost, cost = computeCostTrend(gran), NEW m \in Names
    PROVE  useCostTrendOptions(cost)[m] = computeModelAnalysis(gran).trends[m]
<1>1. CostSeries(cost.series, n, records) /\ cost.models = Names
  BY CostTrendIs, Zenon
<1>2. PICK buckets : buckets = aggregateByTime(gran)
  OBVIOUS
<1>3. DOMAIN buckets = 1 .. n /\ \A b \in 1 .. n : records[b] = buckets[b].records
  BY <1>2 DEF Bucketed
<1>4. computeModelAnalysis(gran).trends[m] =
          [b \in 1 .. n |-> Cents(Total(Quota, {i \in buckets[b].records : data[i].model_name = m}))]
  BY <1>2, <1>3 DEF computeModelAnalysis, Names
<1>5. useCostTrendOptions(cost)[m] =
          [b \in 1 .. n |-> IF m \in DOMAIN cost.series[b].byModel THEN cost.series[b].byModel[m] ELSE 0]
  <2>1. DOMAIN cost.series = 1 .. n
    BY <1>1 DEF CostSeries
  <2> QED BY <1>1, <2>1 DEF useCostTrendOptions
<1>6. ASSUME NEW b \in 1 .. n
      PROVE  (IF m \in DOMAIN cost.series[b].byModel THEN cost.series[b].byModel[m] ELSE 0)
               = Cents(Total(Quota, {i \in buckets[b].records : data[i].model_name = m}))
  <2>1. PICK held : held = records[b]
    OBVIOUS
  <2>2. {i \in buckets[b].records : data[i].model_name = m} = OfModel(held, m)
    BY <1>3, <2>1 DEF OfModel
  <2>3. PICK byModel : byModel = cost.series[b].byModel
    OBVIOUS
  <2>4. byModel = [x \in {data[i].model_name : i \in held} |->
                             Cents(SumFunctionOnSet(Quota, OfModel(held, x)))]
    BY <1>1, <2>1, <2>3 DEF CostSeries
  <2>5. CASE m \in {data[i].model_name : i \in held}
    BY <2>2, <2>3, <2>4, <2>5 DEF Total
  <2>6. CASE m \notin {data[i].model_name : i \in held}
    <3>1. OfModel(held, m) = {}
      BY <2>6 DEF OfModel
    <3>2. SumFunctionOnSet(Quota, OfModel(held, m)) = 0
      BY <3>1, SumOfNothing
    <3>3. m \notin DOMAIN byModel
      BY <2>4, <2>6
    <3> QED BY <2>2, <2>3, <3>2, <3>3, NothingRounded DEF Total
  <2> QED BY <2>5, <2>6
<1> QED BY <1>4, <1>5, <1>6

\* The bars of the buckets add up to the tokens of the query.
LEMMA TokenBarsAddUp ==
    ASSUME QuotaAssumption, QuotaTypeOK,
           NEW n, NEW records, Bucketed(aggregateByTime(gran), n, records),
           NEW bars, bars = useTokenTrendOptions(computeTokenTrend(gran))
    PROVE  SumFunction([b \in DOMAIN bars |-> bars[b][1] + bars[b][2]]) = computeSummary.totalTokens
<1>1. PICK buckets : buckets = aggregateByTime(gran)
  OBVIOUS
<1>2. /\ DOMAIN buckets = 1 .. n /\ \A b \in 1 .. n : records[b] = buckets[b].records
      /\ IsFiniteSet(1 .. n) /\ Parts(records, 1 .. n, Kept)
  BY <1>1 DEF Bucketed
<1>3. PICK series : series = computeTokenTrend(gran).series
  BY SMTT(60)
<1>4. series = [b \in 1 .. n |-> [date |-> buckets[b].dateKey,
                                  inputTokens |-> Total(Prompt, buckets[b].records),
                                  outputTokens |-> Total(Completion, buckets[b].records),
                                  requests |-> Total(Requests, buckets[b].records)]]
  BY <1>1, <1>2, <1>3 DEF computeTokenTrend
<1>5. bars = [b \in 1 .. n |-> <<Total(Prompt, buckets[b].records), Total(Completion, buckets[b].records)>>]
  <2>1. bars = [b \in DOMAIN series |-> <<series[b].inputTokens, series[b].outputTokens>>]
    BY <1>3 DEF useTokenTrendOptions
  <2>2. DOMAIN series = 1 .. n
    BY <1>4
  <2>3. \A b \in 1 .. n : /\ series[b].inputTokens = Total(Prompt, buckets[b].records)
                          /\ series[b].outputTokens = Total(Completion, buckets[b].records)
    BY <1>4
  <2> QED BY <2>1, <2>2, <2>3
<1>6. PICK sums : sums = [b \in DOMAIN bars |-> bars[b][1] + bars[b][2]]
  OBVIOUS
<1>7. DOMAIN sums = 1 .. n
  BY <1>5, <1>6
<1>8. ASSUME NEW b \in 1 .. n
      PROVE  sums[b] = SumFunctionOnSet(TokensUsed, records[b])
  <2>1. PICK held : held = records[b]
    OBVIOUS
  <2>2. held \in SUBSET Kept
    BY <1>2, <2>1 DEF Parts
  <2>3. IsFiniteSet(held)
    BY <2>2, RecordsAre, FS_Subset
  <2>4. \A i \in held : /\ Prompt[i] \in Int /\ Completion[i] \in Int
                        /\ TokensUsed[i] = Prompt[i] + Completion[i]
    BY <2>2, RecordsAre
  <2>5. SumFunctionOnSet(TokensUsed, held)
          = SumFunctionOnSet(Prompt, held) + SumFunctionOnSet(Completion, held)
    BY <2>3, <2>4, SumAdds
  <2>6. bars[b] = <<SumFunctionOnSet(Prompt, held), SumFunctionOnSet(Completion, held)>>
    BY <1>2, <1>5, <2>1 DEF Total
  <2>7. b \in DOMAIN bars
    BY <1>5
  <2> QED BY <1>6, <2>1, <2>5, <2>6, <2>7
<1>9. \A i \in Kept : TokensUsed[i] \in Int
  BY RecordsAre
<1>10. SumFunctionOnSet(sums, 1 .. n) = SumFunctionOnSet(TokensUsed, Kept)
  <2>1. \A b \in 1 .. n : sums[b] = SumFunctionOnSet(TokensUsed, records[b])
    BY <1>8
  <2>2. IsFiniteSet(Kept)
    BY RecordsAre
  <2>3. n \in Nat /\ IsFiniteSet(1 .. n) /\ Parts(records, 1 .. n, Kept)
    BY Zenon DEF Bucketed
  <2>4. PICK used : used = TokensUsed
    OBVIOUS
  <2>5. \A i \in Kept : used[i] \in Int
    BY <1>9, <2>4
  <2>6. \A b \in 1 .. n : sums[b] = SumFunctionOnSet(used, records[b])
    BY <2>1, <2>4
  <2>7. SumFunctionOnSet(sums, 1 .. n) = SumFunctionOnSet(used, Kept)
    BY <2>2, <2>3, <2>5, <2>6, SumByParts
  <2> QED BY <2>4, <2>7
<1>11. computeSummary.totalTokens = SumFunctionOnSet(TokensUsed, Kept)
  BY DEF computeSummary, Total
<1> QED BY <1>6, <1>7, <1>10, <1>11 DEF SumFunction

\* No amount below nothing is shown.
LEMMA AtLeastNothing ==
    ASSUME NEW x \in Int
    PROVE  Max({0, x}) = IF x > 0 THEN x ELSE 0
<1>1. PICK y : y = IF x > 0 THEN x ELSE 0
  OBVIOUS
<1>2. PICK S : S = {0, x}
  OBVIOUS
<1>3. y \in S /\ \A z \in S : y >= z
  BY <1>1, <1>2
<1>4. \A w \in S : (\A z \in S : w >= z) => w = y
  BY <1>1, <1>2
<1>5. Max(S) = CHOOSE w \in S : \A z \in S : w >= z
  BY DEF Max
<1>6. Max(S) = y
  BY <1>3, <1>4, <1>5
<1> QED BY <1>1, <1>2, <1>6

\* What is not priced costs nothing.
LEMMA UpstreamOf ==
    ASSUME QuotaAssumption, QuotaTypeOK, NEW S \in SUBSET Kept
    PROVE  /\ SumFunctionOnSet(Upstream, S) \in Nat
           /\ ~Priced(S) => SumFunctionOnSet(Upstream, S) = 0
<1>1. IsFiniteSet(S) /\ \A i \in S : Upstream[i] \in Nat
  BY RecordsAre, FS_Subset
<1>2. SumFunctionOnSet(Upstream, S) \in Nat
  BY <1>1, SumOfNaturals
<1>3. ASSUME ~Priced(S) PROVE SumFunctionOnSet(Upstream, S) = 0
  <2>1. ASSUME NEW i \in S PROVE Upstream[i] = 0
    <3>1. i \in DOMAIN data
      BY RecordsAre
    <3>2. data[i].upstream_cost = Undefined
      BY <1>3 DEF Priced
    <3> QED BY <3>1, <3>2 DEF Upstream
  <2> QED BY <1>1, <2>1, SumOfZeros
<1> QED BY <1>2, <1>3

\* The upstream cost of the summary is what all records have in all, rounded once.
LEMMA UpstreamIsRounded ==
    ASSUME QuotaAssumption, QuotaTypeOK
    PROVE  /\ computeSummary.upstreamCost =
                  IF Priced(Kept) THEN Cents(SumFunctionOnSet(Upstream, Kept)) ELSE Undefined
           /\ Max({0, computeSummary.upstreamCost}) = Cents(SumFunctionOnSet(Upstream, Kept))
<1>1. PICK all \in Nat : all = SumFunctionOnSet(Upstream, Kept) /\ (~Priced(Kept) => all = 0)
  BY UpstreamOf
<1>2. computeSummary.upstreamCost = IF Priced(Kept) THEN Cents(all) ELSE Undefined
  BY <1>1 DEF computeSummary, Priced, Total
<1>3. Cents(all) \in Nat
  BY Rounded
<1>4. PICK x \in Int : x = computeSummary.upstreamCost
  BY <1>2, <1>3 DEF Undefined
<1>5. Max({0, x}) = IF x > 0 THEN x ELSE 0
  BY AtLeastNothing
<1>6. Cents(all) = IF x > 0 THEN x ELSE 0
  <2>1. CASE Priced(Kept)
    BY <1>2, <1>3, <1>4, <2>1
  <2>2. CASE ~Priced(Kept)
    <3>1. Cents(all) = 0
      BY <1>1, <2>2, NothingRounded
    <3> QED BY <1>2, <1>4, <2>2, <3>1 DEF Undefined
  <2> QED BY <2>1, <2>2
<1> QED BY <1>1, <1>2, <1>4, <1>5, <1>6

\* The trend's total of it is the summary's: the buckets are added up before they are rounded.
LEMMA UpstreamTotalIs ==
    ASSUME QuotaAssumption, QuotaTypeOK,
           NEW n, NEW records, Bucketed(aggregateByTime(gran), n, records),
           NEW cost, cost = computeCostTrend(gran)
    PROVE  cost.totalUpstreamCost = computeSummary.upstreamCost
<1>1. PICK buckets : buckets = aggregateByTime(gran)
  OBVIOUS
<1>2. /\ DOMAIN buckets = 1 .. n /\ IsFiniteSet(1 .. n) /\ Parts(records, 1 .. n, Kept)
      /\ \A b \in 1 .. n : records[b] = buckets[b].records
  BY <1>1 DEF Bucketed
<1>3. PICK u : u = [b \in DOMAIN buckets |-> Total(Upstream, buckets[b].records)]
  OBVIOUS
<1>4. cost.totalUpstreamCost =
          IF \E b \in DOMAIN buckets : \E i \in buckets[b].records :
                 data[i].upstream_cost # Undefined
          THEN Cents(SumFunction(u)) ELSE Undefined
  BY <1>1, <1>3 DEF computeCostTrend
<1>5. (\E b \in DOMAIN buckets : \E i \in buckets[b].records :
           data[i].upstream_cost # Undefined) <=> Priced(Kept)
  <2>1. \A b \in 1 .. n : buckets[b].records \subseteq Kept
    BY <1>2 DEF Parts
  <2>2. \A i \in Kept : \E b \in 1 .. n : i \in buckets[b].records
    BY <1>2 DEF Parts
  <2> QED BY <1>2, <2>1, <2>2 DEF Priced
<1>6. SumFunction(u) = SumFunctionOnSet(Upstream, Kept)
  <2>1. \A b \in 1 .. n : u[b] = SumFunctionOnSet(Upstream, records[b])
    BY <1>2, <1>3 DEF Total
  <2>2. IsFiniteSet(Kept) /\ \A i \in Kept : Upstream[i] \in Int
    BY RecordsAre
  <2>3. PICK charged, D : charged = Upstream /\ D = 1 .. n
    OBVIOUS
  <2>4. /\ IsFiniteSet(D) /\ IsFiniteSet(Kept) /\ Parts(records, D, Kept)
        /\ \A i \in Kept : charged[i] \in Int
        /\ \A b \in D : u[b] = SumFunctionOnSet(charged, records[b])
    BY <1>2, <2>1, <2>2, <2>3
  <2>5. SumFunctionOnSet(u, D) = SumFunctionOnSet(charged, Kept)
    BY <2>4, SumByParts
  <2>6. DOMAIN u = D
    BY <1>2, <1>3, <2>3
  <2> QED BY <2>3, <2>5, <2>6 DEF SumFunction
<1> QED BY <1>4, <1>5, <1>6, UpstreamIsRounded

\* The second axis shows the cost of every bucket, rounded, and nothing where nothing is priced.
LEMMA UpstreamLineIs ==
    ASSUME QuotaAssumption, QuotaTypeOK,
           NEW n, NEW records, Bucketed(aggregateByTime(gran), n, records),
           NEW cost, CostSeries(cost.series, n, records),
           NEW c, c = [b \in 1 .. n |-> Cents(SumFunctionOnSet(Upstream, records[b]))]
    PROVE  SumFunction(UpstreamLine(cost)) = SumFunctionOnSet(c, 1 .. n)
<1>1. PICK series : series = cost.series
  OBVIOUS
<1>2. /\ n \in Nat /\ DOMAIN series = 1 .. n /\ IsFiniteSet(1 .. n) /\ Parts(records, 1 .. n, Kept)
  BY <1>1 DEF Bucketed, CostSeries
<1>3. ASSUME NEW b \in 1 .. n
      PROVE  /\ c[b] \in Nat
             /\ Max({0, series[b].upstreamCost}) = c[b]
             /\ series[b].upstreamCost > 0 <=> c[b] > 0
  <2>1. records[b] \in SUBSET Kept
    BY <1>2 DEF Parts
  <2>2. PICK u \in Nat : u = SumFunctionOnSet(Upstream, records[b]) /\ (~Priced(records[b]) => u = 0)
    BY <2>1, UpstreamOf
  <2>3. c[b] = Cents(u) /\ Cents(u) \in Nat
    BY <2>2, Rounded
  <2>4. series[b].upstreamCost = IF \E d \in 1 .. b : Priced(records[d]) THEN c[b] ELSE -1
    BY <1>1, <2>2, <2>3 DEF CostSeries, Undefined
  <2>5. CASE \E d \in 1 .. b : Priced(records[d])
    <3>1. PICK x \in Nat : x = c[b] /\ x = series[b].upstreamCost
      BY <2>3, <2>4, <2>5
    <3>2. Max({0, x}) = x
      BY AtLeastNothing
    <3> QED BY <3>1, <3>2
  <2>6. CASE ~\E d \in 1 .. b : Priced(records[d])
    <3>1. ~Priced(records[b])
      BY <1>2, <2>6
    <3>2. c[b] = 0
      BY <2>2, <2>3, <3>1, NothingRounded
    <3>3. PICK x \in Int : x = -1 /\ x = series[b].upstreamCost
      BY <2>4, <2>6
    <3>4. Max({0, x}) = 0
      BY <3>3, AtLeastNothing
    <3>. ~(x > 0)
      BY <3>3
    <3>5. Max({0, series[b].upstreamCost}) = 0 /\ ~(series[b].upstreamCost > 0)
      BY <3>3, <3>4, Zenon
    <3>6. c[b] \in Nat /\ ~(c[b] > 0)
      BY <3>2
    <3> QED BY <3>2, <3>5, <3>6, Zenon
  <2> QED BY <2>5, <2>6
<1>4. PICK line : line = UpstreamLine(cost)
  OBVIOUS
<1>5. line = IF \E b \in 1 .. n : series[b].upstreamCost > 0
             THEN [b \in 1 .. n |-> Max({0, series[b].upstreamCost})] ELSE <<>>
  BY <1>1, <1>2, <1>4 DEF UpstreamLine
<1>6. CASE \E b \in 1 .. n : series[b].upstreamCost > 0
  <2>1. line = [b \in 1 .. n |-> Max({0, series[b].upstreamCost})]
    BY <1>5, <1>6
  <2>2. line = c
    BY <1>3, <2>1
  <2>3. SumFunction(line) = SumFunctionOnSet(c, 1 .. n)
    BY <2>2 DEF SumFunction
  <2> QED BY <1>4, <2>3
<1>7. CASE ~\E b \in 1 .. n : series[b].upstreamCost > 0
  <2>1. line = <<>>
    BY <1>5, <1>7
  <2>2. SumFunction(line) = 0
    <3>1. DOMAIN line = {}
      BY <2>1
    <3> QED BY <3>1, SumOfNothing DEF SumFunction
  <2>3. ASSUME NEW b \in 1 .. n
        PROVE  c[b] = 0
    <3>1. c[b] \in Nat /\ ~(c[b] > 0)
      BY <1>3, <1>7
    <3> QED BY <3>1
  <2>4. SumFunctionOnSet(c, 1 .. n) = 0
    BY <1>2, <2>3, SumOfZeros
  <2> QED BY <1>4, <2>2, <2>4
<1> QED BY <1>6, <1>7

\* It adds up to the summary's amount, but for what rounding every bucket may lose.
LEMMA UpstreamAddsUp ==
    ASSUME QuotaAssumption, QuotaTypeOK,
           NEW n, NEW records, Bucketed(aggregateByTime(gran), n, records),
           NEW cost, cost = computeCostTrend(gran)
    PROVE  Near(SumFunction(UpstreamLine(cost)), Max({0, computeSummary.upstreamCost}), n + 1)
<1>1. CostSeries(cost.series, n, records)
  BY CostTrendIs, Zenon
<1>2. /\ IsFiniteSet(1 .. n) /\ Cardinality(1 .. n) = n /\ Parts(records, 1 .. n, Kept)
  BY DEF Bucketed
<1>3. PICK c : c = [b \in 1 .. n |-> Cents(SumFunctionOnSet(Upstream, records[b]))]
  OBVIOUS
<1>4. SumFunction(UpstreamLine(cost)) = SumFunctionOnSet(c, 1 .. n)
  BY <1>1, <1>3, UpstreamLineIs
<1>5. IsFiniteSet(Kept) /\ \A i \in Kept : Upstream[i] \in Nat
  BY RecordsAre
<1>6. \A b \in 1 .. n : c[b] = Cents(SumFunctionOnSet(Upstream, records[b]))
  BY <1>3
<1>7. Near(SumFunctionOnSet(c, 1 .. n), Cents(SumFunctionOnSet(Upstream, Kept)), Cardinality(1 .. n) + 1)
  BY <1>2, <1>5, <1>6, RoundedParts
<1>8. Max({0, computeSummary.upstreamCost}) = Cents(SumFunctionOnSet(Upstream, Kept))
  BY UpstreamIsRounded
<1> QED BY <1>2, <1>4, <1>7, <1>8, Zenon

-----------------------------------------------------------------------------
(* Models and consumers.                                                    *)

\* The analysis has the statistics of every model.
LEMMA StatsAre ==
    ASSUME NEW analysis, analysis = computeModelAnalysis(gran)
    PROVE  /\ analysis.models = {ModelStats(m) : m \in Names}
           /\ \A m \in Names : ModelStats(m).modelId = m
<1>1. analysis.models = {ModelStats(m) : m \in Names}
  BY DEF computeModelAnalysis, Names
<1>2. \A m \in Names : ModelStats(m).modelId = m
  BY DEF ModelStats
<1> QED BY <1>1, <1>2

\* An administrator's records have no category of their own.
LEMMA OnlyUsersTell ==
    ASSUME QuotaAssumption, QuotaTypeOK, NEW i \in DOMAIN data, data[i].model_category # Untold
    PROVE  role # "admin"
<1> SUFFICES ASSUME role = "admin" PROVE FALSE
  OBVIOUS
<1>1. data = GetAllQuotaDates(FirstRows(modelRows))
  BY DEF QuotaTypeOK, ModelData
<1>2. modelRows \in 0 .. Len(quotaData)
  BY DEF QuotaTypeOK
<1> QED BY <1>1, <1>2, ModelsAreGroups

\* The pie shows every model that the query kept: the category of a model is that of its records.
LEMMA PieKeepsAll ==
    ASSUME QuotaAssumption, QuotaTypeOK, NEW analysis, analysis = computeModelAnalysis(gran)
    PROVE  PieKeeps(analysis) = analysis.models
<1>1. CASE category = "all"
  BY <1>1 DEF PieKeeps
<1>2. CASE category # "all"
  <2>1. ASSUME NEW m \in Names
        PROVE  ModelStats(m).category = category
    <3>1. PICK held : held = {i \in Kept : data[i].model_name = m}
      OBVIOUS
    <3>2. \A i \in held : CategoryOf(data[i]) = category /\ data[i].model_name = m
      BY <1>2, <3>1 DEF Kept, KeptOf
    <3>3. PICK i \in held : TRUE
      BY <3>1 DEF Names
    <3>4. PICK told : told = {j \in held : data[j].model_category # Untold}
      OBVIOUS
    <3>5. ModelStats(m).category = IF told = {} THEN inferModelCategory(m)
                                   ELSE data[Max(told)].model_category
      BY <3>1, <3>4 DEF ModelStats
    <3>6. CASE told = {}
      <4>1. data[i].model_category = Untold
        BY ZenonT(60), <3>3, <3>4, <3>6
      <4>2. CategoryOf(data[i]) = inferModelCategory(m)
        BY <3>2, <3>3, <4>1 DEF CategoryOf
      <4> QED BY <3>2, <3>3, <3>5, <3>6, <4>2
    <3>7. CASE told # {}
      <4>1. Max(told) \in told
        <5>1. PICK k \in Nat : k = modelRows /\ DOMAIN data = 1 .. k
          <6>1. PICK j \in told : j \in DOMAIN data /\ data[j].model_category # Untold
            BY <3>1, <3>4, <3>7, RecordsAre
          <6>2. role # "admin"
            BY <6>1, OnlyUsersTell
          <6>3. modelRows \in 0 .. Len(quotaData) /\ data = ModelData(FirstRows(modelRows))
            BY DEF QuotaTypeOK
          <6>4. data = FirstRows(modelRows)
            BY <6>2, <6>3 DEF ModelData, GetQuotaDataByUserId
          <6> QED BY <6>3, <6>4, RowsAreRecorded
        <5>2. told \subseteq DOMAIN data
          BY <3>1, <3>4, RecordsAre
        <5>3. told \in SUBSET Nat /\ \A j \in told : j <= k
          BY <5>1, <5>2
        <5> QED BY <3>7, <5>3, GreatestElement
      <4>2. PICK j \in told : j = Max(told)
        BY <4>1
      <4>3. CategoryOf(data[j]) = data[j].model_category
        BY <3>4, <4>2 DEF CategoryOf
      <4>4. j \in held
        BY <3>4
      <4> QED BY <3>2, <3>5, <3>7, <4>2, <4>3, <4>4
    <3> QED BY <3>6, <3>7
  <2>2. analysis.models = {ModelStats(m) : m \in Names}
    BY StatsAre
  <2> QED BY <2>1, <2>2 DEF PieKeeps
<1> QED BY <1>1, <1>2

\* The slices of the pie add up to the requests of the query.
LEMMA SlicesAddUp ==
    ASSUME QuotaAssumption, QuotaTypeOK, NEW analysis, analysis = computeModelAnalysis(gran)
    PROVE  SumFunction(useModelPieOptions(analysis, "requests")) = computeSummary.totalRequests
<1>1. PICK stats : stats = analysis.models
  OBVIOUS
<1>2. stats = {ModelStats(m) : m \in Names} /\ \A m \in Names : ModelStats(m).modelId = m
  BY <1>1, StatsAre
<1>3. {s.modelId : s \in stats} = Names
  BY <1>2
<1>4. PICK piece : piece = [m \in Names |-> OfModel(Kept, m)]
  OBVIOUS
<1>5. PICK slices : slices = useModelPieOptions(analysis, "requests")
  OBVIOUS
<1>6. ASSUME NEW m \in Names
      PROVE  (CHOOSE x \in stats : x.modelId = m) = ModelStats(m)
  <2>1. ModelStats(m) \in stats /\ ModelStats(m).modelId = m
    BY <1>2
  <2>2. \A x \in stats : x.modelId = m => x = ModelStats(m)
    BY <1>2
  <2> QED BY <2>1, <2>2
<1>7. DOMAIN slices = Names
  BY <1>1, <1>3, <1>5 DEF useModelPieOptions
<1>8. ASSUME NEW m \in Names
      PROVE  slices[m] = SumFunctionOnSet(Requests, piece[m])
  <2>1. m \in {s.modelId : s \in analysis.models}
    BY <1>1, <1>3
  <2>2. slices[m] = (CHOOSE x \in analysis.models : x.modelId = m).requests
    BY <1>5, <2>1 DEF useModelPieOptions
  <2>3. slices[m] = ModelStats(m).requests
    BY <1>1, <1>6, <2>2
  <2>4. ModelStats(m).requests = Total(Requests, {i \in Kept : data[i].model_name = m})
    BY DEF ModelStats
  <2> QED BY <1>4, <2>3, <2>4 DEF Total, OfModel
<1>9. IsFiniteSet(Names) /\ IsFiniteSet(Kept) /\ Parts(piece, Names, Kept)
  BY <1>4, ModelsArePieces
<1>10. \A i \in Kept : Requests[i] \in Int
  BY RecordsAre
<1>11. SumFunctionOnSet(slices, Names) = SumFunctionOnSet(Requests, Kept)
  BY <1>8, <1>9, <1>10, SumByParts
<1>12. computeSummary.totalRequests = SumFunctionOnSet(Requests, Kept)
  BY DEF computeSummary, Total
<1> QED BY <1>5, <1>7, <1>11, <1>12 DEF SumFunction

\* There is a bar for every model that is active.
LEMMA BarsAreModels ==
    ASSUME QuotaAssumption, QuotaTypeOK, NEW analysis, analysis = computeModelAnalysis(gran)
    PROVE  Len(useModelBarOptions(analysis)) = computeSummary.activeModels
<1>1. PICK stats : stats = analysis.models
  OBVIOUS
<1>2. stats = {ModelStats(m) : m \in Names} /\ \A m \in Names : ModelStats(m).modelId = m
  BY <1>1, StatsAre
<1>3. IsFiniteSet(Names)
  BY ModelsArePieces
<1>4. PICK f : f = [m \in Names |-> ModelStats(m)]
  OBVIOUS
<1>5. f \in Bijection(Names, stats)
  <2>1. f \in [Names -> stats]
    BY <1>2, <1>4
  <2>2. \A a, b \in Names : f[a] = f[b] => a = b
    <3> SUFFICES ASSUME NEW a \in Names, NEW b \in Names, f[a] = f[b] PROVE a = b
      OBVIOUS
    <3>1. f[a].modelId = a /\ f[b].modelId = b
      BY <1>2, <1>4
    <3> QED BY <3>1
  <2>3. \A x \in stats : \E m \in Names : f[m] = x
    BY <1>2, <1>4
  <2> QED BY <2>1, <2>2, <2>3 DEF Bijection, Injection, Surjection, IsInjective
<1>6. IsFiniteSet(stats) /\ Cardinality(stats) = Cardinality(Names)
  <2>1. ExistsBijection(Names, stats)
    BY <1>5 DEF ExistsBijection
  <2> QED BY <1>3, <2>1, FS_Bijection
<1>7. PICK n \in Nat : n = Cardinality(stats)
  BY <1>6, FS_CardinalityType
<1>8. PICK bars : bars = useModelBarOptions(analysis)
  OBVIOUS
<1>9. bars = [b \in 1 .. n |-> CostOfBar(stats, b)]
  BY <1>1, <1>7, <1>8 DEF useModelBarOptions
<1>10. PICK costs : costs = {CostOfBar(stats, b) : b \in 1 .. n}
  OBVIOUS
<1>11. Len(bars) = n
  <2>1. bars \in Seq(costs)
    <3>1. bars \in [1 .. n -> costs]
      BY <1>9, <1>10
    <3> QED BY <3>1, SeqDef
  <2>2. DOMAIN bars = 1 .. n
    BY <1>9
  <2> QED BY <2>1, <2>2, LenProperties
<1>12. computeSummary.activeModels = Cardinality(Names)
  BY DEF computeSummary, Names
<1> QED BY <1>6, <1>7, <1>8, <1>11, <1>12

\* What a ranking shows of its consumers.
InAll(consumers, by) == SumFunction(useTopConsumersOptions(consumers, by))

\* The consumers of a kind share the usage of their records among them.
LEMMA ConsumersAddUp ==
    ASSUME QuotaAssumption, NEW d, Recorded(d), NEW type, NEW all, all = Consumers(d, type)
    PROVE  /\ IsFiniteSet(DOMAIN all) /\ \A k \in DOMAIN all : all[k].tokens \in Nat
           /\ InAll(all, "tokens") = SumFunctionOnSet(TokensIn(d), KeptOf(d))
           /\ Near(InAll(all, "cost"), Cents(SumFunctionOnSet(QuotaIn(d), KeptOf(d))),
                   Cardinality(DOMAIN all) + 1)
<1>1. PICK kept : kept = KeptOf(d)
  OBVIOUS
<1>2. PICK key : key = [i \in kept |-> ConsumerKey(d[i], type)]
  OBVIOUS
<1>3. PICK keys : keys = {key[i] : i \in kept}
  OBVIOUS
<1>4. PICK quota, used : quota = QuotaIn(d) /\ used = TokensIn(d)
  OBVIOUS
<1>5. /\ IsFiniteSet(kept) /\ IsFiniteSet(keys)
      /\ \A i \in kept : quota[i] \in Nat /\ used[i] \in Nat
  <2>1. IsFiniteSet(kept) /\ \A i \in kept : quota[i] \in Nat /\ used[i] \in Nat
    BY <1>1, <1>4, AmountsOf
  <2> QED BY <1>3, <2>1, FiniteImage
<1>6. PICK piece : piece = [k \in keys |-> {i \in kept : key[i] = k}]
  OBVIOUS
<1>7. Parts(piece, keys, kept)
  BY <1>3, <1>6 DEF Parts
<1>8. keys = {ConsumerKey(d[i], type) : i \in kept}
  BY <1>2, <1>3
<1>9. ASSUME NEW k \in keys
      PROVE  piece[k] = {i \in kept : ConsumerKey(d[i], type) = k}
  BY <1>2, <1>6
<1>10. DOMAIN all = keys
  BY <1>1, <1>8 DEF Consumers
<1>11. ASSUME NEW k \in keys
       PROVE  /\ all[k].tokens = SumFunctionOnSet(used, piece[k])
              /\ all[k].cost = Cents(SumFunctionOnSet(quota, piece[k]))
  <2>1. all[k].tokens = Total(used, {i \in kept : ConsumerKey(d[i], type) = k})
    BY <1>1, <1>4, <1>8 DEF Consumers
  <2>2. all[k].cost = Cents(Total(quota, {i \in kept : ConsumerKey(d[i], type) = k}))
    BY <1>1, <1>4, <1>8 DEF Consumers
  <2> QED BY <1>9, <2>1, <2>2 DEF Total
<1>12. PICK tokens, cost :
          /\ tokens = useTopConsumersOptions(all, "tokens")
          /\ cost = useTopConsumersOptions(all, "cost")
  OBVIOUS
<1>13. /\ DOMAIN tokens = keys /\ \A k \in keys : tokens[k] = all[k].tokens
       /\ DOMAIN cost = keys /\ \A k \in keys : cost[k] = all[k].cost
  BY <1>10, <1>12 DEF useTopConsumersOptions, SortValue
<1>14. SumFunctionOnSet(tokens, keys) = SumFunctionOnSet(used, kept)
  <2>1. \A i \in kept : used[i] \in Int
    BY <1>5
  <2>2. \A k \in keys : tokens[k] = SumFunctionOnSet(used, piece[k])
    BY <1>11, <1>13
  <2> QED BY <1>5, <1>7, <2>1, <2>2, SumByParts
<1>15. Near(SumFunctionOnSet(cost, keys), Cents(SumFunctionOnSet(quota, kept)), Cardinality(keys) + 1)
  <2>1. \A k \in keys : cost[k] = Cents(SumFunctionOnSet(quota, piece[k]))
    BY <1>11, <1>13
  <2> QED BY <1>5, <1>7, <2>1, RoundedParts
<1>16. InAll(all, "tokens") = SumFunctionOnSet(tokens, keys) /\ InAll(all, "cost") = SumFunctionOnSet(cost, keys)
  BY <1>12, <1>13 DEF InAll, SumFunction
<1>17. ASSUME NEW k \in keys PROVE all[k].tokens \in Nat
  <2>1. piece[k] \in SUBSET kept
    BY <1>6
  <2>2. IsFiniteSet(piece[k]) /\ \A i \in piece[k] : used[i] \in Nat
    BY <1>5, <2>1, FS_Subset
  <2> QED BY <1>11, <2>2, SumOfNaturals
<1> QED BY <1>1, <1>4, <1>5, <1>10, <1>14, <1>15, <1>16, <1>17

\* A cut ranking shows no more than its consumers have used, and all of it when it cuts none away.
LEMMA CutsShowLess ==
    ASSUME QuotaAssumption, NEW d, Recorded(d), NEW type, NEW all, all = Consumers(d, type),
           NEW by, NEW ranking \in computeTopConsumers(d, type, by)
    PROVE  /\ InAll(ranking, "tokens") <= InAll(all, "tokens")
           /\ Cardinality(DOMAIN all) <= TopN => InAll(ranking, "tokens") = InAll(all, "tokens")
<1>1. PICK keys : keys = DOMAIN all
  OBVIOUS
<1>2. IsFiniteSet(keys) /\ \A k \in keys : all[k].tokens \in Nat
  BY <1>1, ConsumersAddUp
<1>3. PICK top \in SUBSET keys :
          /\ Cardinality(top) = Min({TopN, Cardinality(keys)})
          /\ ranking = [k \in top |-> all[k]]
  BY <1>1 DEF computeTopConsumers
<1>4. PICK tokens : tokens = [k \in keys |-> all[k].tokens]
  OBVIOUS
<1>5. \A k \in keys : tokens[k] \in Nat
  BY <1>2, <1>4
<1>6. InAll(all, "tokens") = SumFunctionOnSet(tokens, keys)
  <2>1. useTopConsumersOptions(all, "tokens") = tokens
    BY <1>1, <1>4 DEF useTopConsumersOptions, SortValue
  <2> QED BY <1>4, <2>1 DEF InAll, SumFunction
<1>7. InAll(ranking, "tokens") = SumFunctionOnSet(tokens, top)
  <2>1. PICK shown : shown = useTopConsumersOptions(ranking, "tokens")
    OBVIOUS
  <2>2. DOMAIN shown = top /\ \A k \in top : shown[k] = tokens[k]
    BY <1>3, <1>4, <2>1 DEF useTopConsumersOptions, SortValue
  <2>3. IsFiniteSet(top)
    BY <1>2, FS_Subset
  <2>4. SumFunctionOnSet(shown, top) = SumFunctionOnSet(tokens, top)
    BY <2>2, <2>3, SumOfEquals
  <2> QED BY <2>1, <2>2, <2>4 DEF InAll, SumFunction
<1>8. SumFunctionOnSet(tokens, top) <= SumFunctionOnSet(tokens, keys)
  BY <1>2, <1>5, SumOfFewer
<1>9. ASSUME Cardinality(keys) <= TopN PROVE top = keys
  <2>1. PICK n \in Nat : n = Cardinality(keys)
    BY <1>2, FS_CardinalityType
  <2>2. PICK limit \in Nat : limit = TopN /\ n <= limit
    BY <1>9, <2>1 DEF QuotaAssumption
  <2>3. Min({limit, n}) = n
    <3>1. \A x \in {limit, n} : (\A y \in {limit, n} : x <= y) <=> x = n
      BY <2>2
    <3> QED BY <3>1 DEF Min
  <2>4. Cardinality(top) = Cardinality(keys)
    BY <1>3, <2>1, <2>2, <2>3
  <2> QED BY <1>2, <2>4, FS_Subset
<1> QED BY <1>1, <1>6, <1>7, <1>8, <1>9

\* An administrator's users have used what their rows tell of, if their category is kept.
LEMMA UsersAddUp ==
    ASSUME QuotaAssumption, QuotaTypeOK
    PROVE  /\ Recorded(usersData)
           /\ category \in {"all", "text"} =>
                 /\ SumFunctionOnSet(TokensIn(usersData), KeptOf(usersData))
                      = SumFunctionOnSet(TokensIn(quotaData), 1 .. userRows)
                 /\ SumFunctionOnSet(QuotaIn(usersData), KeptOf(usersData))
                      = SumFunctionOnSet(QuotaIn(quotaData), 1 .. userRows)
           /\ category \notin {"all", "text"} => KeptOf(usersData) = {}
<1>1. PICK d : d = usersData
  OBVIOUS
<1>2. userRows \in 0 .. Len(quotaData) /\ d = GetQuotaDataGroupByUser(FirstRows(userRows))
  BY <1>1 DEF QuotaTypeOK
<1>3. /\ \E key : GroupsRows(d, userRows, key)
      /\ \A k \in DOMAIN d : d[k].model_category = Untold /\ d[k].model_name = {}
  BY <1>1, <1>2, UsersAreGroups
<1>4. /\ Recorded(d)
      /\ SumFunctionOnSet(TokensIn(d), DOMAIN d) = SumFunctionOnSet(TokensIn(quotaData), 1 .. userRows)
      /\ SumFunctionOnSet(QuotaIn(d), DOMAIN d) = SumFunctionOnSet(QuotaIn(quotaData), 1 .. userRows)
  BY <1>2, <1>3, GroupsAddUp
<1>5. inferModelCategory({}) = "text"
  BY DEF inferModelCategory
<1>6. \A k \in DOMAIN d : CategoryOf(d[k]) = "text"
  BY <1>3, <1>5 DEF CategoryOf
<1>7. category \in {"all", "text"} => KeptOf(d) = DOMAIN d
  BY <1>6 DEF KeptOf
<1>8. category \notin {"all", "text"} => KeptOf(d) = {}
  BY <1>6 DEF KeptOf
<1> QED BY <1>1, <1>4, <1>7, <1>8

\* The summary counts no more than the rows that an administrator's answer was made of.
LEMMA SummaryCounts ==
    ASSUME QuotaAssumption, QuotaTypeOK, role = "admin"
    PROVE  /\ computeSummary.totalTokens <= SumFunctionOnSet(TokensIn(quotaData), 1 .. modelRows)
           /\ category = "all" =>
                 /\ computeSummary.totalTokens = SumFunctionOnSet(TokensIn(quotaData), 1 .. modelRows)
                 /\ computeSummary.totalCost = Cents(SumFunctionOnSet(QuotaIn(quotaData), 1 .. modelRows))
<1>1. PICK d : d = data
  OBVIOUS
<1>2. modelRows \in 0 .. Len(quotaData) /\ d = GetAllQuotaDates(FirstRows(modelRows))
  BY <1>1 DEF QuotaTypeOK, ModelData
<1>3. /\ Recorded(d)
      /\ SumFunctionOnSet(TokensIn(d), DOMAIN d) = SumFunctionOnSet(TokensIn(quotaData), 1 .. modelRows)
      /\ SumFunctionOnSet(QuotaIn(d), DOMAIN d) = SumFunctionOnSet(QuotaIn(quotaData), 1 .. modelRows)
  BY <1>2, ModelsAreGroups, GroupsAddUp
<1>4. /\ computeSummary.totalTokens = SumFunctionOnSet(TokensIn(d), Kept)
      /\ computeSummary.totalCost = Cents(SumFunctionOnSet(QuotaIn(d), Kept))
  BY <1>1 DEF computeSummary, Total, TokensUsed, Quota
<1>5. IsFiniteSet(DOMAIN d) /\ Kept \in SUBSET DOMAIN d /\ \A i \in DOMAIN d : TokensIn(d)[i] \in Nat
  BY <1>1, <1>3, AmountsOf DEF Recorded, Kept
<1>6. SumFunctionOnSet(TokensIn(d), Kept) <= SumFunctionOnSet(TokensIn(d), DOMAIN d)
  <2>1. PICK tokens, all : tokens = TokensIn(d) /\ all = DOMAIN d
    OBVIOUS
  <2>2. IsFiniteSet(all) /\ Kept \in SUBSET all /\ \A i \in all : tokens[i] \in Nat
    BY <1>5, <2>1
  <2> QED BY <2>1, <2>2, SumOfFewer
<1>7. category = "all" => Kept = DOMAIN d
  BY <1>1 DEF Kept, KeptOf
<1> QED BY <1>3, <1>4, <1>6, <1>7

\* Every ranking tells of the usage in the summary, or of that of all users.
LEMMA RankingsAgree ==
    ASSUME QuotaAssumption, QuotaTypeOK, NEW type \in {"user", "channel", "group"}
    PROVE  RankingAgrees(computeSummary, type)
<1>1. PICK source, all, summary :
          /\ source = ConsumersSource(type) /\ all = Consumers(source, type)
          /\ summary = computeSummary
  OBVIOUS
<1>2. PICK ofUsers \in BOOLEAN : ofUsers <=> type = "user" /\ role = "admin"
  BY Zenon
<1>3. (ofUsers => source = usersData) /\ (~ofUsers => source = data)
  BY <1>1, <1>2 DEF ConsumersSource
<1>4. Recorded(source)
  BY <1>2, <1>3, UsersAddUp, DataIsRecorded
<1>5. \A by : \A ranking \in computeTopConsumers(source, type, by) :
          /\ InAll(ranking, "tokens") <= InAll(all, "tokens")
          /\ Cardinality(DOMAIN all) <= TopN => InAll(ranking, "tokens") = InAll(all, "tokens")
  BY <1>1, <1>4, CutsShowLess
<1>6. /\ InAll(all, "tokens") = SumFunctionOnSet(TokensIn(source), KeptOf(source))
      /\ Near(InAll(all, "cost"), Cents(SumFunctionOnSet(QuotaIn(source), KeptOf(source))),
              Cardinality(DOMAIN all) + 1)
  BY <1>1, <1>4, ConsumersAddUp
<1>7. ASSUME ~ofUsers
      PROVE  /\ InAll(all, "tokens") = summary.totalTokens
             /\ Near(InAll(all, "cost"), summary.totalCost, Cardinality(DOMAIN all) + 1)
  <2>1. /\ summary.totalTokens = SumFunctionOnSet(TokensIn(source), KeptOf(source))
        /\ summary.totalCost = Cents(SumFunctionOnSet(QuotaIn(source), KeptOf(source)))
    BY <1>1, <1>3, <1>7 DEF computeSummary, Total, TokensUsed, Quota, Kept
  <2> QED BY <1>6, <2>1, Zenon
<1>8. ASSUME ofUsers, category = "all", userRows = modelRows
      PROVE  /\ InAll(all, "tokens") = summary.totalTokens
             /\ Near(InAll(all, "cost"), summary.totalCost, Cardinality(DOMAIN all) + 1)
  <2>1. /\ SumFunctionOnSet(TokensIn(source), KeptOf(source))
             = SumFunctionOnSet(TokensIn(quotaData), 1 .. modelRows)
        /\ SumFunctionOnSet(QuotaIn(source), KeptOf(source))
             = SumFunctionOnSet(QuotaIn(quotaData), 1 .. modelRows)
    BY <1>3, <1>8, UsersAddUp
  <2>2. role = "admin"
    BY <1>2, <1>8
  <2>3. /\ summary.totalTokens = SumFunctionOnSet(TokensIn(quotaData), 1 .. modelRows)
        /\ summary.totalCost = Cents(SumFunctionOnSet(QuotaIn(quotaData), 1 .. modelRows))
    BY <1>1, <1>8, <2>2, SummaryCounts
  <2> QED BY <1>6, <2>1, <2>3, Zenon
<1>9. ASSUME ofUsers, category \in {"all", "text"}, userRows >= modelRows
      PROVE  InAll(all, "tokens") >= summary.totalTokens
  <2>1. InAll(all, "tokens") = SumFunctionOnSet(TokensIn(quotaData), 1 .. userRows)
    BY <1>3, <1>6, <1>9, UsersAddUp
  <2>2. role = "admin"
    BY <1>2, <1>9
  <2>3. summary.totalTokens <= SumFunctionOnSet(TokensIn(quotaData), 1 .. modelRows)
    BY <1>1, <2>2, SummaryCounts
  <2>4. userRows \in 0 .. Len(quotaData) /\ modelRows \in 0 .. Len(quotaData) /\ Len(quotaData) \in Nat
    BY DEF QuotaTypeOK
  <2>5. PICK tokens, R, S : tokens = TokensIn(quotaData) /\ R = 1 .. modelRows /\ S = 1 .. userRows
    OBVIOUS
  <2>6. IsFiniteSet(S) /\ \A i \in S : tokens[i] \in Nat
    BY <2>4, <2>5, RowsAreRecorded
  <2>7. R \in SUBSET S
    BY <1>9, <2>4, <2>5
  <2>8. /\ SumFunctionOnSet(tokens, R) <= SumFunctionOnSet(tokens, S)
        /\ SumFunctionOnSet(tokens, R) \in Nat /\ SumFunctionOnSet(tokens, S) \in Nat
    BY <2>6, <2>7, SumOfFewer
  <2>9. summary.totalTokens \in Nat
    <3>1. \A i \in Kept : TokensUsed[i] \in Nat
      BY RecordsAre
    <3>2. summary.totalTokens = SumFunctionOnSet(TokensUsed, Kept)
      BY <1>1 DEF computeSummary, Total
    <3> QED BY <3>1, <3>2, RecordsAre, SumOfNaturals
  <2> QED BY <2>1, <2>3, <2>5, <2>8, <2>9
<1>10. ASSUME ofUsers, category \notin {"all", "text"}
       PROVE  DOMAIN all = {}
  <2>1. KeptOf(source) = {}
    BY <1>3, <1>10, UsersAddUp
  <2> QED BY <1>1, <2>1 DEF Consumers
<1>11. /\ \A by : \A ranking \in computeTopConsumers(source, type, by) :
              /\ InAll(ranking, "tokens") <= InAll(all, "tokens")
              /\ Cardinality(DOMAIN all) <= TopN => InAll(ranking, "tokens") = InAll(all, "tokens")
       /\ ~ofUsers \/ (category = "all" /\ userRows = modelRows) =>
              /\ InAll(all, "tokens") = summary.totalTokens
              /\ Near(InAll(all, "cost"), summary.totalCost, Cardinality(DOMAIN all) + 1)
       /\ ofUsers /\ category \in {"all", "text"} /\ userRows >= modelRows =>
              InAll(all, "tokens") >= summary.totalTokens
       /\ ofUsers /\ category \notin {"all", "text"} => DOMAIN all = {}
  BY <1>5, <1>7, <1>8, <1>9, <1>10, Zenon
<1> QED BY <1>1, <1>2, <1>11, ZenonT(60) DEF RankingAgrees, InAll

\* What the dashboard shows of an answer is the same usage everywhere.
LEMMA TypedUsageAddsUp ==
    ASSUME QuotaAssumption, QuotaTypeOK
    PROVE  TrendsAgree
<1>1. PICK summary : summary = computeSummary
  OBVIOUS
<1>2. PICK cost : cost = computeCostTrend(gran)
  OBVIOUS
<1>3. PICK tokens : tokens = computeTokenTrend(gran)
  OBVIOUS
<1>4. PICK analysis : analysis = computeModelAnalysis(gran)
  OBVIOUS
<1>5. gran \in Granularity
  BY DEF QuotaTypeOK
<1>6. PICK n, records : Bucketed(aggregateByTime(gran), n, records)
  BY <1>5, BucketsAre
<1>7. CostSeries(cost.series, n, records) /\ cost.models = Names /\ Len(cost.series) = n
  <2>1. CostSeries(cost.series, n, records) /\ cost.models = Names
    BY <1>2, <1>6, CostTrendIs, Zenon
  <2>2. Len(cost.series) = n
    BY <2>1, Zenon DEF CostSeries
  <2> QED BY <2>1, <2>2
<1>8. BucketsHold
  BY RecordsHaveTheirBucket
<1>9. Near(cost.total, summary.totalCost, n + 1)
  <2>1. cost.total = SumFunctionOnSet([b \in 1 .. n |-> cost.series[b].totalCost], 1 .. n)
    BY <1>2, <1>6, CostTrendIs
  <2> QED BY <1>1, <1>6, <1>7, <2>1, TotalIsNear
<1>10. \A b \in 1 .. n :
           Near(CostTooltip(cost, b), cost.series[b].totalCost, Cardinality(cost.models) + 1)
  BY <1>2, <1>6, TooltipIsNear
<1>11. \A m \in cost.models : useCostTrendOptions(cost)[m] = analysis.trends[m]
  BY <1>2, <1>4, <1>6, <1>7, LinesAreTrends
<1>12. PICK bars : bars = useTokenTrendOptions(tokens)
  OBVIOUS
<1>13. SumFunction([b \in DOMAIN bars |-> bars[b][1] + bars[b][2]]) = summary.totalTokens
  BY <1>1, <1>3, <1>6, <1>12, TokenBarsAddUp
<1>14. /\ PieKeeps(analysis) = analysis.models
       /\ SumFunction(useModelPieOptions(analysis, "requests")) = summary.totalRequests
       /\ Len(useModelBarOptions(analysis)) = summary.activeModels
  BY <1>1, <1>4, PieKeepsAll, SlicesAddUp, BarsAreModels
<1>15. /\ cost.totalUpstreamCost = summary.upstreamCost
       /\ Near(SumFunction(UpstreamLine(cost)), Max({0, summary.upstreamCost}), n + 1)
  BY <1>1, <1>2, <1>6, UpstreamTotalIs, UpstreamAddsUp
<1>16. \A type \in {"user", "channel", "group"} : RankingAgrees(summary, type)
  BY <1>1, RankingsAgree
<1> QED BY ZenonT(90), <1>1, <1>2, <1>3, <1>4, <1>7, <1>8, <1>9, <1>10, <1>11, <1>12, <1>13, <1>14,
        <1>15, <1>16 DEF TrendsAgree

\* The cards, the charts and the rankings of the usage dashboard show the same usage.
THEOREM UsageAddsUp == QuotaSpec => []TrendsAgree
<1>1. QuotaTypeOK => TrendsAgree
  BY QuotaAssumption, TypedUsageAddsUp
<1> QED BY <1>1, QuotaTypeCorrect, PTL

-----------------------------------------------------------------------------
(* Palette: types, and arithmetic *)

LEMMA Scaled ==
    ASSUME NEW a \in Int, NEW b \in Int, a <= b, NEW d \in Nat
    PROVE  a * d <= b * d
OBVIOUS

LEMMA Divided ==
    ASSUME NEW a \in Int, NEW d \in Nat \ {0}
    PROVE  /\ a \div d \in Int
           /\ (a \div d) * d <= a /\ a < (a \div d) * d + d
OBVIOUS

\* The quotient of n and d lies between 0 and a whole bound, and rounding it keeps it there.
UpTo(n, high, d) == 0 <= n /\ n <= high * d

LEMMA RoundIsUpTo ==
    ASSUME NEW n \in Int, NEW d \in Nat \ {0}, NEW high \in Int, UpTo(n, high, d)
    PROVE  Round(n, d) \in 0 .. high
<1>1. PICK e \in Nat \ {0} : e = 2 * d
  OBVIOUS
<1>2. PICK m \in Int : m = 2 * n + d
  OBVIOUS
<1>3. PICK q \in Int : q = m \div e
  BY Divided
<1>4. Round(n, d) = q
  BY <1>1, <1>2, <1>3 DEF Round
<1>5. q * e <= m /\ m < q * e + e
  BY <1>3, Divided
<1>6. 0 <= n /\ n <= high * d
  BY DEF UpTo
<1>7. q <= high
  <2> SUFFICES ASSUME high + 1 <= q PROVE FALSE
    OBVIOUS
  <2>1. (high + 1) * e <= q * e
    BY <1>1, Scaled
  <2>2. (high + 1) * e = 2 * (high * d) + 2 * d
    BY <1>1
  <2> QED BY <1>2, <1>5, <1>6, <2>1, <2>2
<1>8. 0 <= q
  <2> SUFFICES ASSUME q + 1 <= 0 PROVE FALSE
    OBVIOUS
  <2>1. (q + 1) * e <= 0 * e
    BY <1>1, Scaled
  <2>2. (q + 1) * e = q * e + e /\ 0 * e = 0
    BY <1>1
  <2> QED BY <1>1, <1>2, <1>5, <1>6, <2>1, <2>2
<1> QED BY <1>4, <1>7, <1>8

\* What is known of the brightest and the darkest byte of a colour.
Extremes(c, high, low) ==
    /\ high \in 0 .. 255 /\ high = Brightest(c) /\ high \in {c.r, c.g, c.b}
    /\ low \in 0 .. 255 /\ low = Darkest(c) /\ low \in {c.r, c.g, c.b}
    /\ c.r \in low .. high /\ c.g \in low .. high /\ c.b \in low .. high

LEMMA Brightness == ASSUME NEW c \in RGB PROVE \E high, low : Extremes(c, high, low)
<1>1. c.r \in 0 .. 255 /\ c.g \in 0 .. 255 /\ c.b \in 0 .. 255
  BY DEF RGB
<1>2. PICK S : S = {c.r, c.g, c.b}
  OBVIOUS
<1>3. /\ S \in SUBSET Nat /\ S \subseteq 0 .. 255
      /\ S # {} /\ 255 \in Nat /\ \A y \in S : y <= 255
  BY SMTT(60), <1>1, <1>2
<1>4. PICK high \in S : high = Max(S) /\ \A y \in S : high >= y
  BY <1>3, GreatestElement
<1>5. PICK low \in S : low = Min(S) /\ \A y \in S : low <= y
  BY <1>3, LeastElement
<1>6. high = Brightest(c) /\ low = Darkest(c)
  BY <1>2, <1>4, <1>5 DEF Brightest, Darkest
<1>7. high \in 0 .. 255 /\ low \in 0 .. 255
  BY <1>3
<1>8. \A y \in S : y \in low .. high
  BY <1>3, <1>4, <1>5, <1>7
<1>9. c.r \in S /\ c.g \in S /\ c.b \in S
  BY <1>2
<1>10. c.r \in low .. high /\ c.g \in low .. high /\ c.b \in low .. high
  BY <1>8, <1>9
<1>11. high \in {c.r, c.g, c.b} /\ low \in {c.r, c.g, c.b}
  BY <1>2
<1> QED BY <1>6, <1>7, <1>10, <1>11 DEF Extremes

LEMMA HueIsBetween == ASSUME NEW c \in RGB PROVE Hue(c) \in 0 .. 360
<1>1. PICK high, low : Extremes(c, high, low)
  BY Brightness
<1>8. c.r \in Int /\ c.g \in Int /\ c.b \in Int
  BY DEF RGB
<1>2. PICK r \in Int, g \in Int, b \in Int : r = c.r /\ g = c.g /\ b = c.b
  BY <1>8
<1>3. /\ high \in 0 .. 255 /\ low \in 0 .. 255 /\ high = Brightest(c) /\ low = Darkest(c)
      /\ r \in low .. high /\ g \in low .. high /\ b \in low .. high
  BY <1>1, <1>2 DEF Extremes
<1>4. PICK d \in Nat : d = high - low
  BY <1>3
<1>5. PICK turn \in Nat : turn = 360
  BY SMTT(60)
<1>6. CASE d = 0
  BY <1>3, <1>4, <1>6 DEF Hue
<1>7. CASE d # 0
  <2>1. d \in Nat \ {0}
    BY <1>7
  <2>2. PICK k \in Int : k = 60 * (g - b) + (IF g < b THEN turn * d ELSE 0)
    OBVIOUS
  <2>3. PICK m \in Int : m = 60 * (b - r) + 120 * d
    OBVIOUS
  <2>4. PICK n \in Int : n = 60 * (r - g) + 240 * d
    OBVIOUS
  <2>10. turn * d = 360 * d
    BY <1>5
  <2>14. b - r <= d /\ r - b <= d /\ r - g <= d /\ g - r <= d
    BY <1>3, <1>4
  <2>9. 0 <= m /\ m <= 360 * d /\ 0 <= n /\ n <= 360 * d
    BY <2>3, <2>4, <2>14
  <2>11. k = 60 * (g - b) + (IF g < b THEN 360 * d ELSE 0)
    BY <2>2, <2>10
  <2>12. g < b => 0 <= k /\ k <= 360 * d
    BY <1>3, <1>4, <2>11
  <2>13. ~(g < b) => 0 <= k /\ k <= 360 * d
    BY <1>3, <1>4, <2>11
  <2>5. UpTo(m, turn, d) /\ UpTo(n, turn, d)
    BY <2>9, <2>10 DEF UpTo
  <2>6. UpTo(k, turn, d)
    BY <2>10, <2>12, <2>13 DEF UpTo
  <2>7. Round(k, d) \in 0 .. turn /\ Round(m, d) \in 0 .. turn /\ Round(n, d) \in 0 .. turn
    BY <2>1, <2>5, <2>6, RoundIsUpTo
  <2>8. Hue(c) = IF high = r THEN Round(k, d) ELSE IF high = g THEN Round(m, d) ELSE Round(n, d)
    BY <1>2, <1>3, <1>4, <1>5, <1>7, <2>2, <2>3, <2>4 DEF Hue
  <2> QED BY <1>5, <2>7, <2>8
<1> QED BY <1>6, <1>7

LEMMA SaturationIsBetween == ASSUME NEW c \in RGB PROVE Saturation(c) \in 0 .. 100
<1>1. PICK high, low : Extremes(c, high, low)
  BY Brightness
<1>2. /\ high \in 0 .. 255 /\ low \in 0 .. 255 /\ high = Brightest(c) /\ low = Darkest(c)
      /\ c.r \in low .. high
  BY <1>1 DEF Extremes
<1>3. PICK most \in Nat : most = 100
  OBVIOUS
<1>4. CASE high = low
  BY <1>2, <1>4 DEF Saturation
<1>5. CASE high # low
  <2>1. high - low \in Nat \ {0} /\ high + low \in Nat
    BY <1>2, <1>5
  <2>2. PICK sum : sum = IF high + low > 255 THEN 510 - (high + low) ELSE high + low
    OBVIOUS
  <2>3. PICK n \in Int : n = 100 * (high - low)
    BY <1>2
  <2>7. sum \in Nat \ {0} /\ high - low <= sum
    BY <1>2, <1>5, <2>1, <2>2
  <2>8. most * sum = 100 * sum
    BY <1>3
  <2>4. UpTo(n, most, sum)
    BY <2>1, <2>3, <2>7, <2>8 DEF UpTo
  <2>5. Round(n, sum) \in 0 .. most
    BY <2>4, <2>7, RoundIsUpTo
  <2>6. Saturation(c) = Round(n, sum)
    BY <1>2, <1>5, <2>1, <2>2, <2>3 DEF Saturation
  <2> QED BY <1>3, <2>5, <2>6
<1> QED BY <1>4, <1>5

LEMMA HslOfColour == ASSUME NEW c \in RGB PROVE rgbToHsl(c) \in HSL
<1>1. PICK high, low : Extremes(c, high, low)
  BY Brightness
<1>2. high \in 0 .. 255 /\ low \in 0 .. 255 /\ high = Brightest(c) /\ low = Darkest(c)
  BY <1>1 DEF Extremes
<1>3. PICK most \in Nat, d \in Nat \ {0} : most = 100 /\ d = 510
  OBVIOUS
<1>4. PICK n \in Int : n = 100 * (high + low)
  BY <1>2
<1>8. most * d = 51000
  BY SMT, <1>3
<1>10. PICK sum \in Nat : sum = high + low /\ sum <= 510
  BY <1>2
<1>9. 0 <= n /\ n <= 51000
  BY SMT, <1>4, <1>10
<1>5. UpTo(n, most, d)
  BY <1>8, <1>9 DEF UpTo
<1>6. Round(n, d) \in 0 .. most
  BY <1>5, RoundIsUpTo
<1>7. rgbToHsl(c) = [h |-> Hue(c), s |-> Saturation(c), l |-> Round(n, d)]
  BY <1>2, <1>3, <1>4 DEF rgbToHsl
<1> QED BY <1>3, <1>6, <1>7, HueIsBetween, SaturationIsBetween DEF HSL

LEMMA OfTwo ==
    ASSUME NEW i \in Int, NEW j \in Int
    PROVE  /\ Min({i, j}) = IF i <= j THEN i ELSE j
           /\ Max({i, j}) = IF i <= j THEN j ELSE i
<1>1. PICK low \in {i, j} : low = (IF i <= j THEN i ELSE j) /\ \A y \in {i, j} : low <= y
  OBVIOUS
<1>2. PICK high \in {i, j} : high = (IF i <= j THEN j ELSE i) /\ \A y \in {i, j} : high >= y
  OBVIOUS
<1>3. Min({i, j}) \in {i, j} /\ \A y \in {i, j} : Min({i, j}) <= y
  BY <1>1 DEF Min
<1>4. Max({i, j}) \in {i, j} /\ \A y \in {i, j} : Max({i, j}) >= y
  BY <1>2 DEF Max
<1> QED BY <1>1, <1>2, <1>3, <1>4

\* A byte is what is clamped, but within its bounds.
LEMMA Clamped ==
    ASSUME NEW n \in Int
    PROVE  Byte(n) = IF n < 0 THEN 0 ELSE IF n > 255 THEN 255 ELSE n
<1>1. PICK m \in Int : m = Min({255, n})
  BY OfTwo
<1>2. m = IF 255 <= n THEN 255 ELSE n
  BY <1>1, OfTwo
<1>3. Max({0, m}) = IF 0 <= m THEN m ELSE 0
  BY OfTwo
<1>4. Byte(n) = Max({0, m})
  BY <1>1 DEF Byte
<1> QED BY <1>2, <1>3, <1>4

LEMMA RoundIsWhole == ASSUME NEW n \in Int, NEW d \in Nat \ {0} PROVE Round(n, d) \in Int
<1>1. PICK m \in Int, e \in Nat \ {0} : m = 2 * n + d /\ e = 2 * d
  OBVIOUS
<1>2. m \div e \in Int
  BY Divided
<1> QED BY <1>1, <1>2 DEF Round

LEMMA ByteOfRound ==
    ASSUME NEW n \in Int, NEW d \in Nat \ {0}
    PROVE  Byte(Round(n, d)) \in 0 .. 255
<1>1. PICK q \in Int : q = Round(n, d)
  BY RoundIsWhole
<1>2. Byte(q) \in 0 .. 255
  BY Clamped
<1> QED BY <1>1, <1>2

LEMMA LevelsAreWhole ==
    ASSUME NEW hsl, hsl.s \in Int, hsl.l \in Int
    PROVE  Upper(hsl) \in Int /\ Lower(hsl) \in Int
<1>1. PICK s \in Int, l \in Int : s = hsl.s /\ l = hsl.l
  OBVIOUS
<1>2. Upper(hsl) \in Int
  BY <1>1 DEF Upper
<1> QED BY <1>1, <1>2 DEF Lower

LEMMA HueIsWhole ==
    ASSUME NEW p \in Int, NEW q \in Int, NEW t \in Int
    PROVE  hue2rgb(p, q, t) \in Int
<1>1. PICK u \in Int : u = IF t < 0 THEN t + 360 ELSE IF t > 360 THEN t - 360 ELSE t
  OBVIOUS
<1>2. (q - p) * u \in Int /\ (q - p) * (240 - u) \in Int
  OBVIOUS
<1> QED BY <1>1, <1>2 DEF hue2rgb

LEMMA ColourOfHsl ==
    ASSUME NEW hsl, hsl.h \in Int, hsl.s \in Int, hsl.l \in Int
    PROVE  hslToRgb(hsl) \in RGB
<1>1. PICK p \in Int, q \in Int : p = Lower(hsl) /\ q = Upper(hsl)
  BY LevelsAreWhole
<1>2. PICK d \in Nat \ {0} : d = 600000
  BY SMT
<1>3. ASSUME NEW t \in Int PROVE ByteAt(hsl, t) \in 0 .. 255
  <2>1. PICK v \in Int : v = hue2rgb(p, q, t)
    BY HueIsWhole
  <2>2. PICK n \in Int : n = 255 * v
    OBVIOUS
  <2>3. Byte(Round(n, d)) \in 0 .. 255
    BY ByteOfRound
  <2> QED BY SMT, <1>1, <1>2, <2>1, <2>2, <2>3 DEF ByteAt
<1>4. Grey(hsl) \in 0 .. 255
  <2>1. PICK n \in Int, e \in Nat \ {0} : n = 255 * hsl.l /\ e = 100
    OBVIOUS
  <2>2. Byte(Round(n, e)) \in 0 .. 255
    BY ByteOfRound
  <2> QED BY <2>1, <2>2 DEF Grey
<1>5. hsl.h + 120 \in Int /\ hsl.h - 120 \in Int
  OBVIOUS
<1>6. /\ ByteAt(hsl, hsl.h + 120) \in 0 .. 255 /\ ByteAt(hsl, hsl.h) \in 0 .. 255
      /\ ByteAt(hsl, hsl.h - 120) \in 0 .. 255
  BY <1>3, <1>5
<1> QED BY <1>4, <1>6 DEF hslToRgb, RGB

LEMMA LightnessIs ==
    ASSUME NEW shade \in ColorShade
    PROVE  shade \in Int /\ SHADE_LIGHTNESS_MAP[shade] \in Int
BY DEF ColorShade, SHADE_LIGHTNESS_MAP

LEMMA ShadePartsAreWhole ==
    ASSUME NEW h \in Int, NEW s \in Int, NEW k \in Int
    PROVE  ShadeHue(h, k) \in Int /\ ShadeSaturation(s, k) \in Int
<1>1. ShadeHue(h, k) \in Int
  <2>1. PICK m \in Int, d \in Nat \ {0} : m = 100 * h + (500 - k) /\ d = 100
    OBVIOUS
  <2>2. PICK n \in Int, e \in Nat \ {0} : n = 200 * h + (500 - k) /\ e = 200
    OBVIOUS
  <2>3. PICK i \in Int, j \in Int : i = Round(m, d) /\ j = Round(n, e)
    BY RoundIsWhole
  <2>4. PICK turned \in Int : turned = IF k < 500 THEN i ELSE j
    OBVIOUS
  <2>5. ShadeHue(h, k) = IF turned >= 360 THEN turned - 360 ELSE turned
    BY <2>1, <2>2, <2>3, <2>4 DEF ShadeHue
  <2> QED BY <2>5
<1>2. ShadeSaturation(s, k) \in Int
  <2>1. PICK away \in Int : away = Magnitude(k - 500)
    BY DEF Magnitude
  <2>2. PICK n \in Int : n = s * (50000 - 15 * away)
    BY SMT
  <2>3. PICK d \in Nat \ {0} : d = 50000
    BY SMT
  <2>4. PICK q \in Int : q = Round(n, d)
    BY RoundIsWhole
  <2>5. PICK most \in Int : most = 100
    OBVIOUS
  <2>6. Min({most, q}) \in Int
    BY OfTwo
  <2>7. ShadeSaturation(s, k) = Min({most, q})
    BY SMT, <2>1, <2>2, <2>3, <2>4, <2>5 DEF ShadeSaturation
  <2> QED BY <2>6, <2>7
<1> QED BY <1>1, <1>2

LEMMA ShadeIsColour ==
    ASSUME NEW hsl \in HSL, NEW shade \in ColorShade
    PROVE  generatePalette(hsl)[shade] \in RGB
<1>1. PICK k \in Int, l \in Int : k = shade /\ l = SHADE_LIGHTNESS_MAP[shade]
  BY LightnessIs
<1>8. hsl.h \in Int /\ hsl.s \in Int
  BY DEF HSL
<1>2. PICK h \in Int, s \in Int : h = hsl.h /\ s = hsl.s
  BY <1>8
<1>3. PICK hue \in Int, saturation \in Int :
          hue = ShadeHue(h, k) /\ saturation = ShadeSaturation(s, k)
  BY ShadePartsAreWhole
<1>4. PICK parts : parts = [h |-> hue, s |-> saturation, l |-> l]
  OBVIOUS
<1>5. parts.h \in Int /\ parts.s \in Int /\ parts.l \in Int
  BY <1>4
<1>6. hslToRgb(parts) \in RGB
  BY <1>5, ColourOfHsl
<1>7. generatePalette(hsl)[shade] = hslToRgb(parts)
  BY <1>1, <1>2, <1>3, <1>4 DEF generatePalette
<1> QED BY <1>6, <1>7

PaletteTyped ==
    /\ base \in RGB
    /\ palette = NoPalette \/ palette = generatePalette(rgbToHsl(base))

LEMMA PaletteTypedInvariant == PaletteSpec => []PaletteTyped
<1>1. PaletteInit => PaletteTyped
  <2> SUFFICES ASSUME PaletteInit PROVE PaletteTyped
    OBVIOUS
  <2>1. base \in [r : BaseLevels, g : BaseLevels, b : BaseLevels] /\ palette = NoPalette
    BY DEF PaletteInit
  <2>2. BaseLevels \subseteq 0 .. 255
    BY PaletteAssumption DEF PaletteAssumption
  <2>3. base \in RGB
    BY ZenonT(60), <2>1, <2>2 DEF RGB
  <2> QED BY <2>1, <2>3 DEF PaletteTyped
<1>2. PaletteTyped /\ [PaletteNext]_paletteVars => PaletteTyped'
  BY DEF PaletteTyped, PaletteNext, paletteVars, NoPalette
<1> QED BY <1>1, <1>2, PTL DEF PaletteSpec

\* Whatever the base colour: its hue, saturation and lightness are in range, and every shade is
\* made of bytes (rgbToHsl, hslToRgb, generatePalette).
THEOREM PaletteTypeCorrect == PaletteSpec => []PaletteTypeOK
<1>1. PaletteTyped => PaletteTypeOK
  <2> SUFFICES ASSUME PaletteTyped PROVE PaletteTypeOK
    OBVIOUS
  <2>1. base \in RGB /\ rgbToHsl(base) \in HSL
    BY HslOfColour DEF PaletteTyped
  <2>2. CASE palette = NoPalette
    BY <2>1, <2>2 DEF PaletteTypeOK, NoPalette
  <2>3. CASE palette = generatePalette(rgbToHsl(base))
    <3>1. DOMAIN palette = ColorShade
      BY <2>3 DEF generatePalette
    <3>2. \A shade \in ColorShade : palette[shade] \in RGB
      BY <2>1, <2>3, ShadeIsColour
    <3> QED BY <2>1, <3>1, <3>2 DEF PaletteTypeOK
  <2> QED BY <2>2, <2>3 DEF PaletteTyped
<1> QED BY <1>1, PaletteTypedInvariant, PTL

-----------------------------------------------------------------------------
(* How a colour is mixed *)

(* How a colour is mixed: of its hue and of the levels p and q of its darkest and brightest part. *)

\* a and b are at most e apart.
Apart(a, b, e) == a - b <= e /\ b - a <= e

\* The level of the part between, w sixtieths of the way from the darkest to the brightest.
Blend(p, q, w) == 60 * p + (q - p) * w

\* The byte of a level.
ByteShown(v) == Byte(Round(255 * v, 600000))

LEMMA RoundIsNear ==
    ASSUME NEW n \in Int, NEW d \in Nat \ {0}
    PROVE  /\ Round(n, d) \in Int
           /\ 2 * (Round(n, d) * d) <= 2 * n + d /\ 2 * n < 2 * (Round(n, d) * d) + d
<1>1. PICK m \in Int, e \in Nat \ {0} : m = 2 * n + d /\ e = 2 * d
  OBVIOUS
<1>2. PICK q \in Int : q = m \div e
  BY Divided
<1>3. Round(n, d) = q
  BY <1>1, <1>2 DEF Round
<1>4. q * e <= m /\ m < q * e + e
  BY <1>2, Divided
<1>5. q * e = 2 * (q * d)
  BY <1>1
<1> QED BY <1>1, <1>3, <1>4, <1>5

LEMMA RoundIsBetween ==
    ASSUME NEW n \in Int, NEW d \in Nat \ {0}, NEW low \in Int, NEW high \in Int,
           low * d <= n, n <= high * d
    PROVE  Round(n, d) \in low .. high
<1>1. PICK q \in Int : q = Round(n, d)
  BY RoundIsNear
<1>2. 2 * (q * d) <= 2 * n + d /\ 2 * n < 2 * (q * d) + d
  BY <1>1, RoundIsNear
<1>3. q <= high
  <2> SUFFICES ASSUME high + 1 <= q PROVE FALSE
    OBVIOUS
  <2>1. (high + 1) * d <= q * d
    BY Scaled
  <2>2. (high + 1) * d = high * d + d
    OBVIOUS
  <2> QED BY <1>2, <2>1, <2>2
<1>4. low <= q
  <2> SUFFICES ASSUME q + 1 <= low PROVE FALSE
    OBVIOUS
  <2>1. (q + 1) * d <= low * d
    BY Scaled
  <2>2. (q + 1) * d = q * d + d
    OBVIOUS
  <2> QED BY <1>2, <2>1, <2>2
<1> QED BY <1>1, <1>3, <1>4

LEMMA RoundIsMonotone ==
    ASSUME NEW m \in Int, NEW n \in Int, m <= n, NEW d \in Nat \ {0}
    PROVE  Round(m, d) <= Round(n, d)
<1>1. PICK i \in Int, j \in Int : i = Round(m, d) /\ j = Round(n, d)
  BY RoundIsNear
<1>2. 2 * (i * d) <= 2 * m + d /\ 2 * n < 2 * (j * d) + d
  BY <1>1, RoundIsNear
<1> SUFFICES ASSUME j + 1 <= i PROVE FALSE
  BY <1>1
<1>3. (j + 1) * d <= i * d
  BY Scaled
<1>4. (j + 1) * d = j * d + d
  OBVIOUS
<1> QED BY <1>2, <1>3, <1>4

Ordered(i, j) == i \in 0 .. 255 /\ j \in 0 .. 255 /\ i <= j

LEMMA ShownIsMonotone ==
    ASSUME NEW v \in Int, NEW w \in Int, v <= w
    PROVE  Ordered(ByteShown(v), ByteShown(w))
<1>1. PICK d \in Nat \ {0} : d = 600000
  BY SMT
<1>2. PICK m \in Int, n \in Int : m = 255 * v /\ n = 255 * w
  OBVIOUS
<1>3. m <= n
  BY SMT, <1>2
<1>4. PICK i \in Int, j \in Int : i = Round(m, d) /\ j = Round(n, d)
  BY RoundIsNear
<1>5. i <= j
  BY <1>3, <1>4, RoundIsMonotone
<1>6. ByteShown(v) = Byte(i) /\ ByteShown(w) = Byte(j)
  BY SMT, <1>1, <1>2, <1>4 DEF ByteShown
<1>7. /\ Byte(i) = IF i < 0 THEN 0 ELSE IF i > 255 THEN 255 ELSE i
      /\ Byte(j) = IF j < 0 THEN 0 ELSE IF j > 255 THEN 255 ELSE j
  BY Clamped
<1> QED BY SMTT(60), <1>5, <1>6, <1>7 DEF Ordered

\* A byte that n / d is rounded to.
IsNear(i, n, d) == i \in 0 .. 255 /\ 2 * (i * d) <= 2 * n + d /\ 2 * n < 2 * (i * d) + d

LEMMA ByteIsNear ==
    ASSUME NEW n \in Int, NEW d \in Nat \ {0}, NEW high \in Nat, high = 255, UpTo(n, high, d)
    PROVE  IsNear(Byte(Round(n, d)), n, d)
<1>4. PICK i \in Int : i = Round(n, d)
  BY RoundIsNear
<1>3. high \in Int
  OBVIOUS
<1>5. i \in 0 .. high
  BY ZenonT(60), <1>3, <1>4, RoundIsUpTo
<1>6. Byte(i) = i
  BY SMT, <1>5, Clamped
<1>7. 2 * (i * d) <= 2 * n + d /\ 2 * n < 2 * (i * d) + d
  BY <1>4, RoundIsNear
<1> QED BY SMT, <1>4, <1>5, <1>6, <1>7 DEF IsNear

\* 60 levels of the code, of which each is 10000 here.
Level(v) == 0 <= v /\ v <= 600000

ShownFor(i, v) == i \in 0 .. 255 /\ Apart(600000 * i, 255 * v, 300000)

LEMMA ShownIsNear ==
    ASSUME NEW v \in Int, Level(v)
    PROVE  ShownFor(ByteShown(v), v)
<1>1. PICK d \in Nat \ {0} : d = 600000
  BY SMT
<1>2. PICK n \in Int : n = 255 * v
  OBVIOUS
<1>8. PICK high \in Nat : high = 255
  OBVIOUS
<1>9. high * d = 255 * d
  BY <1>8
<1>3. UpTo(n, high, d)
  BY SMT, <1>1, <1>2, <1>9 DEF UpTo, Level
<1>4. PICK i : i = Byte(Round(n, d))
  OBVIOUS
<1>10. IsNear(i, n, d)
  BY <1>3, <1>4, <1>8, ByteIsNear
<1>5. i \in 0 .. 255 /\ 2 * (i * d) <= 2 * n + d /\ 2 * n < 2 * (i * d) + d
  BY SMT, <1>10 DEF IsNear
<1>6. i * d = 600000 * i
  BY SMT, <1>1, <1>5
<1>7. ByteShown(v) = i
  BY SMT, <1>1, <1>2, <1>4 DEF ByteShown
<1> QED BY SMTT(60), <1>1, <1>2, <1>5, <1>6, <1>7 DEF Apart, ShownFor

LEMMA BlendIsBetween ==
    ASSUME NEW p \in Int, NEW q \in Int, p <= q, NEW w \in 0 .. 60
    PROVE  /\ Blend(p, q, w) \in Int
           /\ 60 * p <= Blend(p, q, w) /\ Blend(p, q, w) <= 60 * q
<1>1. PICK d \in Nat : d = q - p
  OBVIOUS
<1>2. PICK low \in Int, high \in Int : low = 0 /\ high = 60
  OBVIOUS
<1>3. low * d <= w * d /\ w * d <= high * d
  BY <1>2, Scaled
<1>4. low * d = 0 /\ high * d = 60 * d
  BY <1>2
<1>5. PICK z \in Int : z = w * d
  OBVIOUS
<1>6. Blend(p, q, w) = 60 * p + z
  BY <1>1, <1>5 DEF Blend
<1> QED BY <1>1, <1>3, <1>4, <1>5, <1>6

\* What the three parts are for a hue of each sixth of the circle, its ends included, and of the
\* sixth before 0.
Mixed(p, q, h, r, g, b) ==
    /\ hue2rgb(p, q, h + 120) = r /\ hue2rgb(p, q, h) = g /\ hue2rgb(p, q, h - 120) = b

\* What a part is at each angle.
Turns(p, q, t) ==
    /\ t \in -240 .. -180 => hue2rgb(p, q, t) = 60 * q
    /\ t \in -180 .. -120 => hue2rgb(p, q, t) = Blend(p, q, - t - 120)
    /\ t \in -120 .. 0 => hue2rgb(p, q, t) = 60 * p
    /\ t \in 0 .. 60 => hue2rgb(p, q, t) = Blend(p, q, t)
    /\ t \in 60 .. 180 => hue2rgb(p, q, t) = 60 * q
    /\ t \in 180 .. 240 => hue2rgb(p, q, t) = Blend(p, q, 240 - t)
    /\ t \in 240 .. 360 => hue2rgb(p, q, t) = 60 * p
    /\ t \in 360 .. 420 => hue2rgb(p, q, t) = Blend(p, q, t - 360)
    /\ t \in 420 .. 480 => hue2rgb(p, q, t) = 60 * q

LEMMA HueTurns ==
    ASSUME NEW p \in Int, NEW q \in Int, NEW t \in Int
    PROVE  Turns(p, q, t)
<1>1. PICK d \in Int : d = q - p
  OBVIOUS
<1>2. d * 0 = 0 /\ d * 60 = 60 * q - 60 * p
  BY <1>1
<1>3. \A u \in Int : Blend(p, q, u) = 60 * p + d * u
  BY <1>1 DEF Blend
<1>4. PICK u \in Int : u = IF t < 0 THEN t + 360 ELSE IF t > 360 THEN t - 360 ELSE t
  OBVIOUS
<1>5. hue2rgb(p, q, t) = IF u < 60 THEN Blend(p, q, u)
                         ELSE IF u < 180 THEN 60 * q
                         ELSE IF u < 240 THEN Blend(p, q, 240 - u)
                         ELSE 60 * p
  BY <1>4 DEF hue2rgb, Blend
<1>6. Blend(p, q, 0) = 60 * p /\ Blend(p, q, 60) = 60 * q
  BY SMT DEF Blend
<1>7. t \in -240 .. -180 => hue2rgb(p, q, t) = 60 * q
  BY <1>4, <1>5, <1>6
<1>8. t \in -180 .. -120 => hue2rgb(p, q, t) = Blend(p, q, - t - 120)
  <2> SUFFICES ASSUME t \in -180 .. -120 PROVE hue2rgb(p, q, t) = Blend(p, q, - t - 120)
    OBVIOUS
  <2>1. u = t + 360 /\ 240 - u = - t - 120
    BY <1>4
  <2> QED BY <1>5, <1>6, <2>1
<1>9. t \in -120 .. 0 => hue2rgb(p, q, t) = 60 * p
  BY <1>4, <1>5, <1>6
<1>10. t \in 0 .. 60 => hue2rgb(p, q, t) = Blend(p, q, t)
  BY <1>4, <1>5, <1>6
<1>11. t \in 60 .. 180 => hue2rgb(p, q, t) = 60 * q
  BY <1>4, <1>5, <1>6
<1>12. t \in 180 .. 240 => hue2rgb(p, q, t) = Blend(p, q, 240 - t)
  BY <1>4, <1>5, <1>6
<1>13. t \in 240 .. 360 => hue2rgb(p, q, t) = 60 * p
  BY <1>4, <1>5, <1>6
<1>14. t \in 360 .. 420 => hue2rgb(p, q, t) = Blend(p, q, t - 360)
  BY <1>4, <1>5, <1>6
<1>15. t \in 420 .. 480 => hue2rgb(p, q, t) = 60 * q
  BY <1>4, <1>5, <1>6
<1> QED BY <1>7, <1>8, <1>9, <1>10, <1>11, <1>12, <1>13, <1>14, <1>15 DEF Turns

Mixes(p, q, h) ==
    /\ h \in -60 .. 0 => Mixed(p, q, h, 60 * q, 60 * p, Blend(p, q, - h))
    /\ h \in 0 .. 60 => Mixed(p, q, h, 60 * q, Blend(p, q, h), 60 * p)
    /\ h \in 60 .. 120 => Mixed(p, q, h, Blend(p, q, 120 - h), 60 * q, 60 * p)
    /\ h \in 120 .. 180 => Mixed(p, q, h, 60 * p, 60 * q, Blend(p, q, h - 120))
    /\ h \in 180 .. 240 => Mixed(p, q, h, 60 * p, Blend(p, q, 240 - h), 60 * q)
    /\ h \in 240 .. 300 => Mixed(p, q, h, Blend(p, q, h - 240), 60 * p, 60 * q)
    /\ h \in 300 .. 360 => Mixed(p, q, h, 60 * q, 60 * p, Blend(p, q, 360 - h))

LEMMA HueMixes ==
    ASSUME NEW p \in Int, NEW q \in Int, NEW h \in Int
    PROVE  Mixes(p, q, h)
<1>1. PICK i \in Int, j \in Int : i = h + 120 /\ j = h - 120
  OBVIOUS
<1>0. Turns(p, q, i) /\ Turns(p, q, h) /\ Turns(p, q, j)
  BY HueTurns
<1>2. Blend(p, q, 240 - i) = Blend(p, q, 120 - h) /\ Blend(p, q, i - 360) = Blend(p, q, h - 240)
  <2>1. 240 - i = 120 - h /\ i - 360 = h - 240
    BY <1>1
  <2> QED BY <2>1
<1>3. Blend(p, q, - j - 120) = Blend(p, q, - h) /\ Blend(p, q, 240 - j) = Blend(p, q, 360 - h)
  <2>1. - j - 120 = - h /\ 240 - j = 360 - h
    BY <1>1
  <2> QED BY <2>1
<1>4. Blend(p, q, j) = Blend(p, q, h - 120)
  BY <1>1
<1>5. /\ i \in 60 .. 180 => hue2rgb(p, q, i) = 60 * q
      /\ i \in 180 .. 240 => hue2rgb(p, q, i) = Blend(p, q, 120 - h)
      /\ i \in 240 .. 360 => hue2rgb(p, q, i) = 60 * p
      /\ i \in 360 .. 420 => hue2rgb(p, q, i) = Blend(p, q, h - 240)
      /\ i \in 420 .. 480 => hue2rgb(p, q, i) = 60 * q
  BY SMT, <1>0, <1>2 DEF Turns
<1>6. /\ h \in -60 .. 0 => hue2rgb(p, q, h) = 60 * p
      /\ h \in 0 .. 60 => hue2rgb(p, q, h) = Blend(p, q, h)
      /\ h \in 60 .. 180 => hue2rgb(p, q, h) = 60 * q
      /\ h \in 180 .. 240 => hue2rgb(p, q, h) = Blend(p, q, 240 - h)
      /\ h \in 240 .. 360 => hue2rgb(p, q, h) = 60 * p
  <2>1. h \in -60 .. 0 => h \in -120 .. 0
    OBVIOUS
  <2> QED BY SMT, <1>0, <2>1 DEF Turns
<1>7. /\ j \in -240 .. -180 => hue2rgb(p, q, j) = 60 * q
      /\ j \in -180 .. -120 => hue2rgb(p, q, j) = Blend(p, q, - h)
      /\ j \in -120 .. 0 => hue2rgb(p, q, j) = 60 * p
      /\ j \in 0 .. 60 => hue2rgb(p, q, j) = Blend(p, q, h - 120)
      /\ j \in 60 .. 180 => hue2rgb(p, q, j) = 60 * q
      /\ j \in 180 .. 240 => hue2rgb(p, q, j) = Blend(p, q, 360 - h)
  BY SMT, <1>0, <1>3, <1>4 DEF Turns
<1>8. \A r, g, b : Mixed(p, q, h, r, g, b) <=>
          hue2rgb(p, q, i) = r /\ hue2rgb(p, q, h) = g /\ hue2rgb(p, q, j) = b
  BY <1>1 DEF Mixed
<1>9. h \in -60 .. 0 => i \in 60 .. 180 /\ j \in -180 .. -120
  BY <1>1
<1>10. h \in 0 .. 60 => i \in 60 .. 180 /\ j \in -120 .. 0
  BY <1>1
<1>11. h \in 60 .. 120 => i \in 180 .. 240 /\ h \in 60 .. 180 /\ j \in -120 .. 0
  BY <1>1
<1>12. h \in 120 .. 180 => i \in 240 .. 360 /\ h \in 60 .. 180 /\ j \in 0 .. 60
  BY <1>1
<1>13. h \in 180 .. 240 => i \in 240 .. 360 /\ j \in 60 .. 180
  BY <1>1
<1>14. h \in 240 .. 300 => i \in 360 .. 420 /\ h \in 240 .. 360 /\ j \in 60 .. 180
  BY <1>1
<1>15. h \in 300 .. 360 => i \in 420 .. 480 /\ h \in 240 .. 360 /\ j \in 180 .. 240
  BY <1>1
<1> HIDE DEF Mixed
<1>16. h \in -60 .. 0 => Mixed(p, q, h, 60 * q, 60 * p, Blend(p, q, - h))
  BY <1>5, <1>6, <1>7, <1>8, <1>9
<1>17. h \in 0 .. 60 => Mixed(p, q, h, 60 * q, Blend(p, q, h), 60 * p)
  BY <1>5, <1>6, <1>7, <1>8, <1>10
<1>18. h \in 60 .. 120 => Mixed(p, q, h, Blend(p, q, 120 - h), 60 * q, 60 * p)
  BY <1>5, <1>6, <1>7, <1>8, <1>11
<1>19. h \in 120 .. 180 => Mixed(p, q, h, 60 * p, 60 * q, Blend(p, q, h - 120))
  BY <1>5, <1>6, <1>7, <1>8, <1>12
<1>20. h \in 180 .. 240 => Mixed(p, q, h, 60 * p, Blend(p, q, 240 - h), 60 * q)
  BY <1>5, <1>6, <1>7, <1>8, <1>13
<1>21. h \in 240 .. 300 => Mixed(p, q, h, Blend(p, q, h - 240), 60 * p, 60 * q)
  BY <1>5, <1>6, <1>7, <1>8, <1>14
<1>22. h \in 300 .. 360 => Mixed(p, q, h, 60 * q, 60 * p, Blend(p, q, 360 - h))
  BY <1>5, <1>6, <1>7, <1>8, <1>15
<1> QED BY <1>16, <1>17, <1>18, <1>19, <1>20, <1>21, <1>22 DEF Mixes

\* How much a part may be above or below the lightness, and the levels that make of it.
Depth(hsl) == (IF hsl.l < 50 THEN hsl.l ELSE 100 - hsl.l) * hsl.s

\* All of a level: what is 1 in the code.
Full == 10000

LEMMA LevelsAre ==
    ASSUME NEW hsl, hsl.s \in 0 .. 100, hsl.l \in 0 .. 100
    PROVE  /\ Upper(hsl) = 100 * hsl.l + Depth(hsl) /\ Lower(hsl) = 100 * hsl.l - Depth(hsl)
           /\ Depth(hsl) \in Nat /\ Upper(hsl) \in 0 .. Full /\ Lower(hsl) \in 0 .. Full
<1>1. PICK s \in Int, l \in Int : s = hsl.s /\ l = hsl.l
  BY SMTT(60)
<1>2. 0 <= s /\ s <= 100 /\ 0 <= l /\ l <= 100
  BY <1>1
<1>3. PICK w \in Nat : w = IF l < 50 THEN l ELSE 100 - l
  BY <1>2
<1>4. PICK z \in Int : z = w * s
  OBVIOUS
<1>5. Depth(hsl) = z
  BY <1>1, <1>3, <1>4 DEF Depth
<1>6. 0 <= z /\ z <= 100 * w
  <2>1. PICK low \in Int, high \in Int : low = 0 /\ high = 100
    OBVIOUS
  <2>2. low * w <= s * w /\ s * w <= high * w
    BY <1>2, <2>1, Scaled
  <2>3. low * w = 0 /\ high * w = 100 * w
    BY <2>1
  <2> QED BY <1>4, <2>2, <2>3
<1>7. Upper(hsl) = 100 * l + z
  <2>1. CASE l < 50
    <3>1. z = l * s
      BY <1>3, <1>4, <2>1
    <3> QED BY <1>1, <2>1, <3>1 DEF Upper
  <2>2. CASE ~(l < 50)
    <3>1. z = 100 * s - l * s
      BY <1>3, <1>4, <2>2
    <3> QED BY <1>1, <2>2, <3>1 DEF Upper
  <2> QED BY <2>1, <2>2
<1>8. Lower(hsl) = 100 * l - z
  BY <1>1, <1>7 DEF Lower
<1>9. l < 50 => 0 <= 100 * l + z /\ 100 * l + z <= 10000 /\ 0 <= 100 * l - z /\ 100 * l - z <= 10000
  BY SMT, <1>2, <1>3, <1>6
<1>10. ~(l < 50) =>
          0 <= 100 * l + z /\ 100 * l + z <= 10000 /\ 0 <= 100 * l - z /\ 100 * l - z <= 10000
  BY SMT, <1>2, <1>3, <1>6
<1>11. Upper(hsl) = 100 * hsl.l + Depth(hsl) /\ Lower(hsl) = 100 * hsl.l - Depth(hsl)
  BY <1>1, <1>5, <1>7, <1>8
<1>16. 100 * l + z \in Int /\ 100 * l - z \in Int
  OBVIOUS
<1>14. PICK u \in Int, v \in Int : u = 100 * l + z /\ v = 100 * l - z
  BY SMTT(60), <1>16
<1>15. u \in 0 .. Full /\ v \in 0 .. Full
  BY SMT, <1>9, <1>10, <1>14 DEF Full
<1>12. Upper(hsl) \in 0 .. Full /\ Lower(hsl) \in 0 .. Full
  BY <1>7, <1>8, <1>14, <1>15
<1>13. Depth(hsl) \in Nat
  BY <1>5, <1>6
<1> QED BY <1>11, <1>12, <1>13

-----------------------------------------------------------------------------
(* The light of a colour *)

LEMMA MaxIs ==
    ASSUME NEW S, S \subseteq Int, NEW x \in S, \A y \in S : y <= x
    PROVE  Max(S) = x
<1>1. \A y \in S : x >= y
  OBVIOUS
<1>2. Max(S) \in S /\ \A y \in S : Max(S) >= y
  BY <1>1 DEF Max
<1>3. Max(S) >= x /\ x >= Max(S) /\ Max(S) \in Int
  BY <1>1, <1>2
<1> QED BY <1>3

LEMMA MinIs ==
    ASSUME NEW S, S \subseteq Int, NEW x \in S, \A y \in S : x <= y
    PROVE  Min(S) = x
<1>2. Min(S) \in S /\ \A y \in S : Min(S) <= y
  BY DEF Min
<1>3. Min(S) <= x /\ x <= Min(S) /\ Min(S) \in Int
  BY <1>2
<1> QED BY <1>3

\* A hue that a shade may have, and the saturation and the lightness of any colour.
Turn == -60 .. 360
Circle == 0 .. 360
Percent == 0 .. 100

Mixable(hsl) == hsl.h \in Turn /\ hsl.s \in Percent /\ hsl.l \in Percent

\* One part of the three is the darkest, one the brightest, and one is between.
Mixture(v, p, q, r, g, b) ==
    60 * p <= v /\ v <= 60 * q /\ {r, g, b} = {60 * p, v, 60 * q}

LEMMA PartsAreMixed ==
    ASSUME NEW p \in Int, NEW q \in Int, p <= q, NEW h \in Turn,
           NEW r, NEW g, NEW b, Mixed(p, q, h, r, g, b)
    PROVE  \E v \in Int : Mixture(v, p, q, r, g, b)
<1>12. h \in Int
  BY SMT DEF Turn
<1>1. Mixes(p, q, h)
  BY <1>12, HueMixes
<1>2. PICK low, high : low = 60 * p /\ high = 60 * q
  OBVIOUS
<1>3. SUFFICES \E w \in 0 .. 60 : {r, g, b} = {low, Blend(p, q, w), high}
  BY <1>2, BlendIsBetween DEF Mixture
<1>4. CASE h \in -60 .. 0
  <2>1. - h \in 0 .. 60
    BY <1>4
  <2>2. r = high /\ g = low /\ b = Blend(p, q, - h)
    BY <1>1, <1>2, <1>4 DEF Mixes, Mixed
  <2> QED BY <2>1, <2>2
<1>5. CASE h \in 0 .. 60
  <2>2. r = high /\ g = Blend(p, q, h) /\ b = low
    BY <1>1, <1>2, <1>5 DEF Mixes, Mixed
  <2> QED BY <1>5, <2>2
<1>6. CASE h \in 60 .. 120
  <2>1. 120 - h \in 0 .. 60
    BY <1>6
  <2>2. r = Blend(p, q, 120 - h) /\ g = high /\ b = low
    BY <1>1, <1>2, <1>6 DEF Mixes, Mixed
  <2> QED BY <2>1, <2>2
<1>7. CASE h \in 120 .. 180
  <2>1. h - 120 \in 0 .. 60
    BY <1>7
  <2>2. r = low /\ g = high /\ b = Blend(p, q, h - 120)
    BY <1>1, <1>2, <1>7 DEF Mixes, Mixed
  <2> QED BY <2>1, <2>2
<1>8. CASE h \in 180 .. 240
  <2>1. 240 - h \in 0 .. 60
    BY <1>8
  <2>2. r = low /\ g = Blend(p, q, 240 - h) /\ b = high
    BY <1>1, <1>2, <1>8 DEF Mixes, Mixed
  <2> QED BY <2>1, <2>2
<1>9. CASE h \in 240 .. 300
  <2>1. h - 240 \in 0 .. 60
    BY <1>9
  <2>2. r = Blend(p, q, h - 240) /\ g = low /\ b = high
    BY <1>1, <1>2, <1>9 DEF Mixes, Mixed
  <2> QED BY <2>1, <2>2
<1>10. CASE h \in 300 .. 360
  <2>1. 360 - h \in 0 .. 60
    BY <1>10
  <2>2. r = high /\ g = low /\ b = Blend(p, q, 360 - h)
    BY <1>1, <1>2, <1>10 DEF Mixes, Mixed
  <2> QED BY <2>1, <2>2
<1>11. \/ h \in -60 .. 0 \/ h \in 0 .. 60 \/ h \in 60 .. 120 \/ h \in 120 .. 180
       \/ h \in 180 .. 240 \/ h \in 240 .. 300 \/ h \in 300 .. 360
  BY SMTT(60) DEF Turn
<1> QED BY <1>4, <1>5, <1>6, <1>7, <1>8, <1>9, <1>10, <1>11

\* The bytes of a colour that has any saturation.
LEMMA ColourIsMixed ==
    ASSUME NEW hsl, Mixable(hsl), hsl.s # 0
    PROVE  \E r, g, b \in Int :
               /\ Mixed(Lower(hsl), Upper(hsl), hsl.h, r, g, b)
               /\ hslToRgb(hsl) = [r |-> ByteShown(r), g |-> ByteShown(g), b |-> ByteShown(b)]
<1>1. PICK h \in Int : h = hsl.h
  BY SMTT(60) DEF Mixable, Turn
<1>2. hsl.s \in 0 .. 100 /\ hsl.l \in 0 .. 100
  BY DEF Mixable, Percent
<1>9. \A x \in 0 .. Full : x \in Int
  BY SMT DEF Full
<1>3. PICK p \in Int, q \in Int : p = Lower(hsl) /\ q = Upper(hsl)
  BY <1>2, <1>9, LevelsAre
<1>4. PICK i \in Int, j \in Int : i = h + 120 /\ j = h - 120
  OBVIOUS
<1>5. PICK r \in Int, g \in Int, b \in Int :
          r = hue2rgb(p, q, i) /\ g = hue2rgb(p, q, h) /\ b = hue2rgb(p, q, j)
  BY HueIsWhole
<1>6. Mixed(p, q, h, r, g, b)
  BY <1>4, <1>5 DEF Mixed
<1>7. \A t : ByteAt(hsl, t) = ByteShown(hue2rgb(p, q, t))
  BY <1>3 DEF ByteAt, ByteShown
<1>8. hslToRgb(hsl) = [r |-> ByteShown(r), g |-> ByteShown(g), b |-> ByteShown(b)]
  BY <1>1, <1>4, <1>5, <1>7 DEF hslToRgb
<1> QED BY <1>1, <1>3, <1>6, <1>8

LEMMA LightIs ==
    ASSUME NEW hsl, Mixable(hsl)
    PROVE  Light(hslToRgb(hsl)) \in Int /\ Apart(10 * Light(hslToRgb(hsl)), 51 * hsl.l, 10)
<1>1. PICK c : c = hslToRgb(hsl)
  OBVIOUS
<1>2. PICK l \in Int : l = hsl.l /\ 0 <= l /\ l <= 100
  BY DEF Mixable, Percent
<1>3. CASE hsl.s = 0
  <2>1. PICK x : x = Grey(hsl)
    OBVIOUS
  <2>2. PICK n \in Int, d \in Nat \ {0}, high \in Nat : n = 255 * l /\ d = 100 /\ high = 255
    OBVIOUS
  <2>3. high * d = 255 * d
    BY <2>2
  <2>4. UpTo(n, high, d)
    BY SMT, <1>2, <2>2, <2>3 DEF UpTo
  <2>5. x = Byte(Round(n, d))
    BY <1>2, <2>1, <2>2 DEF Grey
  <2>6. IsNear(x, n, d)
    BY <2>2, <2>4, <2>5, ByteIsNear
  <2>7. x \in Int /\ 200 * x <= 510 * l + 100 /\ 510 * l < 200 * x + 100
    BY SMT, <2>2, <2>6 DEF IsNear
  <2>8. c = [r |-> x, g |-> x, b |-> x]
    BY <1>1, <1>3, <2>1 DEF hslToRgb
  <2>9. Brightest(c) = x /\ Darkest(c) = x
    BY <2>7, <2>8, MaxIs, MinIs DEF Brightest, Darkest
  <2>10. Light(c) = 2 * x
    BY <2>7, <2>9 DEF Light
  <2>11. Apart(10 * Light(c), 51 * l, 10)
    BY SMT, <2>7, <2>10 DEF Apart
  <2> QED BY <1>1, <1>2, <2>7, <2>10, <2>11
<1>4. CASE hsl.s # 0
  <2>1. PICK r \in Int, g \in Int, b \in Int :
            /\ Mixed(Lower(hsl), Upper(hsl), hsl.h, r, g, b)
            /\ c = [r |-> ByteShown(r), g |-> ByteShown(g), b |-> ByteShown(b)]
    BY <1>1, <1>4, ColourIsMixed
  <2>2. hsl.s \in 0 .. 100 /\ hsl.l \in 0 .. 100 /\ hsl.h \in Turn
    BY DEF Mixable, Percent
  <2>3. /\ Upper(hsl) = 100 * hsl.l + Depth(hsl) /\ Lower(hsl) = 100 * hsl.l - Depth(hsl)
        /\ Depth(hsl) \in Nat /\ Upper(hsl) \in 0 .. Full /\ Lower(hsl) \in 0 .. Full
    BY <2>2, LevelsAre
  <2>19. PICK z \in Nat, h \in Turn : z = Depth(hsl) /\ h = hsl.h
    BY <2>2, <2>3
  <2>20. 100 * l - z \in Int /\ 100 * l + z \in Int
    OBVIOUS
  <2>21. PICK p \in Int, q \in Int : p = 100 * l - z /\ q = 100 * l + z
    BY <2>20
  <2>4. p = Lower(hsl) /\ q = Upper(hsl)
    BY <1>2, <2>3, <2>19, <2>21
  <2>5. p <= q
    BY SMT, <2>21
  <2>22. p + q = 200 * l
    BY SMT, <2>21
  <2>6. PICK v \in Int : Mixture(v, p, q, r, g, b)
    <3>1. Mixed(p, q, h, r, g, b)
      BY <2>1, <2>4, <2>19
    <3> QED BY <2>5, <3>1, PartsAreMixed
  <2>7. PICK low \in Int, high \in Int : low = 60 * p /\ high = 60 * q
    OBVIOUS
  <2>8. PICK x, y, z1 : x = ByteShown(low) /\ y = ByteShown(v) /\ z1 = ByteShown(high)
    OBVIOUS
  <2>23. Ordered(x, y) /\ Ordered(y, z1)
    BY <2>6, <2>7, <2>8, ShownIsMonotone DEF Mixture
  <2>9. x \in Int /\ y \in Int /\ z1 \in Int /\ x <= y /\ y <= z1
    BY SMT, <2>23 DEF Ordered
  <2>10. {c.r, c.g, c.b} = {x, y, z1}
    <3>1. {c.r, c.g, c.b} = {ByteShown(e) : e \in {r, g, b}}
      BY <2>1
    <3>2. {x, y, z1} = {ByteShown(e) : e \in {low, v, high}}
      BY <2>8
    <3> QED BY <2>6, <2>7, <3>1, <3>2 DEF Mixture
  <2>11. PICK S : S = {x, y, z1} /\ S \subseteq Int
    BY <2>9
  <2>12. Max(S) = z1
    BY <2>9, <2>11, MaxIs
  <2>13. Min(S) = x
    BY <2>9, <2>11, MinIs
  <2>14. Light(c) = z1 + x
    BY <2>10, <2>11, <2>12, <2>13 DEF Light, Brightest, Darkest
  <2>24. p \in 0 .. Full /\ q \in 0 .. Full
    BY <2>3, <2>4
  <2>15. Level(low) /\ Level(high)
    BY SMT, <2>7, <2>24 DEF Full, Level
  <2>16. ShownFor(x, low) /\ ShownFor(z1, high)
    BY <2>8, <2>15, ShownIsNear
  <2>17. 255 * low + 255 * high = 3060000 * l
    BY SMT, <2>7, <2>22
  <2>18. Apart(10 * (z1 + x), 51 * l, 10)
    BY SMT, <2>9, <2>16, <2>17 DEF Apart, ShownFor
  <2> QED BY <1>1, <1>2, <2>9, <2>14, <2>18
<1> QED BY <1>3, <1>4

-----------------------------------------------------------------------------
(* Shades of a colour *)

Depths == 50 .. 950

LEMMA ShadesDarken ==
    ASSUME NEW a \in ColorShade
    PROVE  /\ a \in Depths /\ SHADE_LIGHTNESS_MAP[a] \in Percent
           /\ \A b \in ColorShade :
                  a < b => SHADE_LIGHTNESS_MAP[a] >= SHADE_LIGHTNESS_MAP[b] + 3
<1>1. /\ SHADE_LIGHTNESS_MAP[50] = 97 /\ SHADE_LIGHTNESS_MAP[100] = 94
      /\ SHADE_LIGHTNESS_MAP[200] = 86 /\ SHADE_LIGHTNESS_MAP[300] = 77
      /\ SHADE_LIGHTNESS_MAP[400] = 66 /\ SHADE_LIGHTNESS_MAP[500] = 50
      /\ SHADE_LIGHTNESS_MAP[600] = 42 /\ SHADE_LIGHTNESS_MAP[700] = 35
      /\ SHADE_LIGHTNESS_MAP[800] = 27 /\ SHADE_LIGHTNESS_MAP[900] = 20
      /\ SHADE_LIGHTNESS_MAP[950] = 12
  BY SMTT(60) DEF SHADE_LIGHTNESS_MAP, ColorShade
<1>2. a \in Depths
  BY SMTT(60) DEF ColorShade, Depths
<1>3. SHADE_LIGHTNESS_MAP[a] \in Percent
  BY SMTT(60), <1>1 DEF ColorShade, Percent
<1>4. ASSUME NEW b \in ColorShade, a < b PROVE SHADE_LIGHTNESS_MAP[a] >= SHADE_LIGHTNESS_MAP[b] + 3
  BY SMTT(60), <1>1, <1>4 DEF ColorShade
<1> QED BY <1>2, <1>3, <1>4

LEMMA ShadeHueIs ==
    ASSUME NEW h \in Circle, NEW k \in Depths
    PROVE  ShadeHue(h, k) \in Turn /\ (k = 500 => ShadeHue(h, k) = IF h = 360 THEN 0 ELSE h)
<1>1. PICK m \in Int, d \in Nat \ {0} : m = 100 * h + (500 - k) /\ d = 100
  BY SMT DEF Circle, Depths
<1>2. PICK n \in Int, e \in Nat \ {0} : n = 200 * h + (500 - k) /\ e = 200
  BY SMT DEF Circle, Depths
<1>3. PICK i \in Int, j \in Int : i = Round(m, d) /\ j = Round(n, e)
  BY RoundIsWhole
<1>4. 2 * (i * d) <= 2 * m + d /\ 2 * m < 2 * (i * d) + d
  BY <1>3, RoundIsNear
<1>5. 2 * (j * e) <= 2 * n + e /\ 2 * n < 2 * (j * e) + e
  BY <1>3, RoundIsNear
<1>6. i * d = 100 * i /\ j * e = 200 * j
  BY <1>1, <1>2
<1>7. PICK turned \in Int : turned = IF k < 500 THEN i ELSE j
  OBVIOUS
<1>8. ShadeHue(h, k) = IF turned >= 360 THEN turned - 360 ELSE turned
  BY <1>1, <1>2, <1>3, <1>7 DEF ShadeHue
<1>13. k \in Int /\ h \in Int /\ 50 <= k /\ k <= 950 /\ 0 <= h /\ h <= 360
  BY SMT DEF Circle, Depths
<1>9. k < 500 => 0 <= i /\ i <= 365
  BY SMTT(60), <1>1, <1>4, <1>6, <1>13
<1>10. ~(k < 500) => -60 <= j /\ j <= 360
  BY SMTT(60), <1>2, <1>5, <1>6, <1>13
<1>11. k = 500 => j = h
  BY SMTT(60), <1>2, <1>5, <1>6, <1>13
<1>12. -60 <= turned /\ turned <= 365 /\ (k = 500 => turned = h)
  BY <1>7, <1>9, <1>10, <1>11
<1>14. h >= 360 <=> h = 360
  BY <1>13
<1>15. ShadeHue(h, k) \in Turn
  BY SMTT(60), <1>8, <1>12 DEF Turn
<1>16. k = 500 => ShadeHue(h, k) = IF h = 360 THEN 0 ELSE h
  BY SMTT(60), <1>8, <1>12, <1>13
<1> QED BY <1>15, <1>16

LEMMA ShadeSaturationIs ==
    ASSUME NEW s \in Percent, NEW k \in Depths
    PROVE  /\ ShadeSaturation(s, k) \in Percent
           /\ s = 0 \/ k = 500 => ShadeSaturation(s, k) = s
<1>1. PICK away \in Nat : away = Magnitude(k - 500) /\ away <= 450 /\ (k = 500 => away = 0)
  BY SMTT(60) DEF Magnitude, Depths
<1>2. PICK f \in Nat : f = 50000 - 15 * away /\ f <= 50000 /\ (k = 500 => f = 50000)
  BY SMTT(60), <1>1
<1>8. s \in Nat
  BY SMT DEF Percent
<1>3. PICK n \in Int : n = s * f
  BY <1>8
<1>4. PICK d \in Nat \ {0} : d = 50000
  BY SMT
<1>5. PICK q \in Int : q = Round(n, d)
  BY RoundIsWhole
<1>6. PICK most \in Int : most = 100
  OBVIOUS
<1>7. ShadeSaturation(s, k) = Min({most, q})
  BY SMT, <1>1, <1>2, <1>3, <1>4, <1>5, <1>6 DEF ShadeSaturation
<1>14. s <= 100
  BY SMT DEF Percent
<1>9. 0 * d <= n /\ n <= s * d
  <2>1. 0 * s <= f * s /\ f * s <= d * s
    BY <1>2, <1>4, <1>8, Scaled
  <2> QED BY <1>3, <1>8, <2>1
<1>10. q \in 0 .. s
  BY <1>5, <1>8, <1>9, RoundIsBetween
<1>15. q \in Percent
  BY <1>8, <1>10, <1>14 DEF Percent
<1>11. Min({most, q}) = q
  BY <1>6, <1>8, <1>10, <1>14, OfTwo
<1>12. s = 0 => q = s
  BY <1>8, <1>10
<1>13. k = 500 => q = s
  <2> SUFFICES ASSUME k = 500 PROVE q = s
    OBVIOUS
  <2>1. s * d <= n
    BY <1>2, <1>3, <1>4
  <2>2. q \in s .. s
    <3>1. s \in Int /\ s * d <= n /\ n <= s * d
      BY <1>8, <1>9, <2>1
    <3> QED BY <1>5, <3>1, RoundIsBetween
  <2> QED BY <2>2
<1> QED BY <1>7, <1>11, <1>12, <1>13, <1>15

\* The parts of a shade.
ShadeOf(hsl, k) ==
    [h |-> ShadeHue(hsl.h, k), s |-> ShadeSaturation(hsl.s, k), l |-> SHADE_LIGHTNESS_MAP[k]]

LEMMA ShadeIs ==
    ASSUME NEW hsl \in HSL, NEW k \in ColorShade
    PROVE  generatePalette(hsl)[k] = hslToRgb(ShadeOf(hsl, k)) /\ Mixable(ShadeOf(hsl, k))
<1>1. PICK h \in Circle, s \in Percent : h = hsl.h /\ s = hsl.s
  BY ZenonT(60) DEF HSL, Circle, Percent
<1>6. k \in Depths
  BY ShadesDarken
<1>2. ShadeHue(h, k) \in Turn /\ ShadeSaturation(s, k) \in Percent
  BY <1>6, ShadeHueIs, ShadeSaturationIs
<1>3. SHADE_LIGHTNESS_MAP[k] \in Percent
  BY ShadesDarken
<1>4. Mixable(ShadeOf(hsl, k))
  BY <1>1, <1>2, <1>3 DEF Mixable, ShadeOf
<1>5. generatePalette(hsl)[k] = hslToRgb(ShadeOf(hsl, k))
  BY DEF generatePalette, ShadeOf
<1> QED BY Zenon, <1>4, <1>5

LEMMA ShadesGetDarker ==
    ASSUME NEW hsl \in HSL, NEW a \in ColorShade, NEW b \in ColorShade, a < b
    PROVE  Light(generatePalette(hsl)[a]) > Light(generatePalette(hsl)[b])
<1>1. PICK x, y : x = Light(generatePalette(hsl)[a]) /\ y = Light(generatePalette(hsl)[b])
  OBVIOUS
<1>2. PICK l, m : l = SHADE_LIGHTNESS_MAP[a] /\ m = SHADE_LIGHTNESS_MAP[b]
  OBVIOUS
<1>3. ShadeOf(hsl, a).l = l /\ ShadeOf(hsl, b).l = m
  BY <1>2 DEF ShadeOf
<1>4. x \in Int /\ Apart(10 * x, 51 * l, 10)
  BY <1>1, <1>3, ShadeIs, LightIs
<1>5. y \in Int /\ Apart(10 * y, 51 * m, 10)
  BY <1>1, <1>3, ShadeIs, LightIs
<1>6. l \in Percent /\ m \in Percent /\ l >= m + 3
  BY <1>2, ShadesDarken
<1>7. x > y
  BY SMTT(60), <1>4, <1>5, <1>6 DEF Apart, Percent
<1> QED BY <1>1, <1>7

LEMMA GreysAreGrey ==
    ASSUME NEW c \in RGB, Brightest(c) = Darkest(c), NEW k \in ColorShade,
           NEW shade, shade = generatePalette(rgbToHsl(c))[k]
    PROVE  Brightest(shade) = Darkest(shade)
<1>1. PICK hsl : hsl = rgbToHsl(c)
  OBVIOUS
<1>2. PICK high, low : Extremes(c, high, low)
  BY Brightness
<1>3. high = low /\ high \in Int /\ high = Brightest(c) /\ low = Darkest(c)
  BY <1>2 DEF Extremes
<1>4. hsl.s = 0
  BY <1>1, <1>3 DEF rgbToHsl, Saturation
<1>5. hsl \in HSL
  BY <1>1, HslOfColour
<1>6. shade = hslToRgb(ShadeOf(hsl, k))
  BY <1>1, <1>5, ShadeIs
<1>7. k \in Depths
  BY ShadesDarken
<1>8. PICK s \in Percent : s = 0
  BY SMT DEF Percent
<1>9. ShadeSaturation(s, k) = s
  BY <1>7, <1>8, ShadeSaturationIs
<1>10. ShadeOf(hsl, k).s = 0
  BY <1>4, <1>8, <1>9 DEF ShadeOf
<1>11. PICK x : x = Grey(ShadeOf(hsl, k))
  OBVIOUS
<1>12. shade = [r |-> x, g |-> x, b |-> x]
  BY <1>6, <1>10, <1>11 DEF hslToRgb
<1>13. shade \in RGB
  BY <1>1, <1>5, ShadeIsColour
<1>14. x \in Int
  BY <1>12, <1>13 DEF RGB
<1>15. {shade.r, shade.g, shade.b} = {x}
  BY <1>12
<1>16. Max({x}) = x /\ Min({x}) = x
  BY <1>14, MaxIs, MinIs
<1> QED BY <1>15, <1>16 DEF Brightest, Darkest

-----------------------------------------------------------------------------
(* The hue of a colour *)

\* The part y lies between x and z, about w sixtieths of the way from z to x.
Order(x, y, z, w) == x >= y /\ y >= z /\ Apart(2 * (w * (x - z)), 120 * (y - z), x - z)

\* The sixth of the circle that a hue is in is that of its bytes.
Sextant(c, h) ==
    \/ h \in 0 .. 60 /\ Order(c.r, c.g, c.b, h)
    \/ h \in 60 .. 120 /\ Order(c.g, c.r, c.b, 120 - h)
    \/ h \in 120 .. 180 /\ Order(c.g, c.b, c.r, h - 120)
    \/ h \in 180 .. 240 /\ Order(c.b, c.g, c.r, 240 - h)
    \/ h \in 240 .. 300 /\ Order(c.b, c.r, c.g, h - 240)
    \/ h \in 300 .. 360 /\ Order(c.r, c.b, c.g, 360 - h)

\* A hue times the distance of the bytes: y - z sixths after a degrees, or before.
After(y, z, a, d) == 60 * (y - z) + a * d
Prior(y, z, a, d) == 60 * (z - y) + a * d

InSixthAfter(h, a) == h \in a .. a + 60
InSixthBefore(h, a) == h \in a - 60 .. a

LEMMA OrderAfter ==
    ASSUME NEW x \in Int, NEW y \in Int, NEW z \in Int, x >= y, y >= z, x # z,
           NEW a \in Int, NEW d, d = x - z, NEW n, n = After(y, z, a, d)
    PROVE  InSixthAfter(Round(n, d), a) /\ Order(x, y, z, Round(n, d) - a)
<1>1. d \in Nat \ {0} /\ n \in Int
  BY DEF After
<1>2. PICK h \in Int : h = Round(n, d)
  BY <1>1, RoundIsNear
<1>3. PICK top \in Int : top = a + 60
  OBVIOUS
<1>4. a * d <= n /\ n <= top * d
  <2>1. top * d = a * d + 60 * d
    BY <1>1, <1>3
  <2>2. PICK k \in Int : k = a * d
    BY <1>1
  <2> QED BY <2>1, <2>2 DEF After
<1>5. h \in a .. top
  BY <1>1, <1>2, <1>3, <1>4, RoundIsBetween
<1>6. 2 * (h * d) <= 2 * n + d /\ 2 * n < 2 * (h * d) + d
  BY <1>1, <1>2, RoundIsNear
<1>7. PICK w \in Int : w = h - a
  OBVIOUS
<1>8. w * d = h * d - a * d
  BY <1>1, <1>7
<1>9. Order(x, y, z, w)
  <2>1. PICK i \in Int, j \in Int, k \in Int : i = w * d /\ j = h * d /\ k = a * d
    BY <1>1
  <2>2. Apart(2 * i, 120 * (y - z), d)
    BY <1>1, <1>6, <1>8, <2>1 DEF Apart, After
  <2> QED BY <2>1, <2>2 DEF Order
<1>10. InSixthAfter(h, a)
  BY <1>3, <1>5 DEF InSixthAfter
<1> QED BY <1>2, <1>7, <1>9, <1>10

LEMMA OrderBefore ==
    ASSUME NEW x \in Int, NEW y \in Int, NEW z \in Int, x >= y, y >= z, x # z,
           NEW a \in Int, NEW d, d = x - z, NEW n, n = Prior(y, z, a, d)
    PROVE  InSixthBefore(Round(n, d), a) /\ Order(x, y, z, a - Round(n, d))
<1>1. d \in Nat \ {0} /\ n \in Int
  BY DEF Prior
<1>2. PICK h \in Int : h = Round(n, d)
  BY <1>1, RoundIsNear
<1>3. PICK low \in Int : low = a - 60
  OBVIOUS
<1>4. low * d <= n /\ n <= a * d
  <2>1. low * d = a * d - 60 * d
    BY <1>1, <1>3
  <2>2. PICK k \in Int : k = a * d
    BY <1>1
  <2> QED BY <2>1, <2>2 DEF Prior
<1>5. h \in low .. a
  BY <1>1, <1>2, <1>3, <1>4, RoundIsBetween
<1>6. 2 * (h * d) <= 2 * n + d /\ 2 * n < 2 * (h * d) + d
  BY <1>1, <1>2, RoundIsNear
<1>7. PICK w \in Int : w = a - h
  OBVIOUS
<1>8. w * d = a * d - h * d
  BY <1>1, <1>7
<1>9. Order(x, y, z, w)
  <2>1. PICK i \in Int, j \in Int, k \in Int : i = w * d /\ j = h * d /\ k = a * d
    BY <1>1
  <2>2. Apart(2 * i, 120 * (y - z), d)
    BY <1>1, <1>6, <1>8, <2>1 DEF Apart, Prior
  <2> QED BY <2>1, <2>2 DEF Order
<1>10. InSixthBefore(h, a)
  BY <1>3, <1>5 DEF InSixthBefore
<1> QED BY <1>2, <1>7, <1>9, <1>10

LEMMA HueIsOfSextant ==
    ASSUME NEW c \in RGB, Brightest(c) # Darkest(c)
    PROVE  Sextant(c, Hue(c))
<1>1. PICK high, low : Extremes(c, high, low)
  BY Brightness
<1>2. c.r \in Int /\ c.g \in Int /\ c.b \in Int
  BY DEF RGB
<1>3. PICK r \in Int, g \in Int, b \in Int : r = c.r /\ g = c.g /\ b = c.b
  BY <1>2
<1>4. /\ high \in Int /\ low \in Int /\ high = Brightest(c) /\ low = Darkest(c) /\ high # low
      /\ low <= r /\ r <= high /\ low <= g /\ g <= high /\ low <= b /\ b <= high
      /\ high \in {r, g, b} /\ low \in {r, g, b}
  BY <1>1, <1>3 DEF Extremes
<1>5. PICK d \in Nat \ {0} : d = high - low
  BY <1>4
<1>6. PICK h : h = Hue(c)
  OBVIOUS
<1>7. PICK one \in Int, three \in Int, five \in Int, turn \in Int, zero \in Int :
          zero = 0 /\ one = 60 /\ three = 120 /\ five = 240 /\ turn = 360
  OBVIOUS
<1>14. PICK k \in Int, m \in Int, n \in Int :
           /\ k = 60 * (g - b) + (IF g < b THEN 360 * d ELSE 0)
           /\ m = 60 * (b - r) + 120 * d /\ n = 60 * (r - g) + 240 * d
  OBVIOUS
<1>15. h = IF high = r THEN Round(k, d) ELSE IF high = g THEN Round(m, d) ELSE Round(n, d)
  BY <1>3, <1>4, <1>5, <1>6, <1>14 DEF Hue
<1>16. /\ g >= b => k = After(g, b, zero, d)
       /\ g < b => k = Prior(b, g, turn, d)
       /\ m = After(b, r, three, d) /\ m = Prior(r, b, three, d)
       /\ n = After(r, g, five, d) /\ n = Prior(g, r, five, d)
  BY <1>7, <1>14 DEF After, Prior
<1>17. /\ \A i : InSixthAfter(i, zero) => i \in 0 .. 60 /\ i - zero = i
       /\ \A i : InSixthBefore(i, turn) => i \in 300 .. 360 /\ turn - i = 360 - i
       /\ \A i : InSixthAfter(i, three) => i \in 120 .. 180 /\ i - three = i - 120
       /\ \A i : InSixthBefore(i, three) => i \in 60 .. 120 /\ three - i = 120 - i
       /\ \A i : InSixthAfter(i, five) => i \in 240 .. 300 /\ i - five = i - 240
       /\ \A i : InSixthBefore(i, five) => i \in 180 .. 240 /\ five - i = 240 - i
  BY SMTT(60), <1>7 DEF InSixthAfter, InSixthBefore
<1>8. CASE high = r /\ g >= b
  <2>1. low = b
    BY <1>4, <1>8
  <2>2. h = Round(k, d)
    BY <1>8, <1>15
  <2>3. InSixthAfter(h, zero) /\ Order(r, g, b, h - zero)
    BY <1>4, <1>5, <1>8, <1>16, <2>1, <2>2, OrderAfter
  <2>4. h \in 0 .. 60 /\ Order(r, g, b, h)
    BY <1>17, <2>3
  <2> QED BY <1>3, <1>6, <2>4 DEF Sextant
<1>9. CASE high = r /\ g < b
  <2>1. low = g
    BY <1>4, <1>9
  <2>2. h = Round(k, d)
    BY <1>9, <1>15
  <2>3. InSixthBefore(h, turn) /\ Order(r, b, g, turn - h)
    BY <1>4, <1>5, <1>9, <1>16, <2>1, <2>2, OrderBefore
  <2>4. h \in 300 .. 360 /\ Order(r, b, g, 360 - h)
    BY <1>17, <2>3
  <2> QED BY <1>3, <1>6, <2>4 DEF Sextant
<1>10. CASE high # r /\ high = g /\ b >= r
  <2>1. low = r
    BY <1>4, <1>10
  <2>2. h = Round(m, d)
    BY <1>10, <1>15
  <2>3. InSixthAfter(h, three) /\ Order(g, b, r, h - three)
    BY <1>4, <1>5, <1>10, <1>16, <2>1, <2>2, OrderAfter
  <2>4. h \in 120 .. 180 /\ Order(g, b, r, h - 120)
    BY <1>17, <2>3
  <2> QED BY <1>3, <1>6, <2>4 DEF Sextant
<1>11. CASE high # r /\ high = g /\ b < r
  <2>1. low = b
    BY <1>4, <1>11
  <2>2. h = Round(m, d)
    BY <1>11, <1>15
  <2>3. InSixthBefore(h, three) /\ Order(g, r, b, three - h)
    BY <1>4, <1>5, <1>11, <1>16, <2>1, <2>2, OrderBefore
  <2>4. h \in 60 .. 120 /\ Order(g, r, b, 120 - h)
    BY <1>17, <2>3
  <2> QED BY <1>3, <1>6, <2>4 DEF Sextant
<1>12. CASE high # r /\ high # g /\ r >= g
  <2>1. low = g /\ high = b
    BY <1>4, <1>12
  <2>2. h = Round(n, d)
    BY <1>12, <1>15
  <2>3. InSixthAfter(h, five) /\ Order(b, r, g, h - five)
    BY <1>4, <1>5, <1>12, <1>16, <2>1, <2>2, OrderAfter
  <2>4. h \in 240 .. 300 /\ Order(b, r, g, h - 240)
    BY <1>17, <2>3
  <2> QED BY <1>3, <1>6, <2>4 DEF Sextant
<1>13. CASE high # r /\ high # g /\ r < g
  <2>1. low = r /\ high = b
    BY <1>4, <1>13
  <2>2. h = Round(n, d)
    BY <1>13, <1>15
  <2>3. InSixthBefore(h, five) /\ Order(b, g, r, five - h)
    BY <1>4, <1>5, <1>13, <1>16, <2>1, <2>2, OrderBefore
  <2>4. h \in 180 .. 240 /\ Order(b, g, r, 240 - h)
    BY <1>17, <2>3
  <2> QED BY <1>3, <1>6, <2>4 DEF Sextant
<1> QED BY <1>8, <1>9, <1>10, <1>11, <1>12, <1>13

-----------------------------------------------------------------------------
(* The order of the bytes of a colour *)

\* The order of the three parts that a hue mixes.
InOrder(h, r, g, b) ==
    /\ h \in -60 .. 0 => r >= b /\ b >= g
    /\ h \in 0 .. 60 => r >= g /\ g >= b
    /\ h \in 60 .. 120 => g >= r /\ r >= b
    /\ h \in 120 .. 180 => g >= b /\ b >= r
    /\ h \in 180 .. 240 => b >= g /\ g >= r
    /\ h \in 240 .. 300 => b >= r /\ r >= g
    /\ h \in 300 .. 360 => r >= b /\ b >= g

LEMMA MixedIsInOrder ==
    ASSUME NEW p \in Int, NEW q \in Int, p <= q, NEW h \in Int,
           NEW r, NEW g, NEW b, Mixed(p, q, h, r, g, b)
    PROVE  InOrder(h, r, g, b)
<1>1. Mixes(p, q, h)
  BY HueMixes
<1>2. PICK low \in Int, high \in Int : low = 60 * p /\ high = 60 * q
  OBVIOUS
<1>3. low <= high
  BY <1>2
<1>4. \A w \in 0 .. 60 : /\ Blend(p, q, w) \in Int
                         /\ low <= Blend(p, q, w) /\ Blend(p, q, w) <= high
  BY <1>2, BlendIsBetween
<1>5. ASSUME h \in -60 .. 0 PROVE r >= b /\ b >= g
  <2>1. - h \in 0 .. 60
    BY <1>5
  <2>2. r = high /\ g = low /\ b = Blend(p, q, - h)
    BY <1>1, <1>2, <1>5 DEF Mixes, Mixed
  <2> QED BY <1>4, <2>1, <2>2
<1>6. ASSUME h \in 0 .. 60 PROVE r >= g /\ g >= b
  <2>2. r = high /\ g = Blend(p, q, h) /\ b = low
    BY <1>1, <1>2, <1>6 DEF Mixes, Mixed
  <2> QED BY <1>4, <1>6, <2>2
<1>7. ASSUME h \in 60 .. 120 PROVE g >= r /\ r >= b
  <2>1. 120 - h \in 0 .. 60
    BY <1>7
  <2>2. r = Blend(p, q, 120 - h) /\ g = high /\ b = low
    BY <1>1, <1>2, <1>7 DEF Mixes, Mixed
  <2> QED BY <1>4, <2>1, <2>2
<1>8. ASSUME h \in 120 .. 180 PROVE g >= b /\ b >= r
  <2>1. h - 120 \in 0 .. 60
    BY <1>8
  <2>2. r = low /\ g = high /\ b = Blend(p, q, h - 120)
    BY <1>1, <1>2, <1>8 DEF Mixes, Mixed
  <2> QED BY <1>4, <2>1, <2>2
<1>9. ASSUME h \in 180 .. 240 PROVE b >= g /\ g >= r
  <2>1. 240 - h \in 0 .. 60
    BY <1>9
  <2>2. r = low /\ g = Blend(p, q, 240 - h) /\ b = high
    BY <1>1, <1>2, <1>9 DEF Mixes, Mixed
  <2> QED BY <1>4, <2>1, <2>2
<1>10. ASSUME h \in 240 .. 300 PROVE b >= r /\ r >= g
  <2>1. h - 240 \in 0 .. 60
    BY <1>10
  <2>2. r = Blend(p, q, h - 240) /\ g = low /\ b = high
    BY <1>1, <1>2, <1>10 DEF Mixes, Mixed
  <2> QED BY <1>4, <2>1, <2>2
<1>11. ASSUME h \in 300 .. 360 PROVE r >= b /\ b >= g
  <2>1. 360 - h \in 0 .. 60
    BY <1>11
  <2>2. r = high /\ g = low /\ b = Blend(p, q, 360 - h)
    BY <1>1, <1>2, <1>11 DEF Mixes, Mixed
  <2> QED BY <1>4, <2>1, <2>2
<1> QED BY <1>5, <1>6, <1>7, <1>8, <1>9, <1>10, <1>11 DEF InOrder

\* The levels of a colour that may be mixed are whole, and the darkest is not above the brightest.
LEMMA LevelsInOrder ==
    ASSUME NEW hsl, Mixable(hsl)
    PROVE  /\ Lower(hsl) \in Int /\ Upper(hsl) \in Int /\ Lower(hsl) <= Upper(hsl)
           /\ Lower(hsl) \in 0 .. Full /\ Upper(hsl) \in 0 .. Full
<1>1. hsl.s \in 0 .. 100 /\ hsl.l \in 0 .. 100
  BY DEF Mixable, Percent
<1>2. PICK l \in Int : l = hsl.l
  BY <1>1
<1>3. PICK z : z = Depth(hsl)
  OBVIOUS
<1>4. /\ Upper(hsl) = 100 * l + z /\ Lower(hsl) = 100 * l - z /\ z \in Nat
      /\ Upper(hsl) \in 0 .. Full /\ Lower(hsl) \in 0 .. Full
  BY <1>1, <1>2, <1>3, LevelsAre
<1>5. 100 * l + z \in Int /\ 100 * l - z \in Int /\ 100 * l - z <= 100 * l + z
  BY <1>4
<1> QED BY <1>4, <1>5

\* x is above y in the order of the parts of one colour only if it is not below it in that of another.
OrderKept(x, y, z, r, g, b) ==
    /\ x > y => r >= g
    /\ x > z => r >= b
    /\ y > x => g >= r
    /\ y > z => g >= b
    /\ z > x => b >= r
    /\ z > y => b >= g

LEMMA MiddleShadeKeepsOrder ==
    ASSUME NEW c \in RGB, NEW shade, shade = generatePalette(rgbToHsl(c))[500]
    PROVE  OrderKept(c.r, c.g, c.b, shade.r, shade.g, shade.b)
<1>1. PICK hsl : hsl = rgbToHsl(c)
  OBVIOUS
<1>2. hsl \in HSL
  BY <1>1, HslOfColour
<1>3. 500 \in ColorShade
  BY SMT DEF ColorShade
<1>4. PICK parts : parts = ShadeOf(hsl, 500)
  OBVIOUS
<1>5. shade = hslToRgb(parts) /\ Mixable(parts)
  BY <1>1, <1>2, <1>3, <1>4, ShadeIs
<1>6. PICK x \in Int, y \in Int, z \in Int : x = c.r /\ y = c.g /\ z = c.b
  <2>1. c.r \in Int /\ c.g \in Int /\ c.b \in Int
    BY DEF RGB
  <2> QED BY <2>1
<1>7. PICK high, low : Extremes(c, high, low)
  BY Brightness
<1>8. /\ high \in Int /\ low \in Int /\ high = Brightest(c) /\ low = Darkest(c)
      /\ low <= x /\ x <= high /\ low <= y /\ y <= high /\ low <= z /\ z <= high
  BY <1>6, <1>7 DEF Extremes
<1>9. CASE high = low
  <2>1. x = y /\ y = z
    BY <1>8, <1>9
  <2> QED BY <1>6, <2>1 DEF OrderKept
<1>10. CASE high # low /\ parts.s = 0
  <2>1. PICK g : g = Grey(parts)
    OBVIOUS
  <2>2. shade = [r |-> g, g |-> g, b |-> g]
    BY <1>5, <1>10, <2>1 DEF hslToRgb
  <2>3. shade \in RGB
    BY <1>1, <1>2, <1>3, ShadeIsColour
  <2>4. g \in Int
    BY <2>2, <2>3 DEF RGB
  <2>5. g >= g
    BY <2>4
  <2> QED BY <2>2, <2>5 DEF OrderKept
<1>11. CASE high # low /\ parts.s # 0
  <2>1. PICK h : h = Hue(c)
    OBVIOUS
  <2>2. Sextant(c, h)
    BY <1>8, <1>11, <2>1, HueIsOfSextant
  <2>3. h \in Circle
    BY <2>1, HueIsBetween DEF Circle
  <2>4. hsl.h = h
    BY <1>1, <2>1 DEF rgbToHsl
  <2>5. PICK k \in Depths : k = 500
    BY SMT DEF Depths
  <2>6. parts.h = IF h = 360 THEN 0 ELSE h
    BY <1>4, <2>3, <2>4, <2>5, ShadeHueIs DEF ShadeOf
  <2>7. PICK t : t = parts.h
    OBVIOUS
  <2>8. PICK r \in Int, g \in Int, b \in Int :
            /\ Mixed(Lower(parts), Upper(parts), t, r, g, b)
            /\ shade = [r |-> ByteShown(r), g |-> ByteShown(g), b |-> ByteShown(b)]
    BY <1>5, <1>11, <2>7, ColourIsMixed
  <2>9. t \in Int /\ h \in Int /\ 0 <= h /\ h <= 360
    BY SMTT(60), <2>3, <2>6, <2>7 DEF Circle
  <2>10. InOrder(t, r, g, b)
    <3>1. PICK p \in Int, q \in Int : p = Lower(parts) /\ q = Upper(parts) /\ p <= q
      BY <1>5, LevelsInOrder
    <3> QED BY <2>8, <2>9, <3>1, MixedIsInOrder
  <2>11. OrderKept(x, y, z, r, g, b)
    <3>1. CASE h = 360
      <4>1. t = 0
        BY <2>6, <2>7, <3>1
      <4>2. r >= g /\ g >= b /\ b >= g
        BY SMTT(60), <2>10, <4>1 DEF InOrder
      <4>3. x >= z /\ z >= y
        BY SMTT(60), <1>6, <2>2, <3>1 DEF Sextant, Order
      <4> QED BY <4>2, <4>3 DEF OrderKept
    <3>2. CASE h # 360
      <4>1. t = h
        BY <2>6, <2>7, <3>2
      <4>2. CASE h \in 0 .. 60 /\ Order(c.r, c.g, c.b, h)
        <5>1. r >= g /\ g >= b
          BY <2>10, <4>1, <4>2 DEF InOrder
        <5>2. x >= y /\ y >= z
          BY <1>6, <4>2 DEF Order
        <5> QED BY <5>1, <5>2 DEF OrderKept
      <4>3. CASE h \in 60 .. 120 /\ Order(c.g, c.r, c.b, 120 - h)
        <5>1. g >= r /\ r >= b
          BY <2>10, <4>1, <4>3 DEF InOrder
        <5>2. y >= x /\ x >= z
          BY <1>6, <4>3 DEF Order
        <5> QED BY <5>1, <5>2 DEF OrderKept
      <4>4. CASE h \in 120 .. 180 /\ Order(c.g, c.b, c.r, h - 120)
        <5>1. g >= b /\ b >= r
          BY <2>10, <4>1, <4>4 DEF InOrder
        <5>2. y >= z /\ z >= x
          BY <1>6, <4>4 DEF Order
        <5> QED BY <5>1, <5>2 DEF OrderKept
      <4>5. CASE h \in 180 .. 240 /\ Order(c.b, c.g, c.r, 240 - h)
        <5>1. b >= g /\ g >= r
          BY <2>10, <4>1, <4>5 DEF InOrder
        <5>2. z >= y /\ y >= x
          BY <1>6, <4>5 DEF Order
        <5> QED BY <5>1, <5>2 DEF OrderKept
      <4>6. CASE h \in 240 .. 300 /\ Order(c.b, c.r, c.g, h - 240)
        <5>1. b >= r /\ r >= g
          BY <2>10, <4>1, <4>6 DEF InOrder
        <5>2. z >= x /\ x >= y
          BY <1>6, <4>6 DEF Order
        <5> QED BY <5>1, <5>2 DEF OrderKept
      <4>7. CASE h \in 300 .. 360 /\ Order(c.r, c.b, c.g, 360 - h)
        <5>1. r >= b /\ b >= g
          BY <2>10, <4>1, <4>7 DEF InOrder
        <5>2. x >= z /\ z >= y
          BY <1>6, <4>7 DEF Order
        <5> QED BY <5>1, <5>2 DEF OrderKept
      <4> QED BY <2>2, <4>2, <4>3, <4>4, <4>5, <4>6, <4>7 DEF Sextant
    <3> QED BY <3>1, <3>2
  <2>12. \A v, w \in Int : v >= w => ByteShown(v) >= ByteShown(w)
    <3> SUFFICES ASSUME NEW v \in Int, NEW w \in Int, v >= w PROVE ByteShown(v) >= ByteShown(w)
      OBVIOUS
    <3>1. w <= v
      OBVIOUS
    <3>2. Ordered(ByteShown(w), ByteShown(v))
      BY <3>1, ShownIsMonotone
    <3> QED BY SMT, <3>2 DEF Ordered
  <2> QED BY <1>6, <2>8, <2>11, <2>12 DEF OrderKept
<1> QED BY <1>9, <1>10, <1>11

\* The shades of any colour get darker, those of a grey are grey, and the middle one keeps the order
\* of its bytes.
LEMMA ShadesStayOrdered == PaletteTyped => ShadesAreOrdered
<1> SUFFICES ASSUME PaletteTyped, palette # NoPalette PROVE ShadesAreOrdered
  BY DEF ShadesAreOrdered
<1>1. PICK hsl : hsl = rgbToHsl(base)
  OBVIOUS
<1>2. base \in RGB /\ palette = generatePalette(hsl) /\ hsl \in HSL
  BY <1>1, HslOfColour DEF PaletteTyped
<1>3. \A a, b \in ColorShade : a < b => Light(palette[a]) > Light(palette[b])
  BY <1>2, ShadesGetDarker
<1>4. Brightest(base) = Darkest(base) =>
          \A k \in ColorShade : Brightest(palette[k]) = Darkest(palette[k])
  BY <1>1, <1>2, GreysAreGrey
<1>5. PICK shade : shade = palette[500]
  OBVIOUS
<1>6. OrderKept(base.r, base.g, base.b, shade.r, shade.g, shade.b)
  BY <1>1, <1>2, <1>5, MiddleShadeKeepsOrder
<1>7. shade \in RGB
  <2>1. 500 \in ColorShade
    BY SMT DEF ColorShade
  <2> QED BY <1>2, <1>5, <2>1, ShadeIsColour
<1>8. \A x, y \in {"r", "g", "b"} : base[x] > base[y] => shade[x] >= shade[y]
  <2>1. base.r \in Int /\ base.g \in Int /\ base.b \in Int
    BY <1>2 DEF RGB
  <2>2. shade.r \in Int /\ shade.g \in Int /\ shade.b \in Int
    BY <1>7 DEF RGB
  <2> QED BY <1>6, <2>1, <2>2 DEF OrderKept
<1> QED BY <1>3, <1>4, <1>5, <1>8 DEF ShadesAreOrdered

-----------------------------------------------------------------------------
(* The parts of a colour *)

\* A product with a factor that is small.
LEMMA ScaledApart ==
    ASSUME NEW a \in Int, NEW b \in Int, NEW e \in Int, Apart(a, b, e), NEW d \in Nat
    PROVE  a * d - b * d <= e * d /\ b * d - a * d <= e * d
<1>1. a - b <= e /\ b - a <= e
  BY DEF Apart
<1>2. (a - b) * d <= e * d /\ (b - a) * d <= e * d
  BY <1>1, Scaled
<1>3. (a - b) * d = a * d - b * d /\ (b - a) * d = b * d - a * d
  OBVIOUS
<1> QED BY <1>2, <1>3

\* What the saturation and the lightness of a colour are to its brightest byte i and its darkest j.
Taken(s, l, i, j) ==
    LET sum == IF i + j > 255 THEN 510 - (i + j) ELSE i + j
    IN  /\ 2 * (s * sum) <= 200 * (i - j) + sum /\ 200 * (i - j) < 2 * (s * sum) + sum
        /\ Apart(510 * l, 100 * (i + j), 255)

LEMMA PartsAreTaken ==
    ASSUME NEW c \in RGB, NEW i, NEW j, Extremes(c, i, j), i # j
    PROVE  Taken(rgbToHsl(c).s, rgbToHsl(c).l, i, j)
<1>1. /\ i \in Int /\ j \in Int /\ 0 <= j /\ j < i /\ i <= 255
      /\ i = Brightest(c) /\ j = Darkest(c)
  <2>1. i \in 0 .. 255 /\ j \in 0 .. 255 /\ i = Brightest(c) /\ j = Darkest(c) /\ c.r \in j .. i
    BY DEF Extremes
  <2> QED BY SMTT(60), <2>1
<1>2. PICK sum \in Int : sum = IF i + j > 255 THEN 510 - (i + j) ELSE i + j
  BY <1>1
<1>3. sum \in Nat \ {0}
  BY <1>1, <1>2
<1>4. PICK n \in Int : n = 100 * (i - j)
  BY <1>1
<1>5. PICK s \in Int : s = Round(n, sum)
  BY <1>3, RoundIsNear
<1>6. 2 * (s * sum) <= 2 * n + sum /\ 2 * n < 2 * (s * sum) + sum
  BY <1>3, <1>5, RoundIsNear
<1>7. Saturation(c) = s
  BY <1>1, <1>2, <1>4, <1>5 DEF Saturation
<1>8. PICK m \in Int, d \in Nat \ {0} : m = 100 * (i + j) /\ d = 510
  BY <1>1
<1>9. PICK l \in Int : l = Round(m, d)
  BY RoundIsNear
<1>10. 2 * (l * d) <= 2 * m + d /\ 2 * m < 2 * (l * d) + d
  BY <1>9, RoundIsNear
<1>11. l * d = 510 * l
  BY <1>8
<1>12. Apart(510 * l, 100 * (i + j), 255)
  BY <1>1, <1>8, <1>10, <1>11 DEF Apart
<1>13. rgbToHsl(c).s = s /\ rgbToHsl(c).l = l
  BY <1>1, <1>7, <1>8, <1>9 DEF rgbToHsl
<1>14. PICK k \in Int : k = s * sum
  BY <1>3
<1>15. 2 * k <= 200 * (i - j) + sum /\ 200 * (i - j) < 2 * k + sum
  BY <1>1, <1>3, <1>4, <1>6, <1>14
<1> QED BY <1>2, <1>12, <1>13, <1>14, <1>15 DEF Taken

\* The levels of a colour are those of its bytes, but for 3.2 of 255.
LevelOf(q, i) == Apart(255 * q, 10000 * i, 31875)

Product(a, b) == a * b

\* How far a lightness is from the nearer of black and white.
Distance(l) == IF l < 50 THEN l ELSE 100 - l

\* A saturation and a lightness taken from the parts i and j of a colour.
TakenFrom(s, l, i, j) ==
    /\ s \in Nat /\ l \in Nat /\ i \in Nat /\ j \in Nat
    /\ j < i /\ i <= 255 /\ s <= 100 /\ l <= 100 /\ Taken(s, l, i, j)

\* They give levels that are back near those parts.
LevelsAround(l, z, i, j) == LevelOf(100 * l + z, i) /\ LevelOf(100 * l - z, j)

LEMMA LevelsOfColour ==
    ASSUME NEW s, NEW l, NEW i, NEW j, TakenFrom(s, l, i, j),
           NEW w, w = Distance(l), NEW z, z = Product(w, s)
    PROVE  LevelsAround(l, z, i, j)
<1> SUFFICES ASSUME s \in Nat, l \in Nat, i \in Nat, j \in Nat, j < i, i <= 255,
                    s <= 100, l <= 100, Taken(s, l, i, j)
             PROVE  LevelOf(100 * l + z, i) /\ LevelOf(100 * l - z, j)
  BY Zenon DEF TakenFrom, LevelsAround
<1>15. i + j \in Int /\ 510 - (i + j) \in Int
  OBVIOUS
<1>1. PICK sum \in Int : sum = IF i + j > 255 THEN 510 - (i + j) ELSE i + j
  BY ZenonT(60), <1>15
<1>2. PICK k \in Int : k = s * sum
  OBVIOUS
<1>3. 2 * k <= 200 * (i - j) + sum /\ 200 * (i - j) < 2 * k + sum
  BY <1>1, <1>2 DEF Taken
<1>4. 510 * l - 100 * (i + j) <= 255 /\ 100 * (i + j) - 510 * l <= 255
  BY DEF Taken, Apart
<1>5. w \in Int /\ w = IF l < 50 THEN l ELSE 100 - l
  BY DEF Distance
<1>6. z \in Int /\ z = w * s
  BY <1>5 DEF Product
<1>7. 510 * w - 100 * sum <= 255 /\ 100 * sum - 510 * w <= 255
  <2>1. CASE l < 50 /\ i + j > 255
    BY SMTT(60), <1>1, <1>4, <1>5, <2>1
  <2>2. CASE l < 50 /\ ~(i + j > 255)
    BY SMTT(60), <1>1, <1>4, <1>5, <2>2
  <2>3. CASE ~(l < 50) /\ i + j > 255
    BY SMTT(60), <1>1, <1>4, <1>5, <2>3
  <2>4. CASE ~(l < 50) /\ ~(i + j > 255)
    BY SMTT(60), <1>1, <1>4, <1>5, <2>4
  <2> QED BY <2>1, <2>2, <2>3, <2>4
<1>8. sum <= 255 /\ 0 <= sum
  BY <1>1
<1>9. 510 * z - 100 * k <= 25500 /\ 100 * k - 510 * z <= 25500
  <2>1. PICK a \in Int, b \in Int, e \in Int : a = 510 * w /\ b = 100 * sum /\ e = 255
    BY <1>5
  <2>2. Apart(a, b, e)
    BY <1>7, <2>1 DEF Apart
  <2>3. a * s - b * s <= e * s /\ b * s - a * s <= e * s
    BY <2>2, ScaledApart
  <2>4. a * s = 510 * z
    BY <1>5, <1>6, <2>1
  <2>5. b * s = 100 * k
    BY <1>2, <2>1
  <2>6. e * s = 255 * s
    BY <2>1
  <2>7. PICK y \in Int, u \in Int, v \in Int : y = a * s /\ u = b * s /\ v = e * s
    OBVIOUS
  <2>8. y - u <= v /\ u - y <= v /\ y = 510 * z /\ u = 100 * k /\ v = 255 * s
    BY Zenon, <2>3, <2>4, <2>5, <2>6, <2>7
  <2>9. v <= 25500
    BY <2>8
  <2> QED BY SMTT(60), <1>6, <2>8, <2>9
<1>10. 510 * z - 10000 * (i - j) <= 38250 /\ 10000 * (i - j) - 510 * z <= 38250
  BY SMTT(60), <1>3, <1>6, <1>8, <1>9
<1>11. 510 * (100 * l) - 10000 * (i + j) <= 25500 /\ 10000 * (i + j) - 510 * (100 * l) <= 25500
  BY SMTT(60), <1>4
<1>12. PICK y \in Int, u \in Int : y = 100 * l + z /\ u = 100 * l - z
  BY <1>6
<1>13. Apart(255 * y, 10000 * i, 31875)
  BY SMTT(60), <1>6, <1>10, <1>11, <1>12 DEF Apart
<1>14. Apart(255 * u, 10000 * j, 31875)
  BY SMTT(60), <1>6, <1>10, <1>11, <1>12 DEF Apart
<1> QED BY <1>12, <1>13, <1>14 DEF LevelOf

\* What a part is shown as is near the byte that it was.
NearPart(v, y) == Apart(255 * v, 600000 * y, 3187500)

LEMMA NearPartIsKept ==
    ASSUME NEW v \in Int, Level(v), NEW y \in Int, NearPart(v, y)
    PROVE  ByteShown(v) \in Int /\ Apart(ByteShown(v), y, 5)
<1>1. PICK x : x = ByteShown(v)
  OBVIOUS
<1>2. ShownFor(x, v)
  BY <1>1, ShownIsNear
<1>3. x \in Int /\ Apart(600000 * x, 255 * v, 300000)
  BY SMTT(60), <1>2 DEF ShownFor
<1>4. x - y <= 5 /\ y - x <= 5
  BY SMTT(60), <1>3 DEF Apart, NearPart
<1> QED BY <1>1, <1>3, <1>4 DEF Apart

LEMMA EndIsNear ==
    ASSUME NEW q \in 0 .. Full, NEW i \in Int, LevelOf(q, i)
    PROVE  60 * q \in Int /\ Level(60 * q) /\ NearPart(60 * q, i)
<1>1. q \in Int /\ 0 <= q /\ q <= 10000
  BY SMTT(60) DEF Full
<1>2. PICK v \in Int : v = 60 * q
  BY <1>1
<1>3. 0 <= v /\ v <= 600000
  BY SMTT(60), <1>1, <1>2
<1>4. 255 * v - 600000 * i <= 3187500 /\ 600000 * i - 255 * v <= 3187500
  BY SMTT(60), <1>1, <1>2 DEF LevelOf, Apart
<1> QED BY <1>2, <1>3, <1>4 DEF Level, NearPart, Apart

LEMMA BlendIsNear ==
    ASSUME NEW p \in 0 .. Full, NEW q \in 0 .. Full, p <= q, NEW w \in 0 .. 60,
           NEW x \in Int, NEW y \in Int, NEW z \in Int, x - z <= 255, Order(x, y, z, w),
           LevelOf(q, x), LevelOf(p, z)
    PROVE  /\ Blend(p, q, w) \in Int /\ Level(Blend(p, q, w))
           /\ NearPart(Blend(p, q, w), y)
<1>1. p \in Int /\ 0 <= p /\ q \in Int /\ q <= 10000
  BY SMTT(60) DEF Full
<1>2. PICK v : v = Blend(p, q, w)
  OBVIOUS
<1>19. p \in Int /\ q \in Int
  BY <1>1
<1>20. \A i \in 0 .. 60 : Blend(p, q, i) \in Int /\ 60 * p <= Blend(p, q, i) /\ Blend(p, q, i) <= 60 * q
  BY <1>19, BlendIsBetween
<1>3. v \in Int /\ 60 * p <= v /\ v <= 60 * q
  BY <1>2, <1>20
<1>4. 0 <= v /\ v <= 600000
  BY SMTT(60), <1>1, <1>3
<1>5. w \in Nat /\ 60 - w \in Nat
  OBVIOUS
<1>6. PICK a \in Int, b \in Int, f \in Int, e \in Int, k \in Nat :
          a = 255 * p /\ b = 255 * q /\ f = 10000 * z /\ e = 31875 /\ k = 60 - w
  BY SMTT(60), <1>1, <1>5
<1>7. PICK g \in Int : g = 10000 * x
  BY SMTT(60)
<1>8. Apart(a, f, e) /\ Apart(b, g, e)
  BY <1>6, <1>7 DEF LevelOf
<1>9. a * k - f * k <= e * k /\ f * k - a * k <= e * k
  BY <1>8, ScaledApart
<1>10. b * w - g * w <= e * w /\ g * w - b * w <= e * w
  BY <1>5, <1>8, ScaledApart
<1>11. PICK m \in Int : m = w * (x - z)
  BY <1>5
<1>12. 2 * m - 120 * (y - z) <= 255 /\ 120 * (y - z) - 2 * m <= 255
  BY <1>11 DEF Order, Apart
<1>13. e * k + e * w = 60 * e
  BY <1>5, <1>6
<1>14. a * k + b * w = 255 * v
  <2>1. v = 60 * p + (q - p) * w
    BY <1>2 DEF Blend
  <2>2. PICK pw \in Int, qw \in Int : pw = p * w /\ qw = q * w
    BY <1>1, <1>5
  <2>3. v = 60 * p - pw + qw
    BY <1>1, <1>5, <2>1, <2>2
  <2>4. a * k = 60 * a - a * w /\ a * w = 255 * pw /\ b * w = 255 * qw
    BY <1>1, <1>5, <1>6, <2>2
  <2> QED BY SMTT(60), <1>1, <1>6, <2>2, <2>3, <2>4
<1>15. f * k + g * w = 600000 * z + 10000 * m
  <2>1. PICK xw \in Int, zw \in Int : xw = x * w /\ zw = z * w
    BY <1>5
  <2>2. m = xw - zw
    BY <1>5, <1>11, <2>1
  <2>3. f * k = 60 * f - f * w /\ f * w = 10000 * zw /\ g * w = 10000 * xw
    BY SMTT(60), <1>5, <1>6, <1>7, <2>1
  <2> QED BY SMTT(60), <1>6, <2>1, <2>2, <2>3
<1>16. PICK ak \in Int, bw \in Int, fk \in Int, gw \in Int, ek \in Int, ew \in Int :
           ak = a * k /\ bw = b * w /\ fk = f * k /\ gw = g * w /\ ek = e * k /\ ew = e * w
  BY <1>5
<1>17. /\ ak - fk <= ek /\ fk - ak <= ek /\ bw - gw <= ew /\ gw - bw <= ew
       /\ ek + ew = 60 * e /\ ak + bw = 255 * v /\ fk + gw = 600000 * z + 10000 * m
  BY <1>9, <1>10, <1>13, <1>14, <1>15, <1>16
<1>18. 255 * v - 600000 * y <= 3187500 /\ 600000 * y - 255 * v <= 3187500
  BY SMTT(60), <1>3, <1>6, <1>12, <1>17
<1> QED BY SMTT(60), <1>2, <1>3, <1>4, <1>18 DEF Level, NearPart, Apart

-----------------------------------------------------------------------------
(* A colour taken apart and put together again *)

\* A part of a colour is shown near the byte that it was.
Stays(x, y) == x \in Int /\ Apart(x, y, 5)

\* The levels p and q are those of the bytes x and z.
LevelsOf(p, q, x, z) == p <= q /\ x - z <= 255 /\ LevelOf(q, x) /\ LevelOf(p, z)

PartsStay(p, q, w, x, y, z) ==
    /\ Stays(ByteShown(60 * q), x) /\ Stays(ByteShown(Blend(p, q, w)), y)
    /\ Stays(ByteShown(60 * p), z)

\* The three parts of a colour, of its bytes from the brightest to the darkest.
LEMMA MixtureStays ==
    ASSUME NEW p \in 0 .. Full, NEW q \in 0 .. Full, NEW w \in 0 .. 60,
           NEW x \in Int, NEW y \in Int, NEW z \in Int, Order(x, y, z, w), LevelsOf(p, q, x, z)
    PROVE  PartsStay(p, q, w, x, y, z)
<1>10. p <= q /\ x - z <= 255 /\ LevelOf(q, x) /\ LevelOf(p, z)
  BY DEF LevelsOf
<1>1. PICK u : u = 60 * q
  OBVIOUS
<1>2. u \in Int /\ Level(u) /\ NearPart(u, x)
  BY Zenon, <1>1, <1>10, EndIsNear
<1>3. Stays(ByteShown(u), x)
  BY Zenon, <1>2, NearPartIsKept DEF Stays
<1>4. PICK v : v = 60 * p
  OBVIOUS
<1>5. v \in Int /\ Level(v) /\ NearPart(v, z)
  BY Zenon, <1>4, <1>10, EndIsNear
<1>6. Stays(ByteShown(v), z)
  BY Zenon, <1>5, NearPartIsKept DEF Stays
<1>7. PICK m : m = Blend(p, q, w)
  OBVIOUS
<1>8. m \in Int /\ Level(m) /\ NearPart(m, y)
  BY ZenonT(60), <1>7, <1>10, BlendIsNear
<1>9. Stays(ByteShown(m), y)
  BY Zenon, <1>8, NearPartIsKept DEF Stays
<1> QED BY Zenon, <1>1, <1>3, <1>4, <1>6, <1>7, <1>9 DEF PartsStay

\* Where the extremes of a colour are, when its bytes are known to be in order.
EndsAre(x, z, i, j) == x = i /\ z = j

LEMMA EndsOfOrder ==
    ASSUME NEW i \in Int, NEW j \in Int, NEW x \in j .. i, NEW y \in j .. i, NEW z \in j .. i,
           i \in {x, y, z}, j \in {x, y, z}, NEW w, Order(x, y, z, w)
    PROVE  EndsAre(x, z, i, j)
<1>1. x >= y /\ y >= z
  BY DEF Order
<1> QED BY <1>1 DEF EndsAre

\* A colour and its parts when they are put together again.
ColourStays(c, kept) == Stays(kept.r, c.r) /\ Stays(kept.g, c.g) /\ Stays(kept.b, c.b)

\* The colour that is put together of the levels p and q and of the hue h.
ShowsParts(kept, r, g, b) == kept = [r |-> ByteShown(r), g |-> ByteShown(g), b |-> ByteShown(b)]

LEMMA SextantStays ==
    ASSUME NEW c \in RGB, NEW i \in Int, NEW j \in Int, Extremes(c, i, j),
           NEW p \in 0 .. Full, NEW q \in 0 .. Full, LevelsOf(p, q, i, j),
           NEW h \in Int, Sextant(c, h),
           NEW r, NEW g, NEW b, Mixed(p, q, h, r, g, b),
           NEW kept, ShowsParts(kept, r, g, b)
    PROVE  ColourStays(c, kept)
<1>1. p \in Int /\ q \in Int
  BY DEF Full
<1>2. Mixes(p, q, h)
  BY <1>1, HueMixes
<1>3. PICK x \in j .. i, y \in j .. i, z \in j .. i : x = c.r /\ y = c.g /\ z = c.b
  BY DEF Extremes
<1>4. x \in Int /\ y \in Int /\ z \in Int
  OBVIOUS
<1>5. /\ i \in {x, y, z} /\ i \in {x, z, y} /\ i \in {y, x, z} /\ i \in {y, z, x} /\ i \in {z, x, y}
      /\ i \in {z, y, x}
      /\ j \in {x, y, z} /\ j \in {x, z, y} /\ j \in {y, x, z} /\ j \in {y, z, x} /\ j \in {z, x, y}
      /\ j \in {z, y, x}
  BY <1>3 DEF Extremes
<1>6. kept.r = ByteShown(r) /\ kept.g = ByteShown(g) /\ kept.b = ByteShown(b)
  BY DEF ShowsParts
<1>7. CASE h \in 0 .. 60 /\ Order(c.r, c.g, c.b, h)
  <2>1. r = 60 * q /\ g = Blend(p, q, h) /\ b = 60 * p
    BY <1>2, <1>7 DEF Mixes, Mixed
  <2>2. PICK w \in 0 .. 60 : w = h /\ Order(x, y, z, w)
    BY <1>3, <1>7
  <2>3. EndsAre(x, z, i, j)
    BY Zenon, <1>5, <2>2, EndsOfOrder
  <2>4. LevelsOf(p, q, x, z)
    BY Zenon, <2>3 DEF EndsAre, LevelsOf
  <2>5. PartsStay(p, q, w, x, y, z)
    BY ZenonT(60), <1>4, <2>2, <2>4, MixtureStays
  <2>6. Stays(ByteShown(r), x) /\ Stays(ByteShown(g), y) /\ Stays(ByteShown(b), z)
    BY Zenon, <2>1, <2>2, <2>5 DEF PartsStay
  <2> QED BY Zenon, <1>3, <1>6, <2>6 DEF ColourStays
<1>8. CASE h \in 60 .. 120 /\ Order(c.g, c.r, c.b, 120 - h)
  <2>1. g = 60 * q /\ r = Blend(p, q, 120 - h) /\ b = 60 * p
    BY <1>2, <1>8 DEF Mixes, Mixed
  <2>2. PICK w \in 0 .. 60 : w = 120 - h /\ Order(y, x, z, w)
    BY <1>3, <1>8
  <2>3. EndsAre(y, z, i, j)
    BY Zenon, <1>5, <2>2, EndsOfOrder
  <2>4. LevelsOf(p, q, y, z)
    BY Zenon, <2>3 DEF EndsAre, LevelsOf
  <2>5. PartsStay(p, q, w, y, x, z)
    BY ZenonT(60), <1>4, <2>2, <2>4, MixtureStays
  <2>6. Stays(ByteShown(g), y) /\ Stays(ByteShown(r), x) /\ Stays(ByteShown(b), z)
    BY Zenon, <2>1, <2>2, <2>5 DEF PartsStay
  <2> QED BY Zenon, <1>3, <1>6, <2>6 DEF ColourStays
<1>9. CASE h \in 120 .. 180 /\ Order(c.g, c.b, c.r, h - 120)
  <2>1. g = 60 * q /\ b = Blend(p, q, h - 120) /\ r = 60 * p
    BY <1>2, <1>9 DEF Mixes, Mixed
  <2>2. PICK w \in 0 .. 60 : w = h - 120 /\ Order(y, z, x, w)
    BY <1>3, <1>9
  <2>3. EndsAre(y, x, i, j)
    BY Zenon, <1>5, <2>2, EndsOfOrder
  <2>4. LevelsOf(p, q, y, x)
    BY Zenon, <2>3 DEF EndsAre, LevelsOf
  <2>5. PartsStay(p, q, w, y, z, x)
    BY ZenonT(60), <1>4, <2>2, <2>4, MixtureStays
  <2>6. Stays(ByteShown(g), y) /\ Stays(ByteShown(b), z) /\ Stays(ByteShown(r), x)
    BY Zenon, <2>1, <2>2, <2>5 DEF PartsStay
  <2> QED BY Zenon, <1>3, <1>6, <2>6 DEF ColourStays
<1>10. CASE h \in 180 .. 240 /\ Order(c.b, c.g, c.r, 240 - h)
  <2>1. b = 60 * q /\ g = Blend(p, q, 240 - h) /\ r = 60 * p
    BY <1>2, <1>10 DEF Mixes, Mixed
  <2>2. PICK w \in 0 .. 60 : w = 240 - h /\ Order(z, y, x, w)
    BY <1>3, <1>10
  <2>3. EndsAre(z, x, i, j)
    BY Zenon, <1>5, <2>2, EndsOfOrder
  <2>4. LevelsOf(p, q, z, x)
    BY Zenon, <2>3 DEF EndsAre, LevelsOf
  <2>5. PartsStay(p, q, w, z, y, x)
    BY ZenonT(60), <1>4, <2>2, <2>4, MixtureStays
  <2>6. Stays(ByteShown(b), z) /\ Stays(ByteShown(g), y) /\ Stays(ByteShown(r), x)
    BY Zenon, <2>1, <2>2, <2>5 DEF PartsStay
  <2> QED BY Zenon, <1>3, <1>6, <2>6 DEF ColourStays
<1>11. CASE h \in 240 .. 300 /\ Order(c.b, c.r, c.g, h - 240)
  <2>1. b = 60 * q /\ r = Blend(p, q, h - 240) /\ g = 60 * p
    BY <1>2, <1>11 DEF Mixes, Mixed
  <2>2. PICK w \in 0 .. 60 : w = h - 240 /\ Order(z, x, y, w)
    BY <1>3, <1>11
  <2>3. EndsAre(z, y, i, j)
    BY Zenon, <1>5, <2>2, EndsOfOrder
  <2>4. LevelsOf(p, q, z, y)
    BY Zenon, <2>3 DEF EndsAre, LevelsOf
  <2>5. PartsStay(p, q, w, z, x, y)
    BY ZenonT(60), <1>4, <2>2, <2>4, MixtureStays
  <2>6. Stays(ByteShown(b), z) /\ Stays(ByteShown(r), x) /\ Stays(ByteShown(g), y)
    BY Zenon, <2>1, <2>2, <2>5 DEF PartsStay
  <2> QED BY Zenon, <1>3, <1>6, <2>6 DEF ColourStays
<1>12. CASE h \in 300 .. 360 /\ Order(c.r, c.b, c.g, 360 - h)
  <2>1. r = 60 * q /\ b = Blend(p, q, 360 - h) /\ g = 60 * p
    BY <1>2, <1>12 DEF Mixes, Mixed
  <2>2. PICK w \in 0 .. 60 : w = 360 - h /\ Order(x, z, y, w)
    BY <1>3, <1>12
  <2>3. EndsAre(x, y, i, j)
    BY Zenon, <1>5, <2>2, EndsOfOrder
  <2>4. LevelsOf(p, q, x, y)
    BY Zenon, <2>3 DEF EndsAre, LevelsOf
  <2>5. PartsStay(p, q, w, x, z, y)
    BY ZenonT(60), <1>4, <2>2, <2>4, MixtureStays
  <2>6. Stays(ByteShown(r), x) /\ Stays(ByteShown(b), z) /\ Stays(ByteShown(g), y)
    BY Zenon, <2>1, <2>2, <2>5 DEF PartsStay
  <2> QED BY Zenon, <1>3, <1>6, <2>6 DEF ColourStays
<1> QED BY <1>7, <1>8, <1>9, <1>10, <1>11, <1>12 DEF Sextant

\* The light l of a colour is, rounded, half way between its extremes.
HalfWay(l, i, j) == Apart(510 * l, 100 * (i + j), 255)

LEMMA LightnessIsTaken ==
    ASSUME NEW c \in RGB, NEW i \in Int, NEW j \in Int, Extremes(c, i, j)
    PROVE  /\ i \in 0 .. 255 /\ j \in 0 .. 255 /\ j <= i
           /\ rgbToHsl(c).l \in Int /\ HalfWay(rgbToHsl(c).l, i, j)
<1>1. i \in 0 .. 255 /\ j \in 0 .. 255 /\ i = Brightest(c) /\ j = Darkest(c) /\ j <= i
  <2>1. i \in 0 .. 255 /\ j \in 0 .. 255 /\ i = Brightest(c) /\ j = Darkest(c) /\ c.r \in j .. i
    BY DEF Extremes
  <2> QED BY <2>1
<1>2. PICK m \in Int, d \in Nat \ {0} : m = 100 * (i + j) /\ d = 510
  BY <1>1
<1>3. PICK l \in Int : l = Round(m, d)
  BY RoundIsNear
<1>4. 2 * (l * d) <= 2 * m + d /\ 2 * m < 2 * (l * d) + d
  BY <1>3, RoundIsNear
<1>5. l * d = 510 * l
  BY <1>2
<1>8. PICK k \in Int : k = l * d
  BY <1>5
<1>9. 2 * k <= 2 * m + d /\ 2 * m < 2 * k + d /\ k = 510 * l
  BY Zenon, <1>4, <1>5, <1>8
<1>6. Apart(510 * l, 100 * (i + j), 255)
  BY SMTT(60), <1>2, <1>9 DEF Apart
<1>7. rgbToHsl(c).l = l
  BY <1>1, <1>2, <1>3 DEF rgbToHsl
<1> QED BY <1>1, <1>6, <1>7 DEF HalfWay

\* A colour that is hardly saturated is shown as a grey near it.
LEMMA GreyStays ==
    ASSUME NEW c \in RGB, NEW i \in Int, NEW j \in Int, Extremes(c, i, j), i - j <= 1,
           rgbToHsl(c).s = 0
    PROVE  ColourStays(c, hslToRgb(rgbToHsl(c)))
<1>1. PICK hsl : hsl = rgbToHsl(c)
  OBVIOUS
<1>2. hsl \in HSL /\ hsl.s = 0
  BY <1>1, HslOfColour
<1>3. PICK l \in Int : l = hsl.l /\ 0 <= l /\ l <= 100
  BY <1>2 DEF HSL
<1>14. HalfWay(hsl.l, i, j)
  BY Zenon, <1>1, LightnessIsTaken
<1>15. HalfWay(l, i, j)
  BY Zenon, <1>3, <1>14
<1>4. 510 * l - 100 * (i + j) <= 255 /\ 100 * (i + j) - 510 * l <= 255
  BY Zenon, <1>15 DEF Apart, HalfWay
<1>5. PICK n \in Int, d \in Nat \ {0}, top \in Nat : n = 255 * l /\ d = 100 /\ top = 255
  BY <1>3
<1>6. UpTo(n, top, d)
  BY <1>3, <1>5 DEF UpTo
<1>7. IsNear(Byte(Round(n, d)), n, d)
  BY ZenonT(60), <1>5, <1>6, ByteIsNear
<1>8. PICK k : k = Grey(hsl)
  OBVIOUS
<1>9. k = Byte(Round(n, d))
  BY ZenonT(60), <1>3, <1>5, <1>8 DEF Grey
<1>10. k \in 0 .. 255 /\ 2 * (k * d) <= 2 * n + d /\ 2 * n < 2 * (k * d) + d
  BY Zenon, <1>7, <1>9 DEF IsNear
<1>11. k \in Int /\ 200 * k <= 510 * l + 100 /\ 510 * l < 200 * k + 100
  BY <1>3, <1>5, <1>10
<1>12. ASSUME NEW y \in j .. i PROVE Stays(k, y)
  BY <1>4, <1>11 DEF Stays, Apart
<1>13. c.r \in j .. i /\ c.g \in j .. i /\ c.b \in j .. i
  BY DEF Extremes
<1>16. hslToRgb(hsl) = [r |-> k, g |-> k, b |-> k]
  BY <1>2, <1>8 DEF hslToRgb
<1> QED BY <1>1, <1>12, <1>13, <1>16 DEF ColourStays

LEMMA EveryColourStays == ASSUME NEW c \in RGB PROVE ColourStays(c, hslToRgb(rgbToHsl(c)))
<1>1. PICK i, j : Extremes(c, i, j)
  BY Brightness
<1>14. i \in 0 .. 255 /\ j \in 0 .. 255 /\ i = Brightest(c) /\ j = Darkest(c)
  BY <1>1 DEF Extremes
<1>15. i \in Int /\ j \in Int
  BY <1>14
<1>2. i \in 0 .. 255 /\ j \in 0 .. 255 /\ j <= i /\ i = Brightest(c) /\ j = Darkest(c)
  BY ZenonT(60), <1>1, <1>14, <1>15, LightnessIsTaken
<1>3. i \in Int /\ j \in Int /\ i \in Nat /\ j \in Nat /\ i <= 255 /\ i - j <= 255
  BY <1>2
<1>4. PICK hsl : hsl = rgbToHsl(c)
  OBVIOUS
<1>5. hsl \in HSL
  BY <1>4, HslOfColour
<1>11. PICK s, l, h : s = hsl.s /\ l = hsl.l /\ h = hsl.h
  OBVIOUS
<1>12. s \in 0 .. 100 /\ l \in 0 .. 100 /\ h \in 0 .. 360
  BY <1>5, <1>11 DEF HSL
<1>13. s \in Nat /\ l \in Nat /\ h \in Int /\ s <= 100 /\ l <= 100
  BY <1>12
<1>6. /\ s \in Nat /\ l \in Nat /\ h \in Int
      /\ s = hsl.s /\ l = hsl.l /\ h = hsl.h /\ s <= 100 /\ l <= 100 /\ h \in 0 .. 360
  BY Zenon, <1>11, <1>12, <1>13
<1>7. h = Hue(c) /\ s = Saturation(c)
  BY <1>4, <1>6 DEF rgbToHsl
<1>8. CASE i = j
  <2>1. s = 0
    BY <1>2, <1>3, <1>7, <1>8 DEF Saturation
  <2>2. i - j <= 1
    BY <1>3, <1>8
  <2> QED BY Zenon, <1>1, <1>3, <1>4, <1>6, <2>1, <2>2, GreyStays
<1>9. CASE i # j /\ s = 0
  <2>1. Taken(s, l, i, j)
    BY Zenon, <1>1, <1>4, <1>6, <1>9, PartsAreTaken
  <2>2. 200 * (i - j) < IF i + j > 255 THEN 510 - (i + j) ELSE i + j
    <3>1. PICK sum : sum = IF i + j > 255 THEN 510 - (i + j) ELSE i + j
      OBVIOUS
    <3>2. sum \in Int
      BY <1>3, <3>1
    <3>3. 200 * (i - j) < 2 * (s * sum) + sum
      BY ZenonT(60), <2>1, <3>1 DEF Taken
    <3>4. 200 * (i - j) < sum
      BY <1>3, <1>9, <3>2, <3>3
    <3> QED BY Zenon, <3>1, <3>4
  <2>3. i - j <= 1
    BY <1>3, <2>2
  <2> QED BY Zenon, <1>1, <1>3, <1>4, <1>6, <1>9, <2>3, GreyStays
<1>10. CASE i # j /\ s # 0
  <2>1. Taken(s, l, i, j) /\ j < i
    <3>1. Taken(s, l, i, j)
      BY Zenon, <1>1, <1>4, <1>6, <1>10, PartsAreTaken
    <3>2. j < i
      BY <1>2, <1>3, <1>10
    <3> QED BY <3>1, <3>2
  <2>2. PICK p, q : p = Lower(hsl) /\ q = Upper(hsl)
    OBVIOUS
  <2>3. PICK w : w = Distance(l)
    OBVIOUS
  <2>4. PICK z : z = Product(w, s)
    OBVIOUS
  <2>5. z = Depth(hsl)
    BY Zenon, <1>6, <2>3, <2>4 DEF Depth, Distance, Product
  <2>6. LevelOf(100 * l + z, i) /\ LevelOf(100 * l - z, j)
    <3>1. TakenFrom(s, l, i, j)
      BY Zenon, <1>3, <1>6, <2>1 DEF TakenFrom
    <3>2. LevelsAround(l, z, i, j)
      BY Zenon, <2>3, <2>4, <3>1, LevelsOfColour
    <3> QED BY Zenon, <3>2 DEF LevelsAround
  <2>7. hsl.s \in 0 .. 100 /\ hsl.l \in 0 .. 100
    BY <1>5 DEF HSL
  <2>8. q = 100 * l + z /\ p = 100 * l - z /\ q \in 0 .. Full /\ p \in 0 .. Full
    BY ZenonT(60), <1>6, <2>2, <2>5, <2>7, LevelsAre
  <2>9. LevelOf(q, i) /\ LevelOf(p, j)
    BY Zenon, <2>6, <2>8
  <2>10. Mixable(hsl) /\ hsl.s # 0
    BY <1>5, <1>6, <1>10 DEF Mixable, HSL, Turn, Percent
  <2>11. p <= q
    BY Zenon, <2>2, <2>10, LevelsInOrder
  <2>12. PICK r, g, b \in Int :
            /\ Mixed(Lower(hsl), Upper(hsl), hsl.h, r, g, b)
            /\ hslToRgb(hsl) = [r |-> ByteShown(r), g |-> ByteShown(g), b |-> ByteShown(b)]
    BY Zenon, <2>10, ColourIsMixed
  <2>13. Mixed(p, q, h, r, g, b) /\ ShowsParts(hslToRgb(hsl), r, g, b)
    BY Zenon, <1>6, <2>2, <2>12 DEF ShowsParts
  <2>15. LevelsOf(p, q, i, j)
    BY Zenon, <1>3, <2>9, <2>11 DEF LevelsOf
  <2>14. Sextant(c, h)
    BY Zenon, <1>2, <1>7, <1>10, HueIsOfSextant
  <2> QED BY ZenonT(60), <1>1, <1>4, <1>6, <1>15, <2>8, <2>13, <2>14, <2>15, SextantStays
<1> QED BY <1>8, <1>9, <1>10

LEMMA ColoursAreKept == PaletteTyped => ColourIsKept
<1> SUFFICES ASSUME PaletteTyped PROVE ColourIsKept
  OBVIOUS
<1>1. PICK kept : kept = hslToRgb(rgbToHsl(base))
  OBVIOUS
<1>2. base \in RGB
  BY DEF PaletteTyped
<1>3. ColourStays(base, kept)
  BY Zenon, <1>1, <1>2, EveryColourStays
<1>4. ASSUME NEW x \in Int, NEW y \in Int, Apart(x, y, 5) PROVE Magnitude(x - y) <= 5
  BY <1>4 DEF Apart, Magnitude
<1>5. /\ kept.r \in Int /\ base.r \in Int /\ Apart(kept.r, base.r, 5)
      /\ kept.g \in Int /\ base.g \in Int /\ Apart(kept.g, base.g, 5)
      /\ kept.b \in Int /\ base.b \in Int /\ Apart(kept.b, base.b, 5)
  BY <1>2, <1>3 DEF ColourStays, Stays, RGB
<1>6. /\ Magnitude(kept.r - base.r) <= 5 /\ Magnitude(kept.g - base.g) <= 5
      /\ Magnitude(kept.b - base.b) <= 5
  BY Zenon, <1>4, <1>5
<1>7. ASSUME NEW x \in {"r", "g", "b"} PROVE Magnitude(kept[x] - base[x]) <= 5
  BY Zenon, <1>6, <1>7
<1> QED BY Zenon, <1>1, <1>7 DEF ColourIsKept

\* Whatever the base colour, its shades get darker one by one, those of a grey are grey, the middle
\* one has its bytes in the order of the base, and taking a colour apart into hue, saturation and
\* lightness and putting it together again is right to within 5 of 255: color-utils.ts.
THEOREM ColoursStayOfTheirKind == PaletteSpec => []ColoursKeepTheirKind
<1>1. PaletteTyped => ColoursKeepTheirKind
  BY ShadesStayOrdered, ColoursAreKept DEF ColoursKeepTheirKind
<1> QED BY <1>1, PaletteTypedInvariant, PTL

=============================================================================
