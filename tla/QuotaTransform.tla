--------------------------- MODULE QuotaTransform ---------------------------
(***************************************************************************)
(* What the usage dashboard makes of the backend's hourly usage: the       *)
(* answers of the queries it asks, which are not all of the same rows, the *)
(* summary, the trends over time, the analysis by model, the top           *)
(* consumers, and the series that its charts draw.                         *)
(*                                                                         *)
(* Money, the upstream cost with it, is counted in quota; Cents rounds it  *)
(* as the code rounds dollars, but sums are exact here where the code adds *)
(* floats.  Time is counted in hours since Monday 1 January 2024, UTC.     *)
(***************************************************************************)
EXTENDS Integers, Sequences, FiniteSets, FiniteSetsExt, SequencesExt

CONSTANTS
    UsageRecord,    \* the rows that the backend may store
    QuotaPerCent,   \* quota that make a cent: 5000 unless configured otherwise
    TopN,           \* consumers that a ranking shows: 10
    MaxUsage        \* bound on the rows

QuotaAssumption ==
    /\ QuotaPerCent \in Nat \ {0} /\ TopN \in Nat /\ MaxUsage \in Nat
    /\ \A r \in UsageRecord :
           /\ {r.created_at, r.quota, r.count, r.prompt_tokens, r.completion_tokens,
               r.total_use_time, r.error_count} \subseteq Nat
           /\ r.upstream_cost \in Nat \cup {-1}
ASSUME QuotaAssumption

VARIABLES
    quotaData,      \* the rows of quota_data in the query's range, in the order they are read
    role,           \* whom the dashboard is for: an administrator, or a user who sees his own rows
    data,           \* _cachedData: the rows of the model data that were fetched last
    usersData,      \* _cachedUsersData: those of the users' data
    modelRows,      \* history: how many rows the table had when the model data were fetched
    userRows,       \* history: and when the users' data were
    category,       \* the query's modelCategory
    gran            \* the query's granularity

quotaVars == <<quotaData, role, data, usersData, modelRows, userRows, category, gran>>

Granularity == {"hourly", "daily", "weekly", "monthly"}

Category == {"text", "image", "audio", "video", "embedding"}

\* upstream_cost of a record that has none, in quota otherwise.
Undefined == -1

\* What a record has for a text that it does not tell.
Untold == ""

----------------------------------------------------------------------------
(* Arithmetic *)

\* Math.round(a / b) of naturals.
RoundDiv(a, b) == (2 * a + b) \div (2 * b)

Cents(quota) == RoundDiv(quota, QuotaPerCent)

\* What the records at some positions have in all of an amount.
Total(amount, S) == SumFunctionOnSet(amount, S)

QuotaIn(d) == [i \in DOMAIN d |-> d[i].quota]
RequestsIn(d) == [i \in DOMAIN d |-> d[i].count]
\* token_used: the backend adds up the two.
TokensIn(d) == [i \in DOMAIN d |-> d[i].prompt_tokens + d[i].completion_tokens]

----------------------------------------------------------------------------
(* The queries of the backend, of the rows that the table has, and what the dashboard holds of    *)
(* their answers.                                                                                *)

\* A row of a query that adds up rows of the table, and is blank where it selects no column.
SumOfRows(rows, S, username, name, time) ==
    [created_at |-> time, model_name |-> name, model_category |-> Untold,
     username |-> username, channel_id |-> 0, group |-> Untold,
     quota |-> Total([i \in S |-> rows[i].quota], S),
     count |-> Total([i \in S |-> rows[i].count], S),
     prompt_tokens |-> Total([i \in S |-> rows[i].prompt_tokens], S),
     completion_tokens |-> Total([i \in S |-> rows[i].completion_tokens], S),
     total_use_time |-> Total([i \in S |-> rows[i].total_use_time], S),
     error_count |-> Total([i \in S |-> rows[i].error_count], S),
     upstream_cost |-> Undefined]

\* The usage of every model in every hour.
GetAllQuotaDates(rows) ==
    LET key == [i \in DOMAIN rows |-> <<rows[i].model_name, rows[i].created_at>>]
    IN  [k \in {key[i] : i \in DOMAIN rows} |->
            SumOfRows(rows, {i \in DOMAIN rows : key[i] = k}, Untold, k[1], k[2])]

\* The usage of every user in every hour: of no model, which is a name without words.
GetQuotaDataGroupByUser(rows) ==
    LET key == [i \in DOMAIN rows |-> <<rows[i].username, rows[i].created_at>>]
    IN  [k \in {key[i] : i \in DOMAIN rows} |->
            SumOfRows(rows, {i \in DOMAIN rows : key[i] = k}, k[1], {}, k[2])]

\* A user's rows as they are.
GetQuotaDataByUserId(rows) == rows

\* An administrator is answered by model.
ModelData(rows) == IF role = "admin" THEN GetAllQuotaDates(rows) ELSE GetQuotaDataByUserId(rows)

\* The rows that the table had when it had n.
FirstRows(n) == SubSeq(quotaData, 1, n)

Quota == QuotaIn(data)
Requests == RequestsIn(data)
TokensUsed == TokensIn(data)
Prompt == [i \in DOMAIN data |-> data[i].prompt_tokens]
Completion == [i \in DOMAIN data |-> data[i].completion_tokens]
Errors == [i \in DOMAIN data |-> data[i].error_count]
UseTime == [i \in DOMAIN data |-> data[i].total_use_time]
Upstream ==
    [i \in DOMAIN data |->
        IF data[i].upstream_cost = Undefined THEN 0 ELSE data[i].upstream_cost]

----------------------------------------------------------------------------
(* Which records a query keeps.  The name of a model is the set of the words that it contains. *)

Words == << <<"image", {"dall-e", "dalle", "stable-diffusion", "sdxl", "midjourney", "imagen"}>>,
            <<"audio", {"whisper", "tts", "audio"}>>,
            <<"video", {"sora", "video", "gen-2", "runway"}>>,
            <<"embedding", {"embedding", "embed"}>> >>

\* The first category with a word in the name.
inferModelCategory(name) ==
    LET found == {c \in DOMAIN Words : Words[c][2] \cap name # {}}
    IN  IF found = {} THEN "text" ELSE Words[Min(found)][1]

CategoryOf(r) ==
    IF r.model_category # Untold THEN r.model_category ELSE inferModelCategory(r.model_name)

\* filterByModelCategory of applyFilters.
KeptOf(d) == {i \in DOMAIN d : category = "all" \/ CategoryOf(d[i]) = category}

Kept == KeptOf(data)

----------------------------------------------------------------------------
(* Time buckets *)

\* The first days of the months of 2024, counted from its first day.
MonthStart == <<0, 31, 60, 91, 121, 152, 182, 213, 244, 274, 305, 335, 366>>

\* Mutant: a Sunday belongs to the week after it.
MondayAfter(day) == (day + 1) - ((day + 1) % 7)

\* Monday of the week: getUTCDay() is 0 on a Sunday.
Monday(day) ==
    LET weekday == (day + 1) % 7
    IN  day + (IF weekday = 0 THEN -6 ELSE 1) - weekday

timestampToDateKey(time, g) ==
    LET day == time \div 24
    IN  CASE g = "hourly" -> time
          [] g = "daily" -> day
          [] g = "weekly" -> Monday(day)
          [] g = "monthly" -> Max({m \in 1 .. 12 : MonthStart[m] <= day})

\* The numbers of a set in order: below the k-th there are k - 1.
Ascending(S) ==
    [k \in 1 .. Cardinality(S) |-> CHOOSE x \in S : Cardinality({y \in S : y < x}) = k - 1]

\* The buckets in order of time: a sequence of keys, each with the positions of its records.
aggregateByTime(g) ==
    LET key == [i \in Kept |-> timestampToDateKey(data[i].created_at, g)]
        keys == Ascending({key[i] : i \in Kept})
    IN  [b \in DOMAIN keys |->
            [dateKey |-> keys[b], records |-> {i \in Kept : key[i] = keys[b]}]]

----------------------------------------------------------------------------
(* Summary *)

\* Only the current period: the callers pass no previous data.
computeSummary ==
    LET all == Kept
        quota == Total(Quota, all)
        requests == Total(Requests, all)
        upstream == Cents(Total(Upstream, all))
        priced == \E i \in all : data[i].upstream_cost # Undefined
    IN  [totalRequests |-> requests,
         totalTokens |-> Total(TokensUsed, all),
         totalCost |-> Cents(quota),
         avgLatency |-> IF requests > 0 THEN RoundDiv(Total(UseTime, all), requests) ELSE 0,
         successRate |-> IF requests = 0 THEN 10000
                         ELSE RoundDiv((requests - Total(Errors, all)) * 10000, requests),
         activeModels |-> Cardinality({data[i].model_name : i \in all}),
         upstreamCost |-> IF priced THEN upstream ELSE Undefined]

----------------------------------------------------------------------------
(* Trends *)

\* The share of a record's cost that its prompt tokens bear, in halves of quota per token so that
\* a record without tokens is split evenly: <<input, output, of>>.
CostSplit(i) ==
    IF TokensUsed[i] > 0 THEN <<Prompt[i], Completion[i], TokensUsed[i]>> ELSE <<1, 1, 2>>

\* Quota of a set of records that went to their prompts, rounded down record by record.
InputQuota(S) ==
    Total([i \in S |-> (Quota[i] * CostSplit(i)[1]) \div CostSplit(i)[3]], S)

\* A bucket shows its upstream cost when a record of it or of an earlier one has any: the flag is
\* not reset between buckets.
CostPoint(buckets, b) ==
    LET records == buckets[b].records
        OfModel(m) == {i \in records : data[i].model_name = m}
    IN  [date |-> buckets[b].dateKey,
         totalCost |-> Cents(Total(Quota, records)),
         byModel |-> [m \in {data[i].model_name : i \in records} |-> Cents(Total(Quota, OfModel(m)))],
         inputCost |-> Cents(InputQuota(records)),
         upstreamCost |-> IF \E c \in 1 .. b : \E i \in buckets[c].records :
                                data[i].upstream_cost # Undefined
                          THEN Cents(Total(Upstream, records)) ELSE Undefined]

\* dailyAvg and projectedMonthly divide by the number of buckets, whatever their length.
computeCostTrend(g) ==
    LET buckets == aggregateByTime(g)
        series == [b \in DOMAIN buckets |-> CostPoint(buckets, b)]
        total == SumFunction([b \in DOMAIN series |-> series[b].totalCost])
        numBuckets == IF series = <<>> THEN 1 ELSE Len(series)
    IN  [series |-> series,
         total |-> total,
         dailyAvg |-> RoundDiv(total, numBuckets),
         projectedMonthly |-> RoundDiv(total * 30, numBuckets),
         models |-> {data[i].model_name : i \in Kept},
         totalUpstreamCost |->
             IF \E b \in DOMAIN buckets : \E i \in buckets[b].records :
                    data[i].upstream_cost # Undefined
             THEN Cents(SumFunction([b \in DOMAIN buckets |-> Total(Upstream, buckets[b].records)]))
             ELSE Undefined]

computeTokenTrend(g) ==
    LET buckets == aggregateByTime(g)
        series == [b \in DOMAIN buckets |->
                      [date |-> buckets[b].dateKey,
                       inputTokens |-> Total(Prompt, buckets[b].records),
                       outputTokens |-> Total(Completion, buckets[b].records),
                       requests |-> Total(Requests, buckets[b].records)]]
        input == SumFunction([b \in DOMAIN series |-> series[b].inputTokens])
        output == SumFunction([b \in DOMAIN series |-> series[b].outputTokens])
    IN  [series |-> series,
         total |-> input + output,
         dailyAvg |-> IF series = <<>> THEN 0 ELSE RoundDiv(input + output, Len(series)),
         peak |-> Max({0} \cup {series[b].inputTokens + series[b].outputTokens : b \in DOMAIN series})]

----------------------------------------------------------------------------
(* Models and consumers *)

ModelStats(m) ==
    LET records == {i \in Kept : data[i].model_name = m}
        requests == Total(Requests, records)
        quota == Total(Quota, records)
        all == Total(Quota, Kept)
    IN  [modelId |-> m,
         requests |-> requests,
         tokens |-> Total(TokensUsed, records),
         cost |-> Cents(quota),
         costShare |-> IF all > 0 THEN RoundDiv(quota * 10000, all) ELSE 0,
         successRate |-> IF requests = 0 THEN 10000
                         ELSE RoundDiv((requests - Total(Errors, records)) * 10000, requests),
         channelIds |-> {data[i].channel_id : i \in records},
         category |-> LET told == {i \in records : data[i].model_category # Untold}
                      IN  IF told = {} THEN inferModelCategory(m)
                          ELSE data[Max(told)].model_category]

\* The models, and the cost of each in every bucket.
computeModelAnalysis(g) ==
    LET buckets == aggregateByTime(g)
        models == {data[i].model_name : i \in Kept}
    IN  [models |-> {ModelStats(m) : m \in models},
         trends |-> [m \in models |-> [b \in DOMAIN buckets |->
             Cents(Total(Quota, {i \in buckets[b].records : data[i].model_name = m}))]]]

\* A user without a name goes by the id; API keys and projects are users.
ConsumerKey(r, type) ==
    CASE type = "channel" -> r.channel_id
      [] type = "group" -> r.group
      [] OTHER -> r.username

\* The consumers that some records tell of.
Consumers(d, type) ==
    LET keys == {ConsumerKey(d[i], type) : i \in KeptOf(d)}
        Of(k) == {i \in KeptOf(d) : ConsumerKey(d[i], type) = k}
        cost == [k \in keys |-> Cents(Total(QuotaIn(d), Of(k)))]
        all == SumFunction(cost)
    IN  [k \in keys |->
            [requests |-> Total(RequestsIn(d), Of(k)),
             tokens |-> Total(TokensIn(d), Of(k)),
             cost |-> cost[k],
             share |-> IF all > 0 THEN RoundDiv(cost[k] * 10000, all) ELSE 0]]

\* What a consumer is sorted by: by its cost when that should be its latency.
SortValue(consumer, sortBy) ==
    CASE sortBy = "tokens" -> consumer.tokens
      [] sortBy = "requests" -> consumer.requests
      [] OTHER -> consumer.cost

\* The first topN consumers in descending order; which ones, where they tie, is the order of the
\* rows: a set of functions on consumers.
computeTopConsumers(d, type, sortBy) ==
    LET all == Consumers(d, type)
        Cut(top) == /\ Cardinality(top) = Min({TopN, Cardinality(DOMAIN all)})
                    /\ \A k \in top, l \in DOMAIN all \ top :
                           SortValue(all[k], sortBy) >= SortValue(all[l], sortBy)
    IN  {[k \in top |-> all[k]] : top \in {t \in SUBSET DOMAIN all : Cut(t)}}

\* getTopConsumers ranks an administrator's users by an answer of their own.
ConsumersSource(type) == IF type = "user" /\ role = "admin" THEN usersData ELSE data

----------------------------------------------------------------------------
(* What the charts draw. *)

\* One line per model, 0 where a bucket has none of it.
useCostTrendOptions(trend) ==
    [m \in trend.models |-> [b \in DOMAIN trend.series |->
        IF m \in DOMAIN trend.series[b].byModel THEN trend.series[b].byModel[m] ELSE 0]]

\* The second axis: DashboardPage always asks for it, and it is drawn when some bucket has a cost.
UpstreamLine(trend) ==
    IF \E b \in DOMAIN trend.series : trend.series[b].upstreamCost > 0
    THEN [b \in DOMAIN trend.series |-> Max({0, trend.series[b].upstreamCost})]
    ELSE <<>>

\* The total that the tooltip of a bucket shows is that of the lines.
CostTooltip(trend, b) == SumFunction([m \in trend.models |-> useCostTrendOptions(trend)[m][b]])

\* Two stacked bars per bucket.
useTokenTrendOptions(trend) ==
    [b \in DOMAIN trend.series |-> <<trend.series[b].inputTokens, trend.series[b].outputTokens>>]

\* ModelPieChart keeps the models of the category it is told to show.
PieKeeps(analysis) ==
    {s \in analysis.models : category = "all" \/ s.category = category}

useModelPieOptions(analysis, dimension) ==
    [m \in {s.modelId : s \in analysis.models} |->
        LET s == CHOOSE x \in analysis.models : x.modelId = m
        IN  CASE dimension = "cost" -> s.cost
              [] dimension = "requests" -> s.requests
              [] dimension = "tokens" -> s.tokens]

\* The cost that fewer than b models exceed and b or more have or exceed.
CostOfBar(models, b) ==
    CHOOSE c \in {s.cost : s \in models} :
        /\ Cardinality({s \in models : s.cost > c}) < b
        /\ Cardinality({s \in models : s.cost >= c}) >= b

\* The bars from the dearest model to the cheapest.
useModelBarOptions(analysis) ==
    [b \in 1 .. Cardinality(analysis.models) |-> CostOfBar(analysis.models, b)]

useTopConsumersOptions(consumers, sortBy) ==
    [k \in DOMAIN consumers |-> SortValue(consumers[k], sortBy)]

----------------------------------------------------------------------------

QuotaInit ==
    /\ quotaData = <<>> /\ data = <<>> /\ usersData = <<>> /\ modelRows = 0 /\ userRows = 0
    /\ role \in {"admin", "user"} /\ category \in Category \cup {"all"} /\ gran \in Granularity

\* The backend saves some usage: what it adds to a row counts here as one more row.
StoreUsage ==
    /\ Len(quotaData) < MaxUsage
    /\ \E r \in UsageRecord : quotaData' = Append(quotaData, r)
    /\ UNCHANGED <<role, data, usersData, modelRows, userRows, category, gran>>

\* The model data, of the table as it is: within 30 s of that no other call fetches them.
fetchModelData ==
    /\ data' = ModelData(quotaData)
    /\ modelRows' = Len(quotaData)
    /\ UNCHANGED <<quotaData, role, usersData, userRows, category, gran>>

\* The users' data, at every ranking of users.
fetchUsersData ==
    /\ role = "admin"
    /\ usersData' = GetQuotaDataGroupByUser(quotaData)
    /\ userRows' = Len(quotaData)
    /\ UNCHANGED <<quotaData, role, data, modelRows, category, gran>>

QuotaNext == StoreUsage \/ fetchModelData \/ fetchUsersData

QuotaSpec == QuotaInit /\ [][QuotaNext]_quotaVars

----------------------------------------------------------------------------

QuotaTypeOK ==
    /\ quotaData \in Seq(UsageRecord) /\ Len(quotaData) <= MaxUsage
    /\ modelRows \in 0 .. Len(quotaData) /\ data = ModelData(FirstRows(modelRows))
    /\ userRows \in 0 .. Len(quotaData) /\ usersData = GetQuotaDataGroupByUser(FirstRows(userRows))
    /\ role \in {"admin", "user"}
    /\ category \in Category \cup {"all"} /\ gran \in Granularity

\* Two amounts in cents, each a sum of rounded ones, of which there are n in all.
Near(a, b, n) == 2 * (IF a > b THEN a - b ELSE b - a) <= n

\* A bucket's records fall into the time that its key stands for, and no record is left out.
BucketsHold ==
    LET buckets == aggregateByTime(gran)
    IN  /\ UNION {buckets[b].records : b \in DOMAIN buckets} = Kept
        /\ gran = "weekly" =>
               \A b \in DOMAIN buckets : \A i \in buckets[b].records :
                   (data[i].created_at \div 24) - buckets[b].dateKey \in 0 .. 6

\* A ranking tells of the usage in the summary: what it shows of it is no more than all consumers
\* have used, and is all of it unless there are more of them than it shows.  All of them have used
\* what the summary has, costs but for rounding, but for an administrator's users: they are ranked
\* by rows of another query, at another time, that have no model.  A category of models drops none
\* of these if it is "text", and all of them otherwise.
RankingAgrees(summary, type) ==
    \A source \in {ConsumersSource(type)} : \A all \in {Consumers(source, type)} :
    LET used == SumFunction(useTopConsumersOptions(all, "tokens"))
        paid == SumFunction(useTopConsumersOptions(all, "cost"))
        ofUsers == type = "user" /\ role = "admin"
    IN  /\ \A sortBy \in {"cost", "tokens", "requests", "latency"} :
               \A ranking \in computeTopConsumers(source, type, sortBy) :
                   LET shown == SumFunction(useTopConsumersOptions(ranking, "tokens"))
                   IN  shown <= used /\ (Cardinality(DOMAIN all) <= TopN => shown = used)
        /\ ~ofUsers \/ (category = "all" /\ userRows = modelRows) =>
               /\ used = summary.totalTokens
               /\ Near(paid, summary.totalCost, Cardinality(DOMAIN all) + 1)
        /\ ofUsers /\ category \in {"all", "text"} /\ userRows >= modelRows =>
               used >= summary.totalTokens
        /\ ofUsers /\ category \notin {"all", "text"} => DOMAIN all = {}

\* The cards, the charts and the ranking tell of the same usage: whatever the granularity, the
\* category and the dimension, they add up to the summary, costs and upstream costs but for what
\* rounding every bucket to cents may lose, and the pie drops no model that the query kept.
TrendsAgree ==
    \A summary \in {computeSummary}, cost \in {computeCostTrend(gran)},
       tokens \in {computeTokenTrend(gran)}, analysis \in {computeModelAnalysis(gran)} :
    LET lines == useCostTrendOptions(cost)
        bars == useTokenTrendOptions(tokens)
        n == Len(cost.series)
    IN  /\ BucketsHold
        /\ Near(cost.total, summary.totalCost, n + 1)
        /\ \A b \in 1 .. n :
               Near(CostTooltip(cost, b), cost.series[b].totalCost, Cardinality(cost.models) + 1)
        /\ \A m \in cost.models : lines[m] = analysis.trends[m]
        /\ SumFunction([b \in DOMAIN bars |-> bars[b][1] + bars[b][2]]) = summary.totalTokens
        /\ PieKeeps(analysis) = analysis.models
        /\ SumFunction(useModelPieOptions(analysis, "requests")) = summary.totalRequests
        /\ Len(useModelBarOptions(analysis)) = summary.activeModels
        /\ cost.totalUpstreamCost = summary.upstreamCost
        /\ Near(SumFunction(UpstreamLine(cost)), Max({0, summary.upstreamCost}), n + 1)
        /\ \A type \in {"user", "channel", "group"} : RankingAgrees(summary, type)

=============================================================================
