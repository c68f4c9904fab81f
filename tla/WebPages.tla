------------------------------ MODULE WebPages ------------------------------
(***************************************************************************)
(* Pages of the web UI with logic of their own: topping up, rate limits,   *)
(* the health of channels, providers, home and about, and the dashboard.   *)
(***************************************************************************)
EXTENDS Integers, FiniteSets, FiniteSetsExt, Functions

CONSTANTS
    Page,           \* the pages that may be mounted
    Code,           \* redemption codes
    UserGroup,      \* groups with rate limits; "default" has one of its own
    Content,        \* texts of the home page, or of the page about it
    Conn,           \* the backend's channels: sets of [id, type, status, models, used]
    ItemsPerPage,   \* how many of them the backend lists at a time
    Sample,         \* what the backend may tell of a channel's health
    DayUsage,       \* what the backend may answer to the dashboard: sets of items
    FirstDay, LastDay,  \* days are numbered; what passes is between these
    RANGE_OPTIONS,  \* in days
    MaxCalls        \* bound on the requests

PagesAssumption ==
    /\ Page \subseteq {"topup", "limits", "health", "providers", "home", "about", "dashboard"}
    /\ FirstDay \in Nat /\ LastDay \in Nat /\ FirstDay <= LastDay
    /\ RANGE_OPTIONS \subseteq 1 .. FirstDay
    /\ MaxCalls \in Nat \ {0} /\ ItemsPerPage \in Nat
    /\ \A all \in Conn : IsFiniteSet(all) /\ \A c \in all : c.used \in Nat
    \* With fewer than 5 requests the backend scores 100.
    /\ Sample # {} /\ \A s \in Sample : s.requests < 5 => s.score = 100
    \* The backend answers one item per day and model.
    /\ \A items \in DayUsage : IsFiniteSet(items) /\ \A x, y \in items :
           /\ x.day \in Nat /\ {x.requests, x.tokens} \subseteq Nat
           /\ (x.day = y.day /\ x.model = y.model) => x = y
ASSUME PagesAssumption

VARIABLES
    page,
    calls,          \* requests under way
    called,         \* how many were sent
    busy,           \* loading, isSubmitting, saving; not yet homePageContentLoaded, aboutLoaded
    crossed,        \* history: requests overlapped, or one failed, so that the page may be behind
    redemptionCode, userQuota,
    serverQuota, unused, spent,    \* history in spent: what others used up since it was asked for
    groups, limits, storedLimits,  \* localStorage 'group_rate_limits': none, or what was saved
    serverLimits,   \* the backend's option of the same: none, or what it was last given
    diverged,       \* history: the last save began during another, was refused or was lost
    serverHealth, health, healthPoll,
    newestPoll,     \* history: the newest poll that was answered
    conns, providers, activeProvider,
    serverContent, content, storedContent,
    usage, rangeDays,
    today, summaryData,
    cardDay, chartDay,             \* the days that the cards and the charts took for today
    missed                         \* the charts that have left it out

callVars == <<calls, called>>
topUpVars == <<redemptionCode, userQuota, serverQuota, unused, spent>>
limitVars == <<groups, limits, storedLimits, serverLimits, diverged>>
healthVars == <<serverHealth, health, healthPoll, newestPoll>>
providerVars == <<conns, providers, activeProvider>>
contentVars == <<serverContent, content, storedContent>>
usageVars == <<usage, rangeDays, today, summaryData, cardDay, chartDay, missed>>
pagesVars == <<page, callVars, busy, crossed, topUpVars, limitVars, healthVars, providerVars,
               contentVars, usageVars>>

Refusal == [kind |-> "refused"]

\* Sends a request, unless its bound is reached.
Ask(op, arg) ==
    /\ called < MaxCalls /\ called' = called + 1
    /\ calls' = calls \cup {[n |-> called + 1, op |-> op, arg |-> arg, answer |-> [kind |-> "none"]]}

Ends(c) == calls' = calls \ {c} /\ UNCHANGED called

----------------------------------------------------------------------------
(* Topping up *)

CodeValue == 2

TypeCode ==
    /\ page = "topup"
    /\ redemptionCode' \in Code \ {redemptionCode}
    /\ UNCHANGED <<page, callVars, busy, crossed, userQuota, serverQuota, unused, spent, limitVars,
                   healthVars, providerVars, contentVars, usageVars>>

topUp ==
    /\ page = "topup" /\ ~busy /\ redemptionCode # ""
    /\ busy' = TRUE
    /\ Ask("topup", redemptionCode)
    /\ crossed' = (crossed \/ calls # {})
    /\ UNCHANGED <<page, topUpVars, limitVars, healthVars, providerVars, contentVars, usageVars>>

\* Mutant: the quota of the code replaces the one shown.
ToppedUpReplaces(c) ==
    /\ c.op = "topup"
    /\ IF c.answer.kind = "ok"
       THEN userQuota' = CodeValue /\ redemptionCode' = ""
       ELSE UNCHANGED <<userQuota, redemptionCode>>
    /\ busy' = FALSE
    /\ Ends(c)
    /\ UNCHANGED <<page, crossed, serverQuota, unused, spent, limitVars, healthVars, providerVars,
                   contentVars, usageVars>>

\* The code is blanked though another may have been typed meanwhile.
ToppedUp(c) ==
    /\ c.op = "topup"
    /\ IF c.answer.kind = "ok"
       THEN userQuota' = userQuota + CodeValue /\ redemptionCode' = ""
       ELSE UNCHANGED <<userQuota, redemptionCode>>
    /\ busy' = FALSE
    /\ Ends(c)
    /\ UNCHANGED <<page, crossed, serverQuota, unused, spent, limitVars, healthVars, providerVars,
                   contentVars, usageVars>>

getUserQuota(c) ==
    /\ c.op = "self"
    /\ userQuota' = IF c.answer.kind = "ok" THEN c.answer.data ELSE userQuota
    /\ crossed' = (crossed \/ c.answer.kind # "ok")
    /\ Ends(c)
    /\ UNCHANGED <<page, busy, redemptionCode, serverQuota, unused, spent, limitVars, healthVars,
                   providerVars, contentVars, usageVars>>

----------------------------------------------------------------------------
(* Rate limits: requests per minute by group, 0 for unlimited; tokens go the same way. *)

DEFAULT_LIMITS == [g \in {"default"} |-> 50]

\* The limits stored replace the defaults once groups and options were answered.
LimitsLoad(c) ==
    /\ c.op \in {"groups", "options"}
    /\ groups' = IF c.op = "groups" /\ c.answer.kind = "ok" THEN UserGroup ELSE groups
    /\ \/ /\ c.op = "groups"
          /\ called < MaxCalls /\ called' = called + 1
          /\ calls' = (calls \ {c}) \cup {[c EXCEPT !.n = called + 1, !.op = "options",
                                                    !.answer = [kind |-> "none"]]}
          /\ UNCHANGED <<limits, busy>>
       \/ /\ c.op = "options"
          /\ limits' = IF storedLimits # <<>> THEN storedLimits[1] ELSE DEFAULT_LIMITS
          /\ busy' = FALSE
          /\ Ends(c)
    /\ UNCHANGED <<page, crossed, storedLimits, serverLimits, diverged, topUpVars, healthVars,
                   providerVars, contentVars, usageVars>>

\* The card of a group without limits shows it unlimited.
LimitOf(g) == IF g \in DOMAIN limits THEN limits[g] ELSE 0

handleLimitChange ==
    /\ page = "limits" /\ ~busy
    /\ \E g \in groups : \E rpm \in {0, 10} \ {LimitOf(g)} :
           limits' = [h \in DOMAIN limits \cup {g} |-> IF h = g THEN rpm ELSE limits[h]]
    /\ UNCHANGED <<page, callVars, busy, crossed, groups, storedLimits, serverLimits, diverged,
                   topUpVars, healthVars, providerVars, contentVars, usageVars>>

resetToDefault ==
    /\ page = "limits" /\ ~busy
    /\ limits' = DEFAULT_LIMITS
    /\ UNCHANGED <<page, callVars, busy, crossed, groups, storedLimits, serverLimits, diverged,
                   topUpVars, healthVars, providerVars, contentVars, usageVars>>

Saves == {c \in calls : c.op = "save"}

\* Stored first, whatever the server then says of it; it is never read back from there.  The button
\* is not disabled by a save under way.
saveLimits ==
    /\ page = "limits" /\ ~busy
    /\ storedLimits' = <<limits>>
    /\ Ask("save", limits)
    /\ diverged' = (Saves # {})
    /\ UNCHANGED <<page, busy, crossed, groups, limits, serverLimits, topUpVars, healthVars,
                   providerVars, contentVars, usageVars>>

LimitsSaved(c) ==
    /\ c.op = "save"
    /\ Ends(c)
    /\ diverged' = (diverged \/ c.answer.kind # "ok")
    /\ UNCHANGED <<page, busy, crossed, groups, limits, storedLimits, serverLimits, topUpVars,
                   healthVars, providerVars, contentVars, usageVars>>

----------------------------------------------------------------------------
(* Health of channels: a channel as a sample of its state. *)

\* By the timer or by the button, whatever is under way.
Poll ==
    /\ page = "health"
    /\ Ask("health", 0)
    /\ crossed' = (crossed \/ calls # {})
    /\ UNCHANGED <<page, busy, topUpVars, limitVars, healthVars, providerVars, contentVars, usageVars>>

fetchHealth(c) ==
    /\ c.op = "health"
    /\ IF c.answer.kind = "ok"
       THEN /\ health' = c.answer.data /\ healthPoll' = c.n
            /\ newestPoll' = Max({newestPoll, c.n})
       ELSE UNCHANGED <<health, healthPoll, newestPoll>>
    /\ busy' = FALSE
    /\ Ends(c)
    /\ UNCHANGED <<page, crossed, serverHealth, topUpVars, limitVars, providerVars, contentVars,
                   usageVars>>

\* The multiplier of its weight that the table shows, in thousandths.
ShownMultiplier(s) ==
    CASE s.state = "open" -> 0
      [] s.state = "half_open" -> 50
      [] OTHER -> 100 + 9 * s.score

\* The chart leaves out channels without requests, the table does not.
Charted(s) == s.requests > 0

\* The backend's, in monitor/health.go.
GetHealthMultiplier(s) ==
    CASE s.state = "open" -> 0
      [] s.state = "half_open" -> 50
      [] s.requests < 5 -> 1000
      [] OTHER -> 100 + 9 * s.score

----------------------------------------------------------------------------
(* Providers *)

\* A list of models may hold blanks: "".
Grouped(all, NameOf(_), TypeName(_), models(_)) ==
    [p \in {NameOf(c) : c \in all} |->
        LET mine == {c \in all : NameOf(c) = p}
        IN  [channels |-> {[id |-> c.id, type_name |-> TypeName(c)] : c \in mine},
             all_models |-> UNION {models(c) : c \in mine},
             enabled |-> \E c \in mine : c.status = 1,
             total_used_quota |-> SumFunctionOnSet([c \in mine |-> c.used], mine)]]

\* A name is written as a sequence, since that of a type that the map does not know is made up.
NameOfType(map, type, other) == IF type \in DOMAIN map THEN <<map[type]>> ELSE other

\* The page's own map knows fewer types than the backend's.
typeNameMap == [type \in {1, 17, 49} |-> IF type = 1 THEN "OpenAI" ELSE "Qwen"]
ProviderTypeMap == [type \in {1, 3, 17, 49} |-> IF type = 3 THEN "Azure" ELSE typeNameMap[type]]

PageName(c) == NameOfType(typeNameMap, c.type, <<"Type", c.type>>)
BackendName(c) == NameOfType(ProviderTypeMap, c.type, <<"other">>)

groupChannelsByType(all) == Grouped(all, PageName, PageName, LAMBDA c : c.models)

\* The backend names the two types of its own channels apart.
BackendTypeName(c) ==
    CASE c.type = 17 -> <<"DashScope">>
      [] c.type = 49 -> <<"Bailian">>
      [] OTHER -> BackendName(c)

\* The backend's, in controller/provider.go: it skips blanks.
GetProviders(all) == Grouped(all, BackendName, BackendTypeName, LAMBDA c : c.models \ {""})

fetchProviders(c) ==
    /\ c.op \in {"providers", "channels"}
    /\ IF c.answer.kind = "ok" THEN providers' = <<c.answer.data>> ELSE UNCHANGED providers
    /\ busy' = FALSE
    /\ Ends(c)
    /\ UNCHANGED <<page, crossed, conns, activeProvider, topUpVars, limitVars, healthVars,
                   contentVars, usageVars>>

\* A click closes the provider that is open, or opens another.
handleAccordionClick ==
    /\ page = "providers" /\ providers # <<>>
    /\ \E p \in DOMAIN providers[1] : activeProvider' = IF activeProvider = <<p>> THEN <<>> ELSE <<p>>
    /\ UNCHANGED <<page, callVars, busy, crossed, conns, providers, topUpVars, limitVars, healthVars,
                   contentVars, usageVars>>

----------------------------------------------------------------------------
(* Home and about *)

\* A blank answer leaves what was cached on the home page.
displayHomePageContent(c) ==
    /\ c.op = "home"
    /\ IF c.answer.kind = "ok" /\ c.answer.data # ""
       THEN content' = c.answer.data /\ storedContent' = c.answer.data
       ELSE UNCHANGED <<content, storedContent>>
    /\ busy' = FALSE
    /\ Ends(c)
    /\ UNCHANGED <<page, crossed, serverContent, topUpVars, limitVars, healthVars, providerVars,
                   usageVars>>

displayAbout(c) ==
    /\ c.op = "about"
    /\ content' = IF c.answer.kind = "ok" THEN c.answer.data ELSE ""
    /\ storedContent' = IF c.answer.kind = "ok" THEN c.answer.data ELSE storedContent
    /\ busy' = FALSE
    /\ Ends(c)
    /\ UNCHANGED <<page, crossed, serverContent, topUpVars, limitVars, healthVars, providerVars,
                   usageVars>>

----------------------------------------------------------------------------
(* The dashboard *)

RequestsOf(items) == SumFunctionOnSet([x \in items |-> x.requests], items)
TokensOf(items) == SumFunctionOnSet([x \in items |-> x.tokens], items)

calculateSummary(items, day) ==
    LET todays == {x \in items : x.day = day}
    IN  [todayRequests |-> RequestsOf(todays), todayTokens |-> TokensOf(todays),
         totalRequests |-> RequestsOf(items), totalTokens |-> TokensOf(items)]

\* The charts are computed anew, of the days up to today.  Each counts from one reading of the clock
\* up to an earlier one: its last day is left out if the clock moved on in between.
Renders ==
    /\ chartDay' = today
    /\ missed' \in SUBSET {"lines", "bars"}

\* The cards keep the day of the answer.
ShowUsage(items) ==
    /\ usage' = items
    /\ summaryData' = calculateSummary(items, today)
    /\ cardDay' = today
    /\ Renders

fetchDashboardData(c) ==
    /\ c.op = "dashboard"
    /\ \/ c.answer.kind = "ok" /\ ShowUsage(c.answer.data)
       \/ c.answer.kind # "ok" /\ UNCHANGED <<usage, summaryData, cardDay, chartDay, missed>>
    /\ Ends(c)
    /\ UNCHANGED <<page, busy, crossed, rangeDays, today, topUpVars, limitVars, healthVars,
                   providerVars, contentVars>>

setRangeDays ==
    /\ page = "dashboard"
    /\ rangeDays' \in RANGE_OPTIONS \ {rangeDays}
    /\ Renders
    /\ UNCHANGED <<page, callVars, busy, crossed, usage, today, summaryData, cardDay, topUpVars,
                   limitVars, healthVars, providerVars, contentVars>>

\* The language is changed: the page is drawn again, and nothing else.
LanguageChanges ==
    /\ page = "dashboard"
    /\ Renders
    /\ UNCHANGED <<page, callVars, busy, crossed, usage, rangeDays, today, summaryData, cardDay,
                   topUpVars, limitVars, healthVars, providerVars, contentVars>>

Midnight ==
    /\ page = "dashboard" /\ today < LastDay
    /\ today' = today + 1
    /\ UNCHANGED <<page, callVars, busy, crossed, usage, rangeDays, summaryData, cardDay, chartDay,
                   missed, topUpVars, limitVars, healthVars, providerVars, contentVars>>

\* One day more than the range.
getFilteredData == {x \in usage : x.day >= chartDay - rangeDays}

Days(chart) ==
    chartDay - (rangeDays - 1) .. (IF chart \in missed THEN chartDay - 1 ELSE chartDay)

\* Items of days out of the range are dropped.
processTimeSeriesData ==
    [d \in Days("lines") |->
        LET items == {x \in getFilteredData : x.day = d}
        IN  [requests |-> RequestsOf(items), tokens |-> TokensOf(items)]]

processModelPieData ==
    [m \in {x.model : x \in getFilteredData} |->
        RequestsOf({x \in getFilteredData : x.model = m})]

\* An item takes its bar, it does not add to it.
BarOf(items) == IF items = {} THEN 0 ELSE (CHOOSE x \in items : TRUE).tokens

processModelBarData ==
    [d \in Days("bars") |-> [m \in {x.model : x \in getFilteredData} |->
        BarOf({x \in getFilteredData : x.day = d /\ x.model = m})]]

----------------------------------------------------------------------------
(* The backend, and the ends of requests. *)

\* The fallback lists a page of the channels only.
FirstPages ==
    IF Cardinality(conns) <= ItemsPerPage THEN {conns}
    ELSE {some \in SUBSET conns : Cardinality(some) = ItemsPerPage}

\* What the backend may answer as it handles a request.
PageAnswers(c) ==
    CASE c.op = "self" -> {serverQuota}
      [] c.op = "health" -> {serverHealth}
      [] c.op = "providers" -> {GetProviders(conns)}
      [] c.op = "channels" -> {groupChannelsByType(some) : some \in FirstPages}
      [] c.op \in {"home", "about"} -> {serverContent}
      [] c.op = "dashboard" -> {items \in DayUsage : \A x \in items : x.day <= today}
      [] OTHER -> {0}

ServerAnswersPage(c) ==
    /\ c.answer.kind = "none"
    /\ \E data \in PageAnswers(c), ok \in BOOLEAN :
        /\ ok /\ c.op = "topup" => c.arg \in unused
        /\ calls' = (calls \ {c}) \cup
               {[c EXCEPT !.answer = IF ok THEN [kind |-> "ok", data |-> data] ELSE Refusal]}
        /\ IF ok /\ c.op = "topup"
           THEN serverQuota' = serverQuota + CodeValue /\ unused' = unused \ {c.arg}
           ELSE UNCHANGED <<serverQuota, unused>>
        /\ serverLimits' = IF ok /\ c.op = "save" THEN <<c.arg>> ELSE serverLimits
    /\ spent' = IF c.op = "self" THEN 0 ELSE spent
    /\ UNCHANGED <<page, called, busy, crossed, redemptionCode, userQuota, groups, limits,
                   storedLimits, diverged, healthVars, providerVars, contentVars, usageVars>>

PageReturns(c) ==
    /\ c.answer.kind # "none"
    /\ \/ ToppedUp(c) \/ getUserQuota(c) \/ LimitsLoad(c) \/ LimitsSaved(c) \/ fetchHealth(c)
       \/ fetchProviders(c) \/ displayHomePageContent(c) \/ displayAbout(c) \/ fetchDashboardData(c)

\* The backend's state changes by others' doing.
WorldMoves ==
    /\ \/ /\ page = "topup" /\ serverQuota > 0
          /\ serverQuota' = serverQuota - 1 /\ spent' = spent + 1
          /\ UNCHANGED <<serverHealth, serverContent>>
       \/ /\ page = "health" /\ serverHealth' \in Sample \ {serverHealth}
          /\ UNCHANGED <<serverQuota, spent, serverContent>>
       \/ /\ page \in {"home", "about"} /\ serverContent' \in Content \ {serverContent}
          /\ UNCHANGED <<serverQuota, spent, serverHealth>>
    /\ UNCHANGED <<page, callVars, busy, crossed, redemptionCode, userQuota, unused, limitVars,
                   health, healthPoll, newestPoll, providerVars, content, storedContent, usageVars>>

\* A request or its answer is lost.  Without providers the page asks for the channels; the
\* dashboard blanks its data; about stays unloaded; the rate limits stay blank, unless it was a save.
PageBreaks(c) ==
    /\ crossed' = (crossed \/ c.op # "save")
    /\ diverged' = (diverged \/ c.op = "save")
    /\ busy' = (busy /\ c.op \in {"self", "providers", "about", "save"})
    /\ IF c.op = "providers"
       THEN /\ called < MaxCalls /\ called' = called + 1
            /\ calls' = (calls \ {c}) \cup {[c EXCEPT !.n = called + 1, !.op = "channels",
                                                      !.answer = [kind |-> "none"]]}
       ELSE Ends(c)
    /\ IF c.op = "dashboard"
       THEN ShowUsage({})
       ELSE UNCHANGED <<usage, summaryData, cardDay, chartDay, missed>>
    /\ UNCHANGED <<page, rangeDays, today, groups, limits, storedLimits, serverLimits, topUpVars,
                   healthVars, providerVars, contentVars>>

\* A page is mounted: its state is new, and what is stored is read.  Saves go on meanwhile; what a
\* late answer to the page that was left would still store is left out.
FirstCall(p) ==
    CASE p = "topup" -> "self"
      [] p = "limits" -> "groups"
      [] OTHER -> p

Mounts(p) == [n |-> 1, op |-> FirstCall(p), arg |-> 0, answer |-> [kind |-> "none"]]

Revisit ==
    /\ page \in {"limits", "home", "about"}
    /\ called < MaxCalls /\ called' = called + 1
    /\ calls' = Saves \cup {[Mounts(page) EXCEPT !.n = called + 1]}
    /\ busy' = TRUE
    /\ groups' = {} /\ limits' = <<>>
    /\ content' = storedContent
    /\ UNCHANGED <<page, crossed, topUpVars, storedLimits, serverLimits, diverged, healthVars,
                   providerVars, serverContent, storedContent, usageVars>>

----------------------------------------------------------------------------

PagesInit ==
    /\ page \in Page
    /\ calls = {Mounts(page)} /\ called = 1
    /\ busy = (page \notin {"topup", "dashboard"}) /\ crossed = FALSE
    /\ redemptionCode = "" /\ userQuota = 0
    /\ serverQuota = 1 /\ unused = Code /\ spent = 0
    /\ groups = {} /\ limits = <<>> /\ storedLimits = <<>>
    /\ serverLimits = <<>> /\ diverged = FALSE
    /\ serverHealth = CHOOSE s \in Sample : TRUE
    /\ health = serverHealth /\ healthPoll = 0 /\ newestPoll = 0
    /\ conns \in IF page = "providers" THEN Conn ELSE {{}}
    /\ providers = <<>> /\ activeProvider = <<>>
    /\ serverContent \in IF page \in {"home", "about"} THEN Content ELSE {""}
    /\ content = "" /\ storedContent = ""
    /\ usage = {} /\ rangeDays \in RANGE_OPTIONS
    /\ today = FirstDay /\ cardDay = FirstDay /\ chartDay = FirstDay /\ missed = {}
    /\ summaryData = calculateSummary({}, FirstDay)

PagesNext ==
    \/ TypeCode \/ topUp
    \/ handleLimitChange \/ resetToDefault \/ saveLimits
    \/ Poll \/ handleAccordionClick \/ setRangeDays \/ LanguageChanges \/ Midnight
    \/ WorldMoves \/ Revisit
    \/ \E c \in calls : ServerAnswersPage(c) \/ PageReturns(c) \/ PageBreaks(c)

PagesSpec == PagesInit /\ [][PagesNext]_pagesVars

----------------------------------------------------------------------------

PagesTypeOK ==
    /\ page \in Page /\ busy \in BOOLEAN /\ crossed \in BOOLEAN
    /\ called \in 1 .. MaxCalls
    /\ redemptionCode \in Code \cup {""} /\ unused \subseteq Code
    /\ {userQuota, serverQuota, spent} \subseteq Nat
    /\ groups \subseteq UserGroup /\ DOMAIN limits \subseteq UserGroup \cup {"default"}
    /\ health \in Sample /\ healthPoll \in 0 .. called
    /\ {content, storedContent} \subseteq Content \cup {""}
    /\ diverged \in BOOLEAN
    /\ usage \in DayUsage \cup {{}} /\ rangeDays \in RANGE_OPTIONS
    /\ {today, cardDay, chartDay} \subseteq FirstDay .. LastDay
    /\ missed \subseteq {"lines", "bars"}

\* Unless a top-up and the first load overlapped or a request was lost, the quota shown is the
\* server's but for what others used of it since.
TopUpShowsTheQuota ==
    (page = "topup" /\ calls = {} /\ ~crossed) => userQuota = serverQuota + spent

\* Only after a load that failed may a save overwrite the limits with blanks; and once all saves are
\* answered the server has what the browser stores, unless the last one began during another, was
\* refused or was lost.
LimitsAreKept ==
    /\ (storedLimits # <<>> /\ DOMAIN storedLimits[1] = {}) => crossed
    /\ (page = "limits" /\ Saves = {} /\ ~diverged) => serverLimits = storedLimits

\* The newest poll is shown unless polls overlapped, with the multiplier the backend computes.
HealthIsTheNewest ==
    /\ (page = "health" /\ calls = {} /\ ~crossed) => healthPoll = newestPoll
    /\ ShownMultiplier(health) = GetHealthMultiplier(health)

Ids(provider) == {channel.id : channel \in provider.channels}

\* The providers shown, from the backend or grouped in the page out of a page of the channels, have
\* nothing that the backend would not say of them, and all of it if the channels fit on that page:
\* for the providers that both name, but for the names of the types that only the backend tells
\* apart.
FallbackGroupsAlike ==
    (page = "providers" /\ providers # <<>>) =>
        LET shown == providers[1]
            backends == GetProviders(conns)
        IN  \A p \in DOMAIN shown \cap {<<name>> : name \in Range(typeNameMap)} :
                /\ p \in DOMAIN backends
                /\ Ids(shown[p]) \subseteq Ids(backends[p])
                /\ shown[p].all_models \ {""} \subseteq backends[p].all_models
                /\ shown[p].enabled => backends[p].enabled
                /\ shown[p].total_used_quota <= backends[p].total_used_quota
                /\ Cardinality(conns) <= ItemsPerPage =>
                    /\ Ids(shown[p]) = Ids(backends[p])
                    /\ p # <<"Qwen">> => shown[p].channels = backends[p].channels
                    /\ shown[p].all_models \ {""} = backends[p].all_models
                    /\ shown[p].enabled = backends[p].enabled
                    /\ shown[p].total_used_quota = backends[p].total_used_quota

\* The lines, the pie, the bars and the cards of the dashboard tell of the same usage, whenever each
\* was computed.  The lines have what the cards say of their day while they still have it; the pie
\* has on top of the lines the day before the range, and the last one if the lines left it out.
DashboardAddsUp ==
    page = "dashboard" =>
        LET series == processTimeSeriesData
            pie == processModelPieData
            bars == processModelBarData
            dropped == {x \in usage : \/ x.day = chartDay - rangeDays
                                      \/ x.day = chartDay /\ "lines" \in missed}
        IN  /\ cardDay \in DOMAIN series =>
                   /\ series[cardDay].requests = summaryData.todayRequests
                   /\ series[cardDay].tokens = summaryData.todayTokens
            /\ SumFunction(pie)
                   = SumFunction([d \in DOMAIN series |-> series[d].requests]) + RequestsOf(dropped)
            /\ SumFunction(pie) <= summaryData.totalRequests
            /\ \A d \in DOMAIN bars \cap DOMAIN series : SumFunction(bars[d]) = series[d].tokens

\* What the pages show is what the backend said, as far as they keep up with it.
PagesShowTheBackend ==
    /\ TopUpShowsTheQuota /\ LimitsAreKept /\ HealthIsTheNewest
    /\ FallbackGroupsAlike /\ DashboardAddsUp

=============================================================================
