# Specifications of Lite Nova

TLA+ specifications, TLC models and TLAPS proofs for two halves of this repository: the
backend's parts that decide where a relay request goes, what is remembered of it and
which channels stay in service; and the web UI and the frontend packages, whose state
must keep up with a server that answers late, in another order, or not at all.

## 1. Inventory

A *channel* is an upstream account. A relay request is sent to a channel of the client's
group and model; when it fails it may be sent to another.

| Component | State it keeps | Operations | Module |
|---|---|---|---|
| Sliding window, `custom/monitor/health.go` | ring of 10 buckets of 30 s, `lastTick` | `Record`, `advance`, `GetMetrics` | `SlidingWindow` |
| Circuit breaker, same file | stored state, `openedAt`, probes that succeeded | `GetState`, `RecordSuccess`, `RecordFailure`, `CheckMetrics` | `CircuitBreaker`, `BreakerSpec` |
| Channel health, same file | one window and one breaker a channel | `RecordRequestHealth`, `getOrCreateHealth`, `GetHealthMultiplier` | `ChannelHealth` |
| Health score, same file | none | `calculateHealthScore` | – |
| Smart selection, `custom/model/channel_select.go` | memory cache of channels, from the database | `CacheGetRandomSatisfiedChannelSmart` | `ChannelSelect` |
| Smart relay, `custom/controller/{relay,passthrough}.go` | the request: channels tried, retries left | `Relay`, `RelayPassthrough`, `shouldRetry`, `processChannelRelayError` | `SmartRelay` |
| Hourly health, `src/model/channel_health.go` | cache of snapshots a node; table `channel_healths` | `RecordChannelRequest`, `RecordChannelDisable`, `FlushHealthCache`, `DeleteOldChannelHealth`, `RunHealthDataFlusher` | `HealthFlush` |
| Hourly usage, `src/model/usedata.go` | cache of usage a node; table `quota_data` | `LogQuotaData`, `SaveQuotaDataCache`, `increaseQuotaData` | `QuotaData` |
| Channel tests, `src/controller/channel-test.go`, `src/service/channel.go` | status of every channel; `testAllChannelsRunning` | `testAllChannels`, `AutomaticallyTestChannels`, `EnableChannel`, `DisableChannel` | `ChannelTest` |
| Relay with billing, `src/controller/relay.go`, `src/service/*quota.go` | balances of users, tokens, subscriptions | charge before, settle after, give back | planned |
| Task billing, `src/service/task_billing.go` | task, funding source, token | `RefundTaskQuota`, `RecalculateTaskQuota` | planned |
| Midjourney proxy, `src/relay/mjproxy_handler.go` | tasks | submit, notify, fetch | planned |
| Log, `src/model/log.go` | table `logs` | inserts, queries, batch deletion | – |
| Start-up and migration, routes, read-only APIs | – | – | – |
| Python prototypes under `docs/test-reports/test-src` | breaker, pool, balancer, cache, usage | – | planned in part |
| Tables, `web-src/web/src/components/*Table.js` | arrays of rows, page, order, marks of rows | load, search, sort, operate on a row | `WebTables` |
| Record forms, `pages/{Channel,Token,User,Redemption}` | the inputs, what is loading | load, edit, submit | `WebForms` |
| Settings, `components/*Setting.js` | the options shown and as loaded | edit, switch, save a group | `WebSettings` |
| Logs' query, `LogsTable.js` | the form, the type, rows, total, dialog | search, choose a type, turn the page, ask for the total | `WebLogs` |
| Personal settings, `PersonalSetting.js` | token, link and dialogs shown | generate a token, get the link, bind WeChat | `WebAccount` |
| Session, `App.js`, `LoginForm.js`, `*OAuth.js`, `Topbar.js`, … | cookie's session, stored user, each tab's user and route | login, logout, navigate, expire | `WebSession` |
| Codes by e-mail, `RegisterForm.js`, `PasswordReset*.js`, `PersonalSetting.js` | button, countdown, call | ask for a code, count down, submit | `WebCodes` |
| Pages, `pages/{TopUp,RateLimit,ChannelHealth,Channel,Home,About,Dashboard}` | what each loaded, what is stored | load, poll, redeem, save, group, sum | `WebPages` |
| Usage dashboard, `frontend/T-007-…` | filters, results, cache | refresh, fetch, filter; transforms to charts | `UsageDashboard`, `QuotaTransform` |
| API documentation, `frontend/T-012-…` | endpoint selected, call under way | search, select, send, stream, cancel | `Playground` |
| Design system, `frontend/T-003-…` | scroll lock, toasts, theme | open, close, add, dismiss, set | `DesignSystem` |
| Brands, `frontend/T-010-…` | configuration, styles on the page, cache | load, edit, mount, unmount; shades of a colour | `Brand`, `Palette` |
| Landing page, design tokens, scripts | – | – | – |

`PROJECT.json` lists every component with its source files and what is left out.

**How they interact.** `Relay` takes the channel that the middleware chose, and after
each attempt calls `RecordRequestHealth`, which feeds the window and the breaker under
two separate locks. A failed attempt makes `Relay` ask the smart selection for another
channel; it reads the memory cache (a copy of the database refreshed by a timer) and the
breaker's state. Errors of some kinds start a goroutine that disables the channel in the
database; the sweeps of the channel tests, on the master's timer or an administrator's
request, disable and enable channels too. Each node counts requests in memory caches of
its own, and a timer on *every* node writes them to shared tables.

The web UI and the packages talk to the backend over HTTP only. Components of one page
share the user in a React context; tabs share `localStorage` (the user, the status,
cached content, the theme) and the cookie; the packages share the document's root
element and `document.body`.

**What is hard.** Steps of concurrent reports between two locks; time that passes a
bucket or an open duration between steps; a breaker's state that is reported but not
stored; retries over data that change meanwhile; several nodes reading and writing the
same row; a process that ends in the middle of a save; a query that fails with nobody
looking; a panic in a sweep; decisions taken on a status read minutes before. In the
frontend: answers in another order than the requests, a handler that goes on after
`await` with what it read before, several tabs over one storage, global styles that
several components save and restore, timers that outlive what they are about.
`PROJECT.json` lists each at its line with the properties that catch it, or where it is
planned.

**What makes each correct.**
- Window: nothing is kept much past the window and nothing dropped early.
- Breaker: evidence is never lost between steps, and the state callers see moves as the
  designed machine does.
- Relay: no channel twice, one answer, bounded retries, an open channel only as the last
  resort, the top tier first, an end.
- Hourly rows: every request counted exactly once, one row an hour and key, no row
  deleted within its retention.
- Channel tests: one sweep at a time on a node, the flag always reset, a channel that
  was disabled automatically comes back, one disabled by hand stays.
- Web UI: an operation marks the row it was started on; a form never overwrites a record
  with the blanks it showed before loading; the settings and the user shown are the
  server's; codes are not asked for too early.
- Packages: what is shown belongs to the filters, the endpoint, the modals and the
  configuration in force, and different paths to the same figure agree.

## 2. Modules and the code

### SlidingWindow
`Record` is `SlidingWindow.Record` with the `advance()` it starts with, one step under
the mutex. The ring index is not kept: a bucket is named by its age, so `advance()`
shifts ages (`Advanced`) and sets `lastTick` to *now* (`AdvancedTick`). `GetMetrics`
sums without advancing, as in the code: it can report entries long past. `first` and
`last` of a bucket are history, for the properties.

### CircuitBreaker, BreakerSpec, ChannelHealth
`CircuitBreaker` has an action for every method. `GetState` is an operator: it reports
an open breaker as half-open when its time is up and stores nothing. `ChannelHealth`
composes a window and a breaker by `INSTANCE` and splits `RecordRequestHealth` at its
locks: `RecordInWindow`, `TellCircuit`, `ReadMetrics`, `CheckCircuit`. Any number of
callers interleave. `BreakerSpec` is the abstract machine that readers of the state rely
on: closed, open at least `OpenDuration`, half-open, closed after so many probes.
`ChannelHealth` refines it with `level <- GetState`, so the implicit move to half-open
happens with the clock. `HalfOpenMaxReqs` is assumed to be at least 2: with 1 the code's
first probe leaves the breaker half-open (the shipped default is 3).

### ChannelSelect, SmartRelay
`ChannelSelect` gives, for a cache, exclusions and breaker states, the set of the
channels a selection may return: the weighted draw can return any candidate, since
weights are positive. The code reads breakers one at a time; the model reads them in one
step, so a mix of older and newer states within one selection is left out. `SmartRelay`
runs requests through either handler. `Fail` decides on retries at the first failure
only, as the code does; `Retry` selects and starts the next attempt; `GiveUp` is the end
of the loop. `left` is the loop's bound, `written` what was sent to the client.
`memoryCacheEnabled` is the process's configuration, either value from the start. The
memory cache and the database are sets of channels that change at any time by
`ProcessError`, `EnableChannel` and `SyncCache`, and breakers move as `BreakerSpec` lets
them, its timing left out. The relay's own adaptors belong to One-API and are not in the
repository: they are assumed to send nothing before they fail. `Distribute`,
`SyncChannelCache`, `UpdateChannelStatusById` and `GetRandomSatisfiedChannel` are
external too.

### HealthFlush
Nodes record in their caches; `TakeCache` is the swap under the lock, then `Find` and
`Write` are one query each for one channel, in any order (a Go map). A query may fail;
the code looks at no error but "not found", and neither does the model. `Flushed` counts
the flushes up to a cleanup. `Cleanup` deletes at most a batch: GORM's limit on a delete
is ignored by some of its dialects, and any `BatchSize` covers both. `Crash` ends and
restarts a process. `recorded`, `lost`, `stale` and `expired` are history: what was
recorded, what failed writes and crashes took of it, whether a row was ever written that
had changed since it was read, and the rows deleted.

### QuotaData
The same shape, with two differences the code makes: the lock is held over the whole
save (so a node's requests wait), and the update is one `UPDATE` that adds to the row as
it is then. The cache is emptied after the last write. `logged` and `lost` are history.

### ChannelTest
A caller of `testAllChannels` sets its node's flag (`Start`), reads the list (`Load`,
`LoadError`), tests and decides channel by channel (`Test`, `Decide`), and its deferred
function resets the flag (`Finish`, `Panic`). `Decide` uses the status read by `Load`.
Disabling is left to a goroutine (`DisableChannel`). `Outcome` gives each channel the
results its tests may have: `fatal` an error that asks for disabling or a test over the
time limit, `unsupported` a channel type with no test, whose nil context makes
`EnableChannel`'s argument panic. The goroutine pool's recovery from panics is external
(gopkg/gopool). `stuck` is history: the nodes where reading the list has failed, which
never sweep again.

### The frontend: MCFrontend and its parts
Each module below is one part of the frontend that has its own `Init`, `Next` and
`Spec`. JavaScript runs a handler up to its next `await` without interruption, so such a
stretch is one action; every answer of the server is an action of its own that may come
at any time, be refused, or be lost. The server is kept only as far as the part tells it
apart. `MCFrontend` composes the parts: a behaviour mounts one of them and leaves the
others as they begin. They share no variable, so that any two side by side behave as
each does alone; a part that really is shared is inside one module (the storage and the
cookie in `WebSession`, the root element in `Brand` and `DesignSystem`).

- **WebTables**: the five tables as one machine whose operators (`Columns`, `Footer`,
  `Buttons`, `Marks`) say in what they differ. `arrays` is every array React was ever
  given, since a handler keeps the one it closed over; a request carries the array, the
  page and the index it was started with. Users and redemptions *push* onto the array,
  the others splice a copy (`LoadPush`, `LoadSplice`). A sort puts a row after those of
  a lower rank, and after those of its own that were listed earlier.
- **WebLogs**: what the page of logs asks for. A page of rows is the query that it
  answers, so that a page of another query shows. `logsCrossed`, `logsMixed`,
  `logRefused` and `logsChanged` are history: whether a refresh began before the answer
  to another request, a page was asked for with another query than the rows', a request
  failed, and the form changed since a total was asked for. `searchLogs` is
  bound to no field and left out.
- **WebForms**: five forms. A channel's configuration is blank, absent, partial or
  complete: what the derivation of its key tells apart (`DerivedKey`).
- **WebSettings**: thirteen groups of options, saved one option after the other.
  `originInputs` is what was loaded and decides what is sent. The options still to be
  saved are named by their place in the group, and go out in its order.
- **WebSession**: two users in two tabs over one `localStorage` and one cookie. `logins`
  are the calls under way; `mixed` and `expired` are history that say when the server
  and the storage may rightly differ.
- **WebAccount**: the dialogs of the personal settings. A token is the number of the
  request that made it, and the backend takes requests in any order. `outrun` and
  `accountLost` are history: whether a token was answered after the one that replaced it,
  and whether a request or its answer was lost.
- **WebCodes**: the countdown's effect and the button of four forms. A button that loads
  is not disabled by that: two of the forms look at the countdown only, so that a click
  after it may find earlier requests unanswered, and any answer ends the loading.
  `asked`, `since`, `crossing` and `refusal` are history: the click that last asked for a
  code, the seconds since then, whether another code was then unanswered, and the code
  refused last since.
- **WebPages**: seven pages; `GetProviders` of the backend is there because the channel
  page repeats its grouping when it cannot be reached: of a page of the channels only
  (`FirstPages`), and with names of its own (`PageName`, `BackendTypeName`). Saves of the
  rate limits overlap, and the backend takes them in any order (`serverLimits`). The
  dashboard's cards, lines, pie and bars are sums over the usage records of a day or a
  model; the cards are of the day of the answer (`cardDay`), the charts of that of the
  last rendering (`chartDay`), and `Midnight` may come in between. `crossed`, `diverged`,
  `spent` and `newestPoll` are history.
- **UsageDashboard**: the hook and the store of T-007 with the cache of the API client.
  `DashboardPage.vue` as committed replaces the API by a mock; the model has the real
  one, as the comment there asks for in production.
- **QuotaTransform**: the three queries of `src/backend/src/model/usedata.go` that the
  dashboard asks, over a growing table `quotaData`, and the pure transforms of their rows
  as operators. An administrator's model data are grouped by model and hour, his users'
  by user and hour, without a model's name and fetched at every ranking; a user is sent
  his own rows. `data` and `usersData` are the answers that the client holds
  (`_cachedData`, `_cachedUsersData`), and the history `modelRows` and `userRows` say how
  much of the table each had. Times are hours of UTC; money, the upstream cost too, is in quota, rounded to cents where the
  code rounds dollars (per bucket, per model, per consumer and in total), but its sums of
  floats are exact here. `computeTopConsumers` is the set of rankings that a sort may
  give, cut to `TopN`. A sum is taken over the places of the records that a bucket, a
  model or a user has (`Total`), and a list of buckets is their keys in order
  (`Ascending`). This commit's backend stores neither `upstream_cost` nor
  `model_category`, which the types and the mock have: a user's row may bear them here,
  a grouped one never does.
- **Playground**: endpoints and calls by name. An aborted call is rejected before any
  other event, so that `cancel` and the end of the call are one action.
- **DesignSystem**: watchers run right after the handler that woke them, in the order in
  which their components were created, which decides what Escape leaves behind.
- **Brand**: `dom` is what is written to either element; a configuration is the two
  fields that tell merging and leftovers apart.
- **Palette**: the shades of a base colour, in exact arithmetic on bytes, degrees and
  percents, rounded where the code rounds.

## 3. What the runs show

| Run | Bounds | Shows |
|---|---|---|
| `sliding_window` | 3 buckets of 2 units, clock to 12, 2 a bucket | entries live less than twice the window less a bucket, and at least all buckets but one |
| `channel_health` | 2 callers, 2 buckets of 2, clock to 6 | evidence is never lost, `BreakerSpec` is implemented |
| `smart_relay` | 3 channels in 2 tiers, one request, 2 retries | the relay's safety, and that it ends |
| `health_flush` | 2 nodes and 1 channel, and 1 node and 2 channels: 3 records, 3 hours, retention 1, batch 1, a failed query, a crash | nothing is counted twice; everything recorded is in one place or was taken by a fault or a race; an hour's rows are bounded; extremes; retention |
| `quota_data` | 2 nodes, 2 keys, 5 uses, a failed query, a crash | every use is kept once while its key has one row; rows are bounded |
| `channel_test` | 3 channels, 3 callers on 2 nodes, an outside event, the list may fail | exclusion, flags reset after panics, sweeps end, disabled channels recover |
| `frontend` | each part by itself: see below | one property of each part, a conjunction of what it must keep, and the types of all |

**Why the bounds are enough.** The window's three buckets hold one written, one between
and one about to be dropped, and 12 units let the ring turn twice, in moves of one,
several and all buckets, with and without a lost fraction. Two callers give every pair
of interleaved steps, and clock 6 an opening, a half-opening, a closing and a reopening.
Three channels allow a tie in the top tier, a fall to the lower one and a last resort,
with two retries to reach the third; requests share only what `BreakerMoves`,
`ProcessError` and `SyncCache` already change at any moment, so one request meets what
many would do to it. Three records are two merged into one row and one in another place.
A retention of one hour, with three, has rows that expire and rows that must not, and a
batch of one leaves expired rows behind. Two nodes suffice for a lost update and for two
rows of a key; a failure and a crash may come at any step. In `channel_test` the
channels are one that passes, one whose tests end in any way and one without a test,
listed last; one event lets an administrator or a request change a status during two
nodes' sweeps.

In `frontend`, three rows on pages of two make two pages with an incomplete one; three
requests let a load and a search pass an operation under way. Two tabs and two users
give every pair of a login, a logout and a navigation. A countdown of 3 has a first, a
middle and a last second, and three clicks a code, one too early and one after. Two
edits and saves, or calls, or refreshes of each kind suffice for one that overtakes
another; three calls of the playground for one left behind, one shown and one after.
Three modals have a bottom, a middle and a top. Four requests of a page leave a save, an edit, another save and
a second visit, or a poll that overtakes two. Channels on a page of two, with three, give
a fallback that reaches all and one that does not; two days, one midnight between. Two
records of usage, out of 18 at the edges of a week and a month, of two models and two
users, with and without a category of their own and an upstream cost of half a cent,
give every way two records can share or not share a bucket, a model and a user, be
fetched by the one query and not the other, and round apart; a ranking of one is cut. Brands need two loads, one
within the cache's age and one after it. The logs need three requests and one edit of
the form: a refresh, another before its answer, and a total or a page with the form as
edited; the personal settings three as well: a token, another that outruns it, a link. A
base colour's bytes are at both ends, in the middle and between, which gives every
sextant of the hue and both branches of the saturation. `TablesTypeOK` and its like are
checked together as `FrontendTypeOK`, and the two parts that compute as
`PackagesCompute`: `TrendsAgree` of `QuotaTransform` and `ColoursKeepTheirKind` of
`Palette`, each where its part is mounted, since elsewhere it stays as it began.

**Deadlock.** All runs set `CHECK_DEADLOCK FALSE`: the clock, the records, the events
and the requests are bounded, so a behaviour reaches its bounds and stops.

**Fairness.** `SmartRelay`: a request's attempt ends (the upstream answers, the
connection breaks, or the client's timeout expires) and its goroutine then runs; weak
fairness on `Serve` once it has arrived. Nothing is assumed of clients, breakers, the
cache or the database. `ChannelTest`: goroutines of sweeps and of disables go on, and
the master's timer keeps calling (`AutomaticallyTestChannels` loops for ever, with
automatic tests enabled and disabled channels set to be enabled again); administrators
need not call. The safety runs use no fairness, and nothing is assumed of the frontend:
a user may stop clicking and a server may never answer.

## 4. Where the code differs from what is said of it

Five runs state what a document or comment says and must be violated; `PROJECT.json`
quotes the lines.

| Run | What TLC finds |
|---|---|
| `failed_probe_reopens` | a failure reported while half-open by time only is ignored |
| `recovery_needs_new_failure_to_undo` | the success that closes a breaker can open it again on old failures |
| `passthrough_answers_once` | a failed passthrough attempt is sent to the client, and then another response |
| `flag_is_reset` | an error before the `defer` leaves the flag set for good |
| `auto_disabled_recovers` | one channel's panic keeps the channels after it from ever being tested |

Others show in the conditions the checked properties need:

- `advance()` loses a fraction of a bucket at every move, so an entry may be counted for
  almost twice the window (`KeepsNothingOlder`; T-008's design says the last N minutes).
- Without the memory cache the selection is told neither what was tried nor the
  channels' health (`NoChannelTwice`, `OpenOnlyAsLastResort`).
- The last resort sends requests to open channels ("open circuits get no traffic",
  `channel_select.go:19`), and below the top tier priorities are mixed (`TopTierFirst`
  speaks of the top tier only).
- Two flushing nodes lose an update: `CountedOnce` holds unless a row changed between
  its reading and its writing.
- Two nodes, or a failed query, make a second row of a key, and later updates count in
  both (`RowsBounded`, `UsesKeptOnce`); a failed write is logged as saved.
- A disable that is flushed before any request of the hour writes a least latency of 0,
  which the next merge takes for "none yet", as it does a request of 0 ms
  (`ExtremesSurvive` excepts both).
- A sweep decides by statuses read at its start, so it may enable a channel that an
  administrator has disabled since.

The conditions in the frontend's properties are such places too:

- Tables: a load that answers after a delete reinstalls the array it closed over; a
  rejected request leaves the spinner turning (`broken`), for `showError` reads the
  status of a response that a network error has not.
- Forms: after a refused load a form shows blanks and sends them (`UpdatesFollowALoad`
  excludes only the time before). `EditToken.submit` and `EditChannel.submit` write into
  the state, so that a second submission sends something else.
- Settings: `EmailDomainWhitelist` is sent from the inputs, which the editor of domains
  does not change, so edits of it are never saved (`SystemSetting.js:172`, `:389`);
  `originInputs` is not refreshed after a save, so an option put back to its first value
  is not sent (`SavedIsShown` excepts both).
- Logs: the total shown is not asked for again when the form or the type changes
  (`TotalIsOfTheQuery` says whose it is); a page past the rows loaded is asked for with
  the form as it is by then, so that rows of two queries stand together (`logsMixed`); of
  overlapping requests the last answer wins.
- Personal settings: of two requests for a token that are answered out of order the page
  shows the older token, which the newer has ended (`outrun`).
- Session: a tab goes on with its user after another tab logged out, until it is loaded
  again.
- Codes: `RegisterForm` counts down but does not disable its button (`CodesAreSpaced` is
  about the other three). In `PasswordResetForm` a late refusal of one request gives the
  button back in the middle of the countdown of the next, whose code was not refused
  (`PasswordResetForm.js:75`, the case of `crossing`).
- Pages: a load and a top-up that overlap add the top-up twice; overlapping polls of the
  health page are shown in the order of their answers; saving the limits after a failed
  load overwrites them with nothing, and reports success when refused; of overlapping
  saves the server may end with the older limits, the browser with the newer
  (`diverged`).
- Providers: the fallback lists one page of the channels as if they were all
  (`Channel/index.js:33`), and calls types 17 and 49 alike where the backend tells them
  apart (`provider.go:137`): `FallbackGroupsAlike` asks for no more than a part where the
  page does not hold all, and leaves the names of these two types out.
- Dashboard: the pie counts a day that the lines leave out. After midnight the cards are
  of the day before until they are loaded again, while the charts move on at the next
  rendering. Lines and bars run from one reading of the clock up to an earlier one
  (`Dashboard/index.js:122`), so that the last day is missing from a chart if the clock
  moved on in between (`missed`).
- Usage dashboard: the range's end is taken when it is selected, so the automatic
  refresh asks for the same period for ever (`use-dashboard.ts:165`); of overlapping
  refreshes the last answer wins, so that what is shown need not be of the filters when a
  change of them overlapped a refresh (`FiltersAreShown` speaks of the others).
- Usage figures: costs and upstream costs are rounded in every bucket and once more in
  the total, so that a chart adds up to its card only up to half a cent a bucket (`Near`).
  An administrator's ranking of users is of an answer of its own, taken at another time,
  whose rows name no model: any category but `text`, which is what a model without a
  name is taken for, leaves the ranking empty, and `text` leaves the usage of all models
  in it (`RankingAgrees`). A ranking of an administrator's groups or channels has one
  consumer, for the query selects neither. A ranking is cut, its shares are of all.
- API documentation: a call left behind by a change of endpoint shows its answer under
  the new one, and its end forgets the controller of the call after it, which Cancel
  then does not abort (`strayed`).
- Design system: modals of `useModal` closed out of order, or by Escape when more than
  one is open, leave the page locked, or unlocked under an open modal (`disordered`);
  `LnModal` unlocks the page when an inner one closes.
- Brands: a load that ends after the provider is gone mounts its styles again (`late`);
  edits are not written to the page; the mode is always written to the root element
  (`onTarget`).

## 5. What is proved

TLAPS checks the theorems for every value of the constants that the named assumptions
allow: any number and length of buckets, callers, channels, nodes.

- **SlidingWindow_proofs** (`WindowAssumption`). `BucketSpans` is inductive with the
  types: for a bucket of age `d`, its oldest entry is at most `2 * d * BucketDuration`
  before `lastTick`, and its newest more than `(d - 1) * BucketDuration` before it. Why
  it is needed: `lastTick` moves to *now*, so a shift by `k` ages a bucket by anything
  from `k` to almost `2 * k` durations (`Ticks = k >= 1` bounds the time by `k + 1`),
  and neither property is inductive without what each age already implies. Theorems
  `TypeCorrect`, `SpansHold`, `NothingOlderIsKept`, `NothingRecentIsForgotten`.
- **Routing_proofs**, channel health (`HealthAssumption`). `UnhealthyIsNoticed` is inductive with
  the types: recording leaves its caller in `tell`, and a caller leaves `check` with a
  closed breaker only if what it read was healthy, while a window that changed since has
  another caller under way. `BreakerInv` (no probe is counted unless the stored state is
  half-open; opening is not in the future) carries the refinement of `BreakerSpec`, step
  by step: `HealthTypeCorrect`, `EvidenceIsNoticed`, `QuietBreakerIsRight` (a closed
  breaker with no caller under way has a healthy window), `BreakerInvariant`,
  `BreakerRefinement`.
- **Routing_proofs**, relay (`SelectAssumption`, `RelayAssumption`). `RelayInv` ties the
  retries left, the attempts made and the answers sent to where the request stands. With
  the memory cache, `OnceInv` adds that every channel attempted is among the tried ones,
  which the selection excludes: `RelayTypeCorrect`, `RelayInvariant`,
  `RetriesAreBounded`, `AnsweredOnce`, `NoChannelIsTriedTwice`, `OpenIsLastResort`,
  `TopTierIsFirst`.
- **ChannelTest_proofs** (`TestAssumption`). `LockInv` says that a caller under way has
  its node's flag set and is alone on it; the converse, that a set flag has its sweep,
  then holds wherever the list was never unreadable. `ListInv` keeps a sweep within the
  list it read: `SweepsTypeCorrect`, `SweepsExcludeEachOther`, `FlagIsResetOrStuck`.
- **HealthFlush_proofs** (`FlushAssumption`). Five invariants, each on those before it.
  `FlushInv`: caches, flushers and rows have their types, and the ids in use a bound, so
  that there is a lowest row and a new id (`FlushTypeCorrect`, `RowsStay`). `IdsInv`: no
  id is used twice, and a row that a flusher found is of its channel and hour, as the row
  under that id still is. `HoursInv`: once an hour has a row, its rows and the flushers
  about to insert one are at most the nodes and the failed queries together;
  `RowsBounded` alone is not inductive, for reading and writing are two steps
  (`HourRowsBounded`). `CountsInv`: every row has a bound that only grows, at least what
  the row holds and what any flusher that found it may write, and the bounds, the caches
  and the losses sum to at most what was recorded, and to exactly that while nothing was
  overwritten (`NothingIsCountedTwice`). `ExtremesInv`: a snapshot without requests has no
  greatest latency, and while nothing was overwritten or lost the least and the greatest
  latency of a channel are in a cache, in a flusher's hands or in a row, kept or expired
  (`ExtremesAreKept`).
- **QuotaData_proofs** (`QuotaAssumption`). The save holds the node's lock, so that the
  arguments are shorter: `QuotaInv` for the types, `RowsInv` for a key's rows and the
  savers about to insert one, `KeptInv` for where the uses are: `UsesTypeCorrect`,
  `UsageRowsBounded`, `UsesAreKeptOnce`.

**Frontend_proofs**, a section for each part of the web UI and its assumption, and the
whole at the end:

- Tables: `RequestInv` says of a request under way which row of the array it closed over
  is its record's, and `ArraysGrow` that an array stays where the closure has it and only
  gets longer. Without the second, a push by a load that is answered in between could
  move the row. `RequestsKeepTheirRows`.
- Forms: `FormsInv` says that a form is loading until its record has come or was refused,
  and that a new channel's key never comes from credentials it did not load.
  `FormsSendLoadedOrFilledIn`.
- Settings: one save at a time and none before the options are there (`SavesInTurn`); a
  switch loaded or on its way is the server's (`SwitchInv`); while a save goes well, an
  option of its group is as it should be or still waits in its queue (`QueueInv`).
  `SavedOptionsAreShown`.
- Session: while nothing mixed, the server and the storage agree, or exactly one call is
  under way that makes them agree (`SidesInv`). `WhoIsShownIsLoggedIn`.
- Codes: while a code was asked for, nothing has given the button back, and the countdown
  is not over, the button is disabled and `since + countdown = Countdown` (`Counting`);
  without an overlap, what is unanswered or was refused is the last code (`LastCode`).
  These and the bounds of both are inductive, the spacing of codes is not.
  `CodesTypeCorrect`, `CodesSpaced`.
- Pages: what the quota shown lacks is in the answer on its way (`TopUpInv`), limits that
  may be saved are not blank (`LimitsInv`), the only save under way is of what the
  browser stores, or the server has it already (`SavesInv`), a poll under way is newer
  than the one shown (`HealthInv`). `ShownInv` says what the dashboard and the channel
  page show and what is on its way to them: usage of days that have come, cards of the
  day of their answer, groups of the backend or of a page of its channels. From there
  `GroupsAlike` compares the two groupings group by group, and the figures of the
  dashboard agree because a sum by days or by models is the sum of all (`SumByKey`).
  `PagesShowWhatTheBackendSaid`.
- Personal settings: while no token was outrun and no answer lost, the token shown is the
  valid one, or the answer that brings the valid one is under way (`TokenInv`).
  `TokenShownIsValid`.
- Logs: `RowsInv` and `TotalInv` say which query the rows and the total on the page or
  under way answer. `RowsAndTotalAreAsked`, `TotalIsNotTakenAway`.
- Types: `TablesTypeCorrect` and its like, mostly with the part's invariant above: a row
  of a table's array is of a request that was sent, whatever sorts, splices and pushes
  it went through; a setting may be told as blank, or absent if it is a secret (`Told`).
- The front end: a step of `MCFrontend` is a step of each part or leaves it alone
  (`PartsStep`), so that each part behaves as its own specification says
  (`PartsBehave`). From there the theorems about the parts are theorems about the
  whole: `FrontendTypeCorrect`, `FrontendKeepsItsWord`, `FrontendComputes`, which state
  the properties the run `frontend` checks.

**Packages_proofs**, a section for each package:

- Usage dashboard: `YoungInv` bounds the age of what is cached, under way or shown, and
  `FollowInv` says that the refresh last begun is of the filters. `FiltersAreShown`.
- Playground: the panel has a call left behind, or is settled, or has exactly the call
  that Cancel would abort. `PlaygroundShowsItsCall`.
- Design system: modals closed in the reverse order of opening are a stack in which the
  lowest found the page unlocked and every other one found it locked (`Stacked`).
  `DesignKeepsPage`.
- Brands: `Branded` says what the root bears while the engine is there, and that the
  automatic mode listens to the system's theme. `PageBearsItsBrand`.
- Usage numbers: every chart takes the same records to pieces, by a day, a model, a user
  or a place in a ranking. `SumByParts` says that the pieces of such a division sum to
  the whole, and `RoundedParts` that pieces rounded to cents each come within half a cent
  of it a piece, and half a cent for the whole. What is left for a chart is that its
  buckets are such a division: the sorted keys are every key once (`AscendingIs`), a
  record has a bucket and one only (`RecordsHaveTheirBucket`), a tooltip or a bar leaves
  out nothing but what it counts under "other". The rows of the grouped queries are such a
  division of the table's too (`GroupsAddUp`), and have natural numbers in every field
  (`DataIsRecorded`), so that the same lemmas do for an administrator and a user; that the
  answers held are those of the table's first rows, however much it has grown since, is
  part of `QuotaTypeOK`. A cut
  ranking is a part of all consumers (`CutsShowLess`), these of the rows they are ranked
  by (`ConsumersAddUp`), and the two answers of an administrator have the same usage if
  they are of the same table (`UsersAddUp`). Upstream costs are rounded parts like any
  others (`UpstreamAddsUp`). `UsageAddsUp`.
- Colours: a base colour is followed to its hue, saturation and lightness, and back.
  `Hue`, `Saturation` and the lightness stay in their ranges for any bytes; a lower
  lightness gives no brighter byte (`ShadesGetDarker`); a colour without saturation has
  equal bytes (`GreysAreGrey`); the hue of a colour lies in the sextant that the order of
  its bytes names, so that a shade's bytes are in the same order (`ShadesStayOrdered`);
  and each rounding is off by at most half, which adds up to at most 5 of 255 for a
  colour taken to HSL and back (`ColoursAreKept`). `ColoursStayOfTheirKind`.

**Sums and extremes** (`SetLemmas`). The library's induction theorems take an operator,
which the provers cannot instantiate. The lemmas on sums and on least elements use
instead that a finite set with a property has a subset with it and none smaller
(`MinimalSubset`), and show that no least counterexample exists: `SumTakesOut`,
`SumChanges`, `SumOfUnion`, `SumSplits`, `SumByKey`, `SumLinear`, `SumAdds`,
`LeastElement`, `GreatestElement`. In the same way a finite set of numbers has an element
for each rank (`EveryRankIsTaken`), which is what a sorted list is made of.

**Only model-checked.** `EveryRequestEnds`, `SweepsEnd` and `AutoDisabledRecovers`:
liveness under fairness and `ENABLED` are out of the prover's reach. Every other property
of a passing run is a theorem.

## 6. Not modelled

Read-only queries and HTTP APIs, routes, migrations, logging: they keep no state of
their own or change it in one statement. Latencies, the health score, weights of the
draw: abstracted as said above. The response times and health rows a channel test
leaves. Billing, Midjourney and the Python prototypes under
`docs/test-reports/test-src`: planned, see below.

In the frontend: markup, styles, wording, translation, charts' looks, formatters, code
examples, the landing page; the operations that `PROJECT.json` names for each component
(a table's tests of all channels, old logs' deletion, quotas and groups in forms, …);
`Header.js`, which nothing imports; the mock API. Of the usage figures: the filter by
model ids, which the ranking's own refresh forgets to send; `getDashboard`, which neither
client calls; a refresh with a cold cache, whose five calls may each be of another
answer (`UsageDashboard` has them apart, `QuotaTransform` one set of model data); rows
of a user under an older name. A remote configuration of a brand that makes `replaceConfig`
or `mount` throw is not modelled. The components of two parts on one page
are not run together, for they share nothing but the server.

## 7. Plan

The order puts what decides about requests first.

1. *Done:* `SlidingWindow`, `CircuitBreaker`, `ChannelHealth`, with `BreakerSpec` as the
   abstract specification; theorems.
2. *Done:* `ChannelSelect`, `SmartRelay`; theorems.
3. *Done:* `HealthFlush`, `QuotaData`: one and two nodes, failures, crashes;
   theorems.
4. *Done:* `ChannelTest`; theorems.
5. *Done:* the web UI and the packages of the frontend, composed in `MCFrontend`;
   theorems about each part that keeps a state.
6. `RelayBilling`, `TaskBilling`: every path out of a request gives back or settles
   exactly what was charged; abstract specification: a ledger. `HealthStore`: two first
   requests share one health.
7. `FallbackRouter` (Python): the asyncio breaker with one probe, cancellation between
   acquiring and releasing it, and late answers taken for probes; to be compared with
   `BreakerSpec`. `ConnectionPool`: bounds of the pool.
8. `Midjourney`: progress notices out of order.
9. *Done:* proofs of the front end as a whole: the types of every part, the figures of
   the usage dashboard, the shades of the palette, and the composition.
