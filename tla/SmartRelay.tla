----------------------------- MODULE SmartRelay -----------------------------
(***************************************************************************)
(* Relay requests that fall back from channel to channel: Relay of         *)
(* backend/custom/controller/relay.go and RelayPassthrough of              *)
(* controller/passthrough.go, with the selection of ChannelSelect.  Each   *)
(* channel's reported health moves as BreakerSpec lets it, its timing left *)
(* out: ChannelHealth implements BreakerSpec.                              *)
(***************************************************************************)
EXTENDS ChannelSelect, FiniteSets

CONSTANTS
    Request,       \* client requests
    Kind,          \* the handlers they go to, of {"relay", "passthrough"}
    RetryTimes     \* config.RetryTimes

ASSUME RelayAssumption ==
    /\ Kind \subseteq {"relay", "passthrough"}
    /\ RetryTimes \in Nat

VARIABLES
    level,                 \* the breaker state reported for each channel
    enabled,               \* the channels enabled in the database
    cached,                \* the channels in this node's memory cache
    memoryCacheEnabled,    \* config.MemoryCacheEnabled, set when the process starts
    req                    \* the requests

relayVars == <<level, enabled, cached, memoryCacheEnabled, req>>

Level == {"closed", "open", "half_open"}

\* How an attempt fails, by what the handlers tell apart: a status that shouldRetry does
\* not retry (400 and 2xx), any other status of the upstream, or no answer from it, which
\* is an error of DoRequest and stands for 502.
Failure == {"bad_request", "upstream_error", "no_answer"}

New == [pc |-> "new", kind |-> "relay", specific |-> FALSE, channel |-> <<>>,
        tried |-> {}, attempts |-> <<>>, left |-> 0, written |-> <<>>]

RelayInit ==
    /\ level = [c \in Channel |-> "closed"]
    /\ enabled = Channel
    /\ cached = Channel
    /\ memoryCacheEnabled \in BOOLEAN
    /\ req = [r \in Request |-> New]

-----------------------------------------------------------------------------

RetryLimit(kind) == IF kind = "passthrough" THEN 2 ELSE RetryTimes

\* Mutant: a token bound to a channel is retried as well.
ShouldRetrySpecific(specific, failure) == failure # "bad_request"

ShouldRetry(specific, failure) == ~specific /\ failure # "bad_request"

\* middleware.Distribute has put a channel in the context: the token's own channel, or
\* one its own selection took without looking at health.
Arrive(r) ==
    /\ req[r].pc = "new"
    /\ \E kind \in Kind, specific \in BOOLEAN, c \in IF memoryCacheEnabled THEN cached ELSE enabled :
        req' = [req EXCEPT ![r] =
                    [@ EXCEPT !.pc = "attempt", !.kind = kind, !.specific = specific,
                              !.channel = c, !.tried = {c}, !.attempts = <<c>>]]
    /\ UNCHANGED <<level, enabled, cached, memoryCacheEnabled>>

\* DoResponse of the passthrough adaptor copies the upstream's response to the client
\* before it looks at the status.  Of the relay's adaptors, which are One-API's, it is
\* assumed that they send nothing before they fail.
WrittenAfterFailure(q, failure) ==
    IF q.kind = "passthrough" /\ failure # "no_answer"
    THEN Append(q.written, "upstream") ELSE q.written

\* Mutant: the handler does not return after a success.
SucceedWithoutReturn(r) ==
    /\ req[r].pc = "attempt"
    /\ req' = [req EXCEPT ![r].pc = "failed", ![r].written = Append(@, "upstream")]
    /\ UNCHANGED <<level, enabled, cached, memoryCacheEnabled>>

\* An attempt succeeds: Emit and RecordRequestHealth, then return.
Succeed(r) ==
    /\ req[r].pc = "attempt"
    /\ req' = [req EXCEPT ![r].pc = "done", ![r].written = Append(@, "upstream")]
    /\ UNCHANGED <<level, enabled, cached, memoryCacheEnabled>>

\* An attempt fails: RecordRequestHealth, then a goroutine for ProcessError.  Only
\* the first failure decides whether there will be retries.
Fail(r, failure) ==
    LET q == req[r]
        first == Len(q.attempts) = 1
    IN  /\ q.pc = "attempt"
        /\ req' = [req EXCEPT ![r] =
                    [q EXCEPT !.pc = "failed",
                              !.left = IF ~first THEN q.left - 1
                                       ELSE IF ShouldRetry(q.specific, failure)
                                            THEN RetryLimit(q.kind) ELSE 0,
                              !.written = WrittenAfterFailure(q, failure)]]
        /\ UNCHANGED <<level, enabled, cached, memoryCacheEnabled>>

Selections(r) == Select(memoryCacheEnabled, cached, enabled, req[r].tried, level)

\* Mutant: the channel of a retry is not added to the tried ones.
RetryForgetsTried(r) ==
    /\ req[r].pc = "failed"
    /\ req[r].left > 0
    /\ \E c \in Selections(r) :
        req' = [req EXCEPT ![r] =
                    [@ EXCEPT !.pc = "attempt", !.channel = c,
                              !.attempts = Append(req[r].attempts, c)]]
    /\ UNCHANGED <<level, enabled, cached, memoryCacheEnabled>>

\* Mutant: the loop is entered with no retry left.
RetryWithNoneLeft(r) ==
    /\ req[r].pc = "failed"
    /\ \E c \in Selections(r) :
        req' = [req EXCEPT ![r] =
                    [@ EXCEPT !.pc = "attempt", !.channel = c,
                              !.tried = req[r].tried \cup {c},
                              !.attempts = Append(req[r].attempts, c)]]
    /\ UNCHANGED <<level, enabled, cached, memoryCacheEnabled>>

\* The loop selects another channel and sends the request to it.
Retry(r) ==
    /\ req[r].pc = "failed"
    /\ req[r].left > 0
    /\ \E c \in Selections(r) :
        req' = [req EXCEPT ![r] =
                    [@ EXCEPT !.pc = "attempt", !.channel = c,
                              !.tried = req[r].tried \cup {c},
                              !.attempts = Append(req[r].attempts, c)]]
    /\ UNCHANGED <<level, enabled, cached, memoryCacheEnabled>>

\* Mutant: the loop does not break when the selection fails.
GiveUpOnlyAtZero(r) ==
    /\ req[r].pc = "failed"
    /\ req[r].left = 0
    /\ req' = [req EXCEPT ![r].pc = "done", ![r].written = Append(@, "error")]
    /\ UNCHANGED <<level, enabled, cached, memoryCacheEnabled>>

\* No retry is left, or the selection fails: the last error goes to the client.
GiveUp(r) ==
    /\ req[r].pc = "failed"
    /\ req[r].left = 0 \/ Selections(r) = {}
    /\ req' = [req EXCEPT ![r].pc = "done", ![r].written = Append(@, "error")]
    /\ UNCHANGED <<level, enabled, cached, memoryCacheEnabled>>

-----------------------------------------------------------------------------
(* What happens around the requests.                                       *)

\* processChannelRelayError, in a goroutine of this request or of any other one on any
\* node, disables the channel of an error that asks for it; so may an administrator.
\* An error that does not ask for it goes to Emit, which may disable the channel later.
ProcessError(c) ==
    /\ enabled' = enabled \ {c}
    /\ UNCHANGED <<level, cached, memoryCacheEnabled, req>>

\* The breaker of a channel, fed by these requests and any others.
BreakerMoves(c) ==
    /\ \E to \in Level :
        /\ <<level[c], to>> \in {<<"closed", "open">>, <<"open", "half_open">>,
                                 <<"half_open", "closed">>, <<"half_open", "open">>}
        /\ level' = [level EXCEPT ![c] = to]
    /\ UNCHANGED <<enabled, cached, memoryCacheEnabled, req>>

\* SyncChannelCache reloads the memory cache from the database.
SyncCache ==
    /\ cached' = enabled
    /\ UNCHANGED <<level, enabled, memoryCacheEnabled, req>>

\* An administrator or a channel test enables a channel again.
EnableChannel(c) ==
    /\ enabled' = enabled \cup {c}
    /\ UNCHANGED <<level, cached, memoryCacheEnabled, req>>

Serve(r) ==
    \/ Arrive(r)
    \/ Succeed(r)
    \/ \E failure \in Failure : Fail(r, failure)
    \/ Retry(r)
    \/ GiveUp(r)

RelayNext ==
    \/ \E r \in Request : Serve(r)
    \/ \E c \in Channel : ProcessError(c) \/ BreakerMoves(c) \/ EnableChannel(c)
    \/ SyncCache

RelaySpec == RelayInit /\ [][RelayNext]_relayVars

\* An attempt ends in the end (its upstream answers, the connection breaks, or the timeout
\* configured for the HTTP client expires) and the handler's goroutine then runs; nothing
\* is assumed of clients or of the channels' health.
FairSpec ==
    RelaySpec /\ \A r \in Request :
        WF_relayVars(req[r].pc # "new" /\ Serve(r))

-----------------------------------------------------------------------------
(* Properties.                                                             *)

RelayTypeOK ==
    /\ level \in [Channel -> Level]
    /\ enabled \subseteq Channel
    /\ cached \subseteq Channel
    /\ memoryCacheEnabled \in BOOLEAN
    /\ \A r \in Request :
        /\ req[r].pc \in {"new", "attempt", "failed", "done"}
        /\ req[r].left \in Nat
        /\ req[r].tried \subseteq Channel
        /\ req[r].attempts \in Seq(Channel)

\* With the memory cache a request never goes twice to the same channel, whatever happens
\* to the cache, the database and the channels' health between its attempts ("Exclusion of
\* already-tried channels (prevents retry on same failed channel)", channel_select.go).
\* Without it the selection is not told what was tried.
NoChannelTwice ==
    memoryCacheEnabled =>
        \A r \in Request : \A i, j \in DOMAIN req[r].attempts :
            req[r].attempts[i] = req[r].attempts[j] => i = j

\* With the memory cache a channel whose breaker is open gets a retry only when every
\* channel still to be tried is open too.
OpenOnlyAsLastResort ==
    [][\A r \in Request :
        memoryCacheEnabled /\ Retry(r) /\ level[req'[r].channel] = "open" =>
            \A c \in cached \ req[r].tried : level[c] = "open"]_relayVars

\* With the memory cache a channel of the highest priority that is fit and untried is never
\* passed over for one of a lower priority.  (Below the top tier priorities are mixed.)
TopTierFirst ==
    [][\A r \in Request :
        memoryCacheEnabled /\ Retry(r) /\ Viable(TopTier(cached), req[r].tried, level) # {} =>
            req'[r].channel \in TopTier(cached)]_relayVars

\* A relayed request is answered once: by the success that ends it or by the last
\* error, never by both.
RelayAnswersOnce ==
    \A r \in Request : req[r].kind = "relay" =>
        Len(req[r].written) = IF req[r].pc = "done" THEN 1 ELSE 0

\* A request sent to a handler is answered in the end.
EveryRequestEnds == \A r \in Request : (req[r].pc = "attempt" ~> req[r].pc = "done")

\* The retries of a request are bounded, and a token bound to a channel gets none.
AttemptsBounded ==
    \A r \in Request :
        Len(req[r].attempts) <= IF req[r].specific THEN 1 ELSE 1 + RetryLimit(req[r].kind)

-----------------------------------------------------------------------------
(* What the documents say, and the code does not do.                       *)

\* Upstream errors are passed through as they are ("直接返回上游状态码和错误体",
\* docs/architecture/T-004-api-passthrough-design.md): a client is sent one response.
PassthroughAnswersOnce ==
    \A r \in Request : req[r].kind = "passthrough" => Len(req[r].written) <= 1
=============================================================================
