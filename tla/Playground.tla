------------------------------ MODULE Playground ------------------------------
(***************************************************************************)
(* The API documentation: finding an endpoint, and the playground that     *)
(* sends a request to it and shows the answer, whole or as a stream.       *)
(*                                                                         *)
(* An aborted call is rejected at once, before any other event, so that    *)
(* cancelling and the end of the cancelled call are one step.              *)
(***************************************************************************)
EXTENDS Integers, Sequences, FiniteSets, FiniteSetsExt

CONSTANTS
    Endpoints,    \* all endpoints, in order
    ModeOf,       \* ModeOf[e]: "passthrough" or "platform"
    Deprecated,   \* endpoints that are neither listed nor found
    Streams,      \* endpoints whose answers may be streams
    MatchScore,   \* MatchScore[e][field]: scoreMatch of the words searched for with a text of e
    MaxSends

Endpoint == {Endpoints[i] : i \in DOMAIN Endpoints}
Mode == {"passthrough", "platform"}

PlaygroundAssumption ==
    /\ Endpoints \in Seq(Endpoint) /\ ModeOf \in [Endpoint -> Mode]
    /\ Deprecated \subseteq Endpoint /\ Streams \subseteq Endpoint
    /\ MaxSends \in Nat
ASSUME PlaygroundAssumption

VARIABLES
    mode, selectedEndpoint, isSearching,
    state,            \* of the playground, while its panel is mounted
    abortController,  \* the call it would abort
    sends,            \* calls under way that the panel will hear of
    response,         \* the call whose answer is shown
    streamBuffer,     \* the calls whose chunks are in the buffer
    sendCount,
    strayed           \* history: the endpoint changed with a call under way, until it ended

playgroundVars == <<mode, selectedEndpoint, isSearching, state, abortController, sends, response,
                    streamBuffer, sendCount, strayed>>

NoEndpoint == "none"
NoCall == 0

----------------------------------------------------------------------------
(* Finding an endpoint *)

\* Where the endpoints are that a mode lists.
Listed(m) ==
    {i \in DOMAIN Endpoints : ModeOf[Endpoints[i]] = m /\ Endpoints[i] \notin Deprecated}

\* The endpoint that is selected if none is.
FirstListed(m) == Endpoints[Min(Listed(m))]

\* What a match in a field is worth.
Weight == [name |-> 10, path |-> 8, summary |-> 5, param |-> 4, description |-> 3, child |-> 3]

Score(e) == Max({Weight[f] * MatchScore[e][f] : f \in DOMAIN Weight})

\* The results that the dropdown and the sidebar offer: of both modes.
searchEndpoints == {e \in Endpoint \ Deprecated : Score(e) > 0}

\* initFromEndpoint: the call under way is neither aborted nor forgotten.
ShowEndpoint(e) ==
    /\ selectedEndpoint' = e
    /\ IF e = selectedEndpoint
       THEN UNCHANGED <<state, abortController, sends, response, streamBuffer, strayed>>
       ELSE /\ state' = "idle" /\ response' = NoCall /\ streamBuffer' = {}
            /\ strayed' = (strayed \/ sends # {})
            /\ UNCHANGED <<abortController, sends>>

\* Without an endpoint the panel is unmounted, and a later one starts afresh.
ShowNoEndpoint ==
    /\ selectedEndpoint' = NoEndpoint
    /\ state' = "idle" /\ response' = NoCall /\ streamBuffer' = {}
    /\ abortController' = NoCall /\ sends' = {} /\ strayed' = FALSE

\* A new mode selects its first endpoint; the mode that is on already leaves none selected, for
\* the watch on its endpoints sees no change.
setMode ==
    /\ \E m \in Mode :
        /\ mode' = m
        /\ IF m # mode /\ Listed(m) # {} THEN ShowEndpoint(FirstListed(m)) ELSE ShowNoEndpoint
    /\ isSearching' = FALSE
    /\ UNCHANGED sendCount

selectEndpoint ==
    /\ \E e \in IF isSearching THEN searchEndpoints
                ELSE {Endpoints[i] : i \in Listed(mode)} :
        /\ ShowEndpoint(e)
        /\ mode' = ModeOf[e]
    /\ isSearching' \in {isSearching, FALSE}
    /\ UNCHANGED sendCount

TypeQuery ==
    /\ isSearching' = ~isSearching
    /\ UNCHANGED <<mode, selectedEndpoint, state, abortController, sends, response, streamBuffer,
                   sendCount, strayed>>

----------------------------------------------------------------------------
(* The playground *)

\* Mutant: the button is never disabled.
SendAlwaysOffered == TRUE

\* The panel disables the button while a call is sent or streams.
SendOffered == state \notin {"sending", "streaming"}

send ==
    /\ selectedEndpoint # NoEndpoint
    /\ SendOffered
    /\ sendCount < MaxSends /\ sendCount' = sendCount + 1
    /\ abortController' = sendCount'
    /\ state' = "sending" /\ response' = NoCall /\ streamBuffer' = {}
    /\ sends' = sends \cup {[n |-> sendCount', endpoint |-> selectedEndpoint, streams |-> FALSE]}
    /\ strayed' = (strayed /\ sends # {})
    /\ UNCHANGED <<mode, selectedEndpoint, isSearching>>

StreamStarts(c) ==
    /\ ~c.streams /\ c.endpoint \in Streams
    /\ sends' = (sends \ {c}) \cup {[c EXCEPT !.streams = TRUE]}
    /\ state' = "streaming"
    /\ UNCHANGED <<mode, selectedEndpoint, isSearching, abortController, response, streamBuffer,
                   sendCount, strayed>>

ChunkComes(c) ==
    /\ c.streams
    /\ streamBuffer' = streamBuffer \cup {c.n}
    /\ UNCHANGED <<mode, selectedEndpoint, isSearching, state, abortController, sends, response,
                   sendCount, strayed>>

\* The answer is complete, or the network failed: the finally clause forgets the controller,
\* whosever it is.
CallEnds(c) ==
    /\ state' \in {"done", "error"}
    /\ response' = c.n
    /\ sends' = sends \ {c}
    /\ abortController' = NoCall
    /\ UNCHANGED <<mode, selectedEndpoint, isSearching, streamBuffer, sendCount, strayed>>

\* cancel, then the catch and finally clauses of the call that it aborts.
Abort ==
    /\ sends' = {c \in sends : c.n # abortController}
    /\ abortController' = NoCall
    /\ state' = "idle"

cancel ==
    /\ state \in {"sending", "streaming"}
    /\ Abort
    /\ UNCHANGED <<mode, selectedEndpoint, isSearching, response, streamBuffer, sendCount, strayed>>

resetPlayground ==
    /\ selectedEndpoint # NoEndpoint
    /\ Abort
    /\ response' = NoCall /\ streamBuffer' = {}
    /\ UNCHANGED <<mode, selectedEndpoint, isSearching, sendCount, strayed>>

----------------------------------------------------------------------------

PlaygroundInit ==
    /\ mode \in {m \in Mode : Listed(m) # {}}
    /\ selectedEndpoint = FirstListed(mode)
    /\ isSearching = FALSE
    /\ state = "idle" /\ abortController = NoCall
    /\ sends = {} /\ response = NoCall /\ streamBuffer = {}
    /\ sendCount = 0 /\ strayed = FALSE

PlaygroundNext ==
    \/ setMode \/ selectEndpoint \/ TypeQuery
    \/ send \/ cancel \/ resetPlayground
    \/ \E c \in sends : StreamStarts(c) \/ ChunkComes(c) \/ CallEnds(c)

PlaygroundSpec == PlaygroundInit /\ [][PlaygroundNext]_playgroundVars

----------------------------------------------------------------------------

PlaygroundTypeOK ==
    /\ mode \in Mode /\ selectedEndpoint \in Endpoint \cup {NoEndpoint}
    /\ state \in {"idle", "sending", "streaming", "done", "error"}
    /\ sendCount \in 0 .. MaxSends
    /\ {abortController, response} \subseteq 0 .. sendCount /\ streamBuffer \subseteq 1 .. sendCount
    /\ \A c \in sends : c.n \in 1 .. sendCount /\ c.endpoint \in Endpoint

\* But for a call left behind by a change of endpoint: one call at a time is under way, it is the
\* one that Cancel aborts, the panel says so, and only its chunks are shown.
PanelShowsItsCall ==
    ~strayed =>
        /\ Cardinality(sends) <= 1
        /\ \A c \in sends : /\ c.n = abortController
                            /\ c.endpoint = selectedEndpoint
                            /\ response = NoCall /\ streamBuffer \subseteq {c.n}
        /\ (state \in {"sending", "streaming"}) <=> (sends # {})
        /\ response # NoCall => streamBuffer \subseteq {response}

=============================================================================
