---------------------------- MODULE ChannelTest ----------------------------
(***************************************************************************)
(* Sweeps that test every channel: testAllChannels of                      *)
(* backend/src/controller/channel-test.go, called by the master's timer    *)
(* and by administrators, with EnableChannel and DisableChannel of         *)
(* service/channel.go.  A sweep decides by the status each channel had     *)
(* when the list was read; a disable is left to a goroutine.               *)
(*                                                                         *)
(* Left out: the response times and the health records a test leaves.      *)
(***************************************************************************)
EXTENDS Integers, Sequences, FiniteSets

CONSTANTS
    Channel,
    Order,        \* the channels in the order GetAllChannels returns them
    Outcome,      \* the outcomes a test of each channel may have
    AutoBan,      \* the channels with auto_ban set
    Caller,       \* the goroutines that call testAllChannels
    Timer,        \* the one of AutomaticallyTestChannels
    NodeOf,       \* the node each caller runs on
    LoadFails,    \* may GetAllChannels fail?
    MaxEvents     \* bound on what administrators and relayed requests do

\* How a test ends, by what a sweep tells apart: "fatal" is an error that asks for the
\* channel to be disabled, or a test that took longer than ChannelDisableThreshold.
Result == {"ok", "error", "fatal", "unsupported"}

ASSUME TestAssumption ==
    /\ Order \in Seq(Channel)
    /\ \A c \in Channel : \E i \in DOMAIN Order : Order[i] = c
    /\ Outcome \in [Channel -> SUBSET Result]
    /\ AutoBan \subseteq Channel
    /\ Timer \in Caller
    /\ LoadFails \in BOOLEAN
    /\ MaxEvents \in Nat

Node == {NodeOf[p] : p \in Caller}

VARIABLES
    status,       \* the status of each channel in the database
    running,      \* testAllChannelsRunning of each node
    sweep,        \* where each caller's sweep is
    disabling,    \* channels that a goroutine is about to disable
    stuck,        \* history: nodes where GetAllChannels failed in a sweep
    events

vars == <<status, running, sweep, disabling, stuck, events>>

Status == {"enabled", "manually_disabled", "auto_disabled"}

Idle == [pc |-> "idle", seen |-> <<>>, at |-> 1, result |-> "ok"]

Init ==
    /\ status \in [Channel -> Status]
    /\ running = [n \in Node |-> FALSE]
    /\ sweep = [p \in Caller |-> Idle]
    /\ disabling = {}
    /\ stuck = {}
    /\ events = 0

-----------------------------------------------------------------------------
(* A sweep.                                                                *)

\* Mutant: the flag is not looked at.
StartUnchecked(p) ==
    /\ sweep[p].pc = "idle"
    /\ running' = [running EXCEPT ![NodeOf[p]] = TRUE]
    /\ sweep' = [sweep EXCEPT ![p].pc = "load"]
    /\ UNCHANGED <<status, disabling, stuck, events>>

\* The flag is tested and set under the lock; a caller that finds it set returns.
Start(p) ==
    /\ sweep[p].pc = "idle"
    /\ ~running[NodeOf[p]]
    /\ running' = [running EXCEPT ![NodeOf[p]] = TRUE]
    /\ sweep' = [sweep EXCEPT ![p].pc = "load"]
    /\ UNCHANGED <<status, disabling, stuck, events>>

\* GetAllChannels, then the goroutine of the sweep.
Load(p) ==
    /\ sweep[p].pc = "load"
    /\ sweep' = [sweep EXCEPT ![p] = [pc |-> "test", seen |-> status, at |-> 1, result |-> "ok"]]
    /\ UNCHANGED <<status, running, disabling, stuck, events>>

\* It fails: testAllChannels returns the error, before the defer that resets the flag.
LoadError(p) ==
    /\ LoadFails
    /\ sweep[p].pc = "load"
    /\ sweep' = [sweep EXCEPT ![p] = Idle]
    /\ stuck' = stuck \cup {NodeOf[p]}
    /\ UNCHANGED <<status, running, disabling, events>>

Current(p) == Order[sweep[p].at]

\* The deferred function of the sweep's goroutine.
End(p) ==
    /\ running' = [running EXCEPT ![NodeOf[p]] = FALSE]
    /\ sweep' = [sweep EXCEPT ![p] = Idle]

\* The next channel is tested, unless an administrator had disabled it.
Test(p) ==
    /\ sweep[p].pc = "test"
    /\ sweep[p].at <= Len(Order)
    /\ \/ /\ sweep[p].seen[Current(p)] = "manually_disabled"
          /\ sweep' = [sweep EXCEPT ![p].at = @ + 1]
       \/ /\ sweep[p].seen[Current(p)] # "manually_disabled"
          /\ \E result \in Outcome[Current(p)] :
                sweep' = [sweep EXCEPT ![p] = [@ EXCEPT !.pc = "decide", !.result = result]]
    /\ UNCHANGED <<status, running, disabling, stuck, events>>

ShouldBan(result) == result = "fatal"

\* Mutant: only a channel seen enabled is enabled.
ShouldEnableEnabled(result, seen) == seen = "enabled" /\ result \in {"ok", "unsupported"}

\* ShouldEnableChannel looks at newAPIError, which is nil after a test that passed and
\* also for a channel type that cannot be tested, whose error is a local one.
ShouldEnable(result, seen) == seen = "auto_disabled" /\ result \in {"ok", "unsupported"}

Seen(p) == sweep[p].seen[Current(p)]

\* Mutant: the index moves on by two.
DecideSkipsOne(p) ==
    LET c == Current(p)
        result == sweep[p].result
    IN  /\ sweep[p].pc = "decide"
        /\ ~(result = "unsupported" /\ ShouldEnable(result, Seen(p)))
        /\ disabling' = IF Seen(p) = "enabled" /\ ShouldBan(result) /\ c \in AutoBan
                        THEN disabling \cup {c} ELSE disabling
        /\ status' = IF ShouldEnable(result, Seen(p))
                     THEN [status EXCEPT ![c] = "enabled"] ELSE status
        /\ sweep' = [sweep EXCEPT ![p] = [@ EXCEPT !.pc = "test", !.at = sweep[p].at + 2]]
        /\ UNCHANGED <<running, stuck, events>>

\* What the sweep does about the outcome.
Decide(p) ==
    LET c == Current(p)
        result == sweep[p].result
    IN  /\ sweep[p].pc = "decide"
        /\ ~(result = "unsupported" /\ ShouldEnable(result, Seen(p)))
        /\ disabling' = IF Seen(p) = "enabled" /\ ShouldBan(result) /\ c \in AutoBan
                        THEN disabling \cup {c} ELSE disabling
        /\ status' = IF ShouldEnable(result, Seen(p))
                     THEN [status EXCEPT ![c] = "enabled"] ELSE status
        /\ sweep' = [sweep EXCEPT ![p] = [@ EXCEPT !.pc = "test", !.at = sweep[p].at + 1]]
        /\ UNCHANGED <<running, stuck, events>>

\* Mutant: the flag is reset at the end of the loop instead of by a defer.
PanicKeepsFlag(p) ==
    /\ sweep[p].pc = "decide"
    /\ sweep[p].result = "unsupported"
    /\ ShouldEnable(sweep[p].result, Seen(p))
    /\ sweep' = [sweep EXCEPT ![p] = Idle]
    /\ UNCHANGED <<status, running, disabling, stuck, events>>

\* The test of an unsupported type has no context, and to enable the channel reads a key
\* from the context: the goroutine panics, its pool recovers, the deferred function runs.
Panic(p) ==
    /\ sweep[p].pc = "decide"
    /\ sweep[p].result = "unsupported"
    /\ ShouldEnable(sweep[p].result, Seen(p))
    /\ End(p)
    /\ UNCHANGED <<status, disabling, stuck, events>>

\* Mutant: the loop looks for a channel after the last one.
FinishTooLate(p) ==
    /\ sweep[p].pc = "test"
    /\ sweep[p].at > Len(Order) + 1
    /\ End(p)
    /\ UNCHANGED <<status, disabling, stuck, events>>

Finish(p) ==
    /\ sweep[p].pc = "test"
    /\ sweep[p].at > Len(Order)
    /\ End(p)
    /\ UNCHANGED <<status, disabling, stuck, events>>

Sweep(p) ==
    Load(p) \/ LoadError(p) \/ Test(p) \/ Decide(p) \/ Panic(p) \/ Finish(p)

-----------------------------------------------------------------------------
(* Others that change a channel's status.                                  *)

\* DisableChannel, in its goroutine.
DisableChannel(c) ==
    /\ c \in disabling
    /\ disabling' = disabling \ {c}
    /\ status' = [status EXCEPT ![c] = "auto_disabled"]
    /\ UNCHANGED <<running, sweep, stuck, events>>

\* processChannelError of a relayed request that failed on the channel.
RequestFails(c) ==
    /\ events < MaxEvents
    /\ events' = events + 1
    /\ c \in AutoBan
    /\ "fatal" \in Outcome[c]
    /\ disabling' = disabling \cup {c}
    /\ UNCHANGED <<status, running, sweep, stuck>>

\* An administrator sets the status of a channel.
SetStatus(c, to) ==
    /\ events < MaxEvents
    /\ events' = events + 1
    /\ status' = [status EXCEPT ![c] = to]
    /\ UNCHANGED <<running, sweep, disabling, stuck>>

Next ==
    \/ \E p \in Caller : Start(p) \/ Sweep(p)
    \/ \E c \in Channel :
        \/ DisableChannel(c)
        \/ RequestFails(c)
        \/ \E to \in {"enabled", "manually_disabled"} : SetStatus(c, to)

Spec == Init /\ [][Next]_vars

\* Goroutines go on (a test ends in the end) and the master's timer keeps calling.
\* Administrators need not call.
FairSpec ==
    /\ Spec
    /\ \A p \in Caller : WF_vars(Sweep(p))
    /\ WF_vars(Start(Timer))
    /\ \A c \in Channel : WF_vars(DisableChannel(c))

-----------------------------------------------------------------------------
(* Properties.                                                             *)

TypeOK ==
    /\ status \in [Channel -> Status]
    /\ running \in [Node -> BOOLEAN]
    /\ disabling \subseteq Channel
    /\ stuck \subseteq Node
    /\ \A p \in Caller :
        /\ sweep[p].pc \in {"idle", "load", "test", "decide"}
        /\ sweep[p].at \in 1..Len(Order) + 1
        /\ sweep[p].pc = "decide" => sweep[p].at <= Len(Order)

\* A node's callers never sweep at the same time, however many call.
OneSweepAtATime ==
    \A p, q \in Caller :
        NodeOf[p] = NodeOf[q] /\ sweep[p].pc # "idle" /\ sweep[q].pc # "idle" => p = q

\* A set flag has its sweep under way, one that will reset it, panics included, unless
\* GetAllChannels has failed on the node.
FlagHasItsSweep ==
    \A n \in Node :
        running[n] => n \in stuck \/ \E p \in Caller : NodeOf[p] = n /\ sweep[p].pc # "idle"

\* No sweep lasts for ever, even one that panics.
SweepsEnd == \A p \in Caller : sweep[p].pc # "idle" ~> sweep[p].pc = "idle"

\* "被自动禁用的渠道在后续测试通过后自动重新启用", PRJ-LITE999-T-008-deploy-checklist.md:
\* an automatically disabled channel whose tests pass does not stay disabled, as long as the
\* timer's node can sweep.
AutoDisabledRecovers ==
    \A c \in Channel : Outcome[c] = {"ok"} =>
        (status[c] = "auto_disabled" ~> status[c] # "auto_disabled" \/ NodeOf[Timer] \in stuck)

\* "使用 defer 确保无论如何都会重置运行状态，防止死锁", testAllChannels: the flag is set only
\* while a sweep of the node is under way.
FlagIsReset ==
    \A n \in Node : running[n] => \E p \in Caller : NodeOf[p] = n /\ sweep[p].pc # "idle"
=============================================================================
