---------------------------- MODULE BreakerSpec ----------------------------
(***************************************************************************)
(* What a channel's breaker promises to those who read its state: the      *)
(* three-state machine drawn in                                            *)
(* docs/architecture/T-009-smart-fallback-strategy-design.md, with the     *)
(* time it must stay open and the probes it takes to close.  Nothing is    *)
(* said of what makes it open.                                             *)
(***************************************************************************)
EXTENDS Integers

CONSTANTS OpenDuration, Probes

VARIABLES
    clock,
    level,      \* the reported state
    since,      \* when it last opened
    passed      \* probes passed since it became half-open

vars == <<clock, level, since, passed>>

Init ==
    /\ clock = 0
    /\ level = "closed"
    /\ since = 0
    /\ passed = 0

\* Time may pass; a breaker that has been open long enough becomes half-open with it.
Wait ==
    /\ clock' = clock + 1
    /\ level' = IF level = "open" /\ clock' - since >= OpenDuration
                THEN "half_open" ELSE level
    /\ UNCHANGED <<since, passed>>

Trip ==
    /\ level \in {"closed", "half_open"}
    /\ level' = "open"
    /\ since' = clock
    /\ passed' = 0
    /\ UNCHANGED clock

ProbePasses ==
    /\ level = "half_open"
    /\ passed + 1 < Probes
    /\ passed' = passed + 1
    /\ UNCHANGED <<clock, level, since>>

LastProbePasses ==
    /\ level = "half_open"
    /\ passed + 1 = Probes
    /\ level' = "closed"
    /\ passed' = 0
    /\ UNCHANGED <<clock, since>>

Next == Wait \/ Trip \/ ProbePasses \/ LastProbePasses

Spec == Init /\ [][Next]_vars
=============================================================================
