--------------------------- MODULE MCChannelTest ---------------------------
(***************************************************************************)
(* The master's timer and an administrator's call on one node, and an      *)
(* administrator's call on another.                                        *)
(***************************************************************************)
EXTENDS ChannelTest, TLC

CONSTANTS fine, flaky, untestable, timer, admin, other, n1, n2

ThreeChannels == {fine, flaky, untestable}
TwoChannels == {fine, untestable}
FineFirst == <<fine, flaky, untestable>>
UntestableFirst == <<untestable, fine>>
Callers == {timer, admin, other}
TwoNodes == (timer :> n1) @@ (admin :> n1) @@ (other :> n2)

\* A channel whose tests pass, one whose tests may end in any way, and one of a type
\* that has no test.
Outcomes ==
    (fine :> {"ok"}) @@ (flaky :> {"ok", "error", "fatal"}) @@ (untestable :> {"unsupported"})
OutcomesOfTwo == (fine :> {"ok"}) @@ (untestable :> {"unsupported"})
=============================================================================
