---------------------------- MODULE MCSmartRelay ----------------------------
(***************************************************************************)
(* Three channels, two of them in the top tier: a retry can stay in the    *)
(* tier, fall through it, or be a last resort.                             *)
(***************************************************************************)
EXTENDS SmartRelay, TLC

CONSTANTS a, b, c

Channels == {a, b, c}
Priorities == (a :> 1) @@ (b :> 1) @@ (c :> 0)
Order == <<a, b, c>>
=============================================================================
