-------------------------- MODULE MCSlidingWindow --------------------------
(***************************************************************************)
(* Three buckets of two units: a record may come mid-bucket, so moves that *)
(* lose a fraction, moves of several buckets and a cleared ring all occur. *)
(***************************************************************************)
EXTENDS SlidingWindow

=============================================================================
