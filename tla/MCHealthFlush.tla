--------------------------- MODULE MCHealthFlush ---------------------------
(***************************************************************************)
(* Two instances in one run: one node with two channels and two latencies, *)
(* and two nodes that write the rows of one channel, all latencies equal.  *)
(***************************************************************************)
EXTENDS HealthFlush, TLC

VARIABLE instance   \* what is in use

Symmetry == Permutations(Node) \cup Permutations(Channel)

OneNode ==
    {[nodes |-> {n}, channels |-> Channel, latencies |-> Latency, hours |-> 0..1] : n \in Node}
OneChannel ==
    {[nodes |-> Node, channels |-> {c}, latencies |-> {Min(Latency)}, hours |-> 0..MaxHour]
        : c \in Channel}

Within ==
    /\ \A n \in Node \ instance.nodes : cache[n] = Empty /\ flusher[n].pc = "sleep"
    /\ \A c \in Channel :
        /\ recorded[c].requests + recorded[c].disables > 0 => c \in instance.channels
        /\ recorded[c].latencies \subseteq instance.latencies
    /\ hour \in instance.hours

MCInit == Init /\ instance \in OneNode \cup OneChannel
MCNext == Next /\ UNCHANGED instance /\ Within'
MCSpec == MCInit /\ [][MCNext]_<<vars, instance>>
=============================================================================
