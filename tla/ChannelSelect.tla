--------------------------- MODULE ChannelSelect ---------------------------
(***************************************************************************)
(* Which channel a retry is sent to: CacheGetRandomSatisfiedChannelSmart   *)
(* of backend/custom/model/channel_select.go.  A selection is the set of   *)
(* the channels it may return, empty when it returns an error: the         *)
(* weighted draw can return any candidate, as every weight is positive.    *)
(***************************************************************************)
EXTENDS Integers, Sequences

CONSTANTS
    Channel,              \* the channels of one group and model
    Priority,             \* [Channel -> Int]
    CacheOrder            \* the cached list: every channel once, highest priority first

ASSUME SelectAssumption ==
    /\ Priority \in [Channel -> Int]
    /\ CacheOrder \in Seq(Channel)
    /\ \A c \in Channel : \E i \in DOMAIN CacheOrder : CacheOrder[i] = c
    /\ \A i, j \in DOMAIN CacheOrder :
        i < j => /\ Priority[CacheOrder[i]] >= Priority[CacheOrder[j]]
                 /\ CacheOrder[i] # CacheOrder[j]

Position(c) == CHOOSE i \in DOMAIN CacheOrder : CacheOrder[i] = c

\* The channels with the highest priority among `channels`.
TopTier(channels) == {c \in channels : \A d \in channels : Priority[d] <= Priority[c]}

\* The first of `channels` in the cached list.
FirstOf(channels) == {c \in channels : \A d \in channels : Position(c) <= Position(d)}

\* Mutant: the health multiplier only weighs, and an open channel stays in the draw.
ViableWhateverHealth(channels, exclude, level) == channels \ exclude

\* The channels with a positive health multiplier that are not excluded.
Viable(channels, exclude, level) == {c \in channels \ exclude : level[c] # "open"}

\* Mutant: the first pass does not stop where the priority changes.
CandidatesOfAllTiers(cached, exclude, level) == Viable(cached, exclude, level)

\* The first pass stops where the priority changes; the second goes on to the end of
\* the list, so it mixes all lower priorities.
Candidates(cached, exclude, level) ==
    LET top == Viable(TopTier(cached), exclude, level)
    IN  IF top # {} THEN top ELSE Viable(cached \ TopTier(cached), exclude, level)

\* With no candidate the first channel not excluded is taken, whatever its health.
SelectFromCache(cached, exclude, level) ==
    LET candidates == Candidates(cached, exclude, level)
    IN  IF candidates # {} THEN candidates ELSE FirstOf(cached \ exclude)

\* Without the memory cache the database picks among the enabled channels of the
\* highest priority; it is told neither the exclusions nor the health.
SelectFromDatabase(enabled) == TopTier(enabled)

Select(memoryCacheEnabled, cached, enabled, exclude, level) ==
    IF memoryCacheEnabled
    THEN SelectFromCache(cached, exclude, level)
    ELSE SelectFromDatabase(enabled)
=============================================================================
