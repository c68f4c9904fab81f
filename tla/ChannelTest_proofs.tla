------------------------- MODULE ChannelTest_proofs -------------------------
(***************************************************************************)
(* The flag of a node is a lock on its sweeps, for any callers, channels   *)
(* and outcomes; and unless GetAllChannels has failed on a node, its flag  *)
(* is only set while a sweep is under way.                                 *)
(***************************************************************************)
EXTENDS ChannelTest, TLAPS

SweepType ==
    [pc : {"idle", "load", "test", "decide"},
     seen : [Channel -> Status] \cup {<<>>}, at : Nat \ {0}, result : Result]

\* A sweep under way keeps its node's flag set, and only one does.
LockInv ==
    /\ status \in [Channel -> Status]
    /\ running \in [Node -> BOOLEAN]
    /\ sweep \in [Caller -> SweepType]
    /\ \A p \in Caller : sweep[p].pc # "idle" => running[NodeOf[p]]
    /\ OneSweepAtATime

\* The node of a caller is a node.
LEMMA NodeOfCaller == \A p \in Caller : NodeOf[p] \in Node
BY DEF Node

\* A caller that only goes on, or stops, leaves the lock as it is for the others.
LEMMA GoesOn ==
    ASSUME LockInv, NEW p \in Caller, sweep[p].pc # "idle", NEW s \in SweepType,
           sweep' = [sweep EXCEPT ![p] = s], running' = running,
           status' \in [Channel -> Status]
    PROVE  LockInv'
<1>1. \A q \in Caller : sweep'[q] = IF q = p THEN s ELSE sweep[q]
  BY DEF LockInv
<1>2. sweep' \in [Caller -> SweepType]
  BY DEF LockInv
<1>3. \A q \in Caller : sweep'[q].pc # "idle" => sweep[q].pc # "idle"
  BY <1>1
<1> QED BY <1>2, <1>3 DEF LockInv, OneSweepAtATime

\* An idle caller has a well-formed record.
LEMMA IdleType == Idle \in SweepType /\ Idle.pc = "idle"
BY DEF Idle, SweepType, Result

\* A record of a sweep stays one when it goes on to the next channel or has a result.
LEMMA SweepRecords ==
    ASSUME NEW s \in SweepType
    PROVE  /\ [s EXCEPT !.at = s.at + 1] \in SweepType
           /\ [s EXCEPT !.pc = "test", !.at = s.at + 1] \in SweepType
           /\ \A result \in Result : [s EXCEPT !.pc = "decide", !.result = result] \in SweepType
<1>1. s.at + 1 \in Nat \ {0}
  BY DEF SweepType
<1>2. [s EXCEPT !.at = s.at + 1] \in SweepType
  BY <1>1 DEF SweepType
<1>3. [s EXCEPT !.pc = "test", !.at = s.at + 1] \in SweepType
  <2> DEFINE n == s.at + 1
  <2>1. n \in Nat \ {0}
    BY <1>1
  <2> HIDE DEF n
  <2>2. [s EXCEPT !.pc = "test", !.at = n] = [pc |-> "test", seen |-> s.seen, at |-> n, result |-> s.result]
    <3> SUFFICES ASSUME NEW x, x = [s EXCEPT !.pc = "test", !.at = n]
                 PROVE  x = [pc |-> "test", seen |-> s.seen, at |-> n, result |-> s.result]
      OBVIOUS
    <3> QED BY DEF SweepType
  <2>3. [pc |-> "test", seen |-> s.seen, at |-> n, result |-> s.result] \in SweepType
    BY <2>1 DEF SweepType
  <2> QED BY <2>2, <2>3 DEF n
<1>4. ASSUME NEW result \in Result
      PROVE  [s EXCEPT !.pc = "decide", !.result = result] \in SweepType
  BY DEF SweepType
<1> QED BY <1>2, <1>3, <1>4

\* A caller that ends resets the flag, which no other sweep of the node needs.
LEMMA Ends ==
    ASSUME LockInv, NEW p \in Caller, sweep[p].pc # "idle", End(p), status' \in [Channel -> Status]
    PROVE  LockInv'
<1>1. \A q \in Caller : sweep'[q] = IF q = p THEN Idle ELSE sweep[q]
  BY DEF LockInv, End
<1>2. sweep' \in [Caller -> SweepType]
  BY IdleType DEF LockInv, End
<1>3. \A n \in Node : running'[n] = IF n = NodeOf[p] THEN FALSE ELSE running[n]
  BY DEF LockInv, End
<1>4. running' \in [Node -> BOOLEAN]
  BY DEF LockInv, End
<1>5. ASSUME NEW q \in Caller, sweep'[q].pc # "idle"
      PROVE  q # p /\ sweep[q].pc # "idle" /\ running'[NodeOf[q]]
  <2>1. q # p /\ sweep[q].pc # "idle"
    BY <1>1, <1>5, IdleType
  <2>2. NodeOf[q] # NodeOf[p]
    BY <2>1 DEF LockInv, OneSweepAtATime
  <2>3. running[NodeOf[q]]
    BY <2>1 DEF LockInv
  <2> QED BY <2>1, <2>2, <2>3, <1>3, NodeOfCaller
<1> QED BY <1>2, <1>4, <1>5 DEF LockInv, OneSweepAtATime

\* A caller that starts found the flag reset, so the node had no sweep under way.
LEMMA Starts ==
    ASSUME LockInv, NEW p \in Caller, Start(p)
    PROVE  LockInv'
<1> DEFINE s == [sweep[p] EXCEPT !.pc = "load"]
<1>1. s \in SweepType /\ s.pc = "load"
  BY ZenonT(60) DEF LockInv, SweepType
<1>2. sweep' = [sweep EXCEPT ![p] = s]
  BY DEF Start
<1> HIDE DEF s
<1>3. \A q \in Caller : sweep'[q] = IF q = p THEN s ELSE sweep[q]
  BY <1>2 DEF LockInv
<1>4. sweep' \in [Caller -> SweepType]
  BY <1>1, <1>2 DEF LockInv
<1>5. \A n \in Node : running'[n] = IF n = NodeOf[p] THEN TRUE ELSE running[n]
  BY DEF LockInv, Start
<1>6. running' \in [Node -> BOOLEAN]
  BY DEF LockInv, Start
<1>7. ASSUME NEW q \in Caller, q # p, sweep'[q].pc # "idle"
      PROVE  running[NodeOf[q]] /\ NodeOf[q] # NodeOf[p] /\ sweep[q].pc # "idle"
  <2>1. sweep[q].pc # "idle"
    BY <1>3, <1>7
  <2> QED BY <2>1 DEF LockInv, Start
<1>8. \A q \in Caller : sweep'[q].pc # "idle" => running'[NodeOf[q]]
  BY <1>5, <1>7, NodeOfCaller
<1>9. OneSweepAtATime'
  <2>1. SUFFICES ASSUME NEW q \in Caller, NEW t \in Caller, NodeOf[q] = NodeOf[t],
                        sweep'[q].pc # "idle", sweep'[t].pc # "idle"
                 PROVE  q = t
    BY DEF OneSweepAtATime
  <2>2. CASE q = p \/ t = p
    BY <2>1, <2>2, <1>7
  <2>3. CASE q # p /\ t # p
    BY <2>1, <2>3, <1>7 DEF LockInv, OneSweepAtATime
  <2> QED BY <2>2, <2>3
<1>10. status' \in [Channel -> Status]
  BY DEF Start, LockInv
<1> QED BY <1>4, <1>6, <1>8, <1>9, <1>10 DEF LockInv

\* Initially nothing runs.
LEMMA LockInit == Init => LockInv
<1> SUFFICES ASSUME Init PROVE LockInv
  OBVIOUS
<1>1. \A p \in Caller : sweep[p] = Idle
  BY DEF Init
<1>2. sweep \in [Caller -> SweepType]
  BY IdleType DEF Init
<1> QED BY <1>1, <1>2, IdleType DEF Init, LockInv, OneSweepAtATime

\* The steps of a sweep under way.
LEMMA SweepKeepsLock ==
    ASSUME LockInv, NEW p \in Caller, Sweep(p)
    PROVE  LockInv'
<1> DEFINE s == sweep[p]
<1>0. s \in SweepType /\ sweep \in [Caller -> SweepType] /\ status \in [Channel -> Status]
  BY DEF LockInv
<1>1. CASE Load(p)
  <2> DEFINE t == [pc |-> "test", seen |-> status, at |-> 1, result |-> "ok"]
  <2>1. t \in SweepType
    BY <1>0 DEF SweepType, Result
  <2>2. sweep' = [sweep EXCEPT ![p] = t] /\ s.pc # "idle" /\ running' = running
        /\ status' = status
    BY <1>1 DEF Load
  <2> QED BY <1>0, <2>1, <2>2, GoesOn
<1>2. CASE LoadError(p)
  <2>1. sweep' = [sweep EXCEPT ![p] = Idle] /\ s.pc # "idle" /\ running' = running
        /\ status' = status
    BY <1>2 DEF LoadError
  <2> QED BY <1>0, <2>1, IdleType, GoesOn
<1>3. CASE Test(p)
  <2>1. CASE sweep' = [sweep EXCEPT ![p].at = @ + 1]
    <3> DEFINE t == [s EXCEPT !.at = s.at + 1]
    <3>1. t \in SweepType
      BY <1>0, SweepRecords
    <3>2. sweep' = [sweep EXCEPT ![p] = t] /\ s.pc # "idle" /\ running' = running
          /\ status' = status
      BY <1>3, <2>1 DEF Test
    <3> QED BY <1>0, <3>1, <3>2, GoesOn
  <2>2. CASE \E result \in Outcome[Current(p)] :
                sweep' = [sweep EXCEPT ![p] = [@ EXCEPT !.pc = "decide", !.result = result]]
    <3>1. PICK result \in Outcome[Current(p)] :
            sweep' = [sweep EXCEPT ![p] = [@ EXCEPT !.pc = "decide", !.result = result]]
      BY <2>2
    <3> DEFINE t == [s EXCEPT !.pc = "decide", !.result = result]
    <3>2. result \in Result
      <4>1. Outcome \in [Channel -> SUBSET Result] /\ Order \in Seq(Channel)
        BY TestAssumption DEF TestAssumption
      <4>2. s.at \in Nat \ {0} /\ s.at <= Len(Order)
        <5>1. s.at \in Nat \ {0}
          BY <1>0 DEF SweepType
        <5> QED BY <1>3, <5>1 DEF Test
      <4>3. Order[s.at] \in Channel
        BY <4>1, <4>2
      <4> QED BY <4>1, <4>3, <3>1 DEF Current
    <3>3. t \in SweepType
      BY <1>0, <3>2, SweepRecords
    <3>4. sweep' = [sweep EXCEPT ![p] = t] /\ s.pc # "idle" /\ running' = running
          /\ status' = status
      BY <1>0, <1>3, <3>1 DEF Test
    <3> QED BY <1>0, <3>3, <3>4, GoesOn
  <2> QED BY <1>3, <2>1, <2>2 DEF Test
<1>4. CASE Decide(p)
  <2> DEFINE t == [s EXCEPT !.pc = "test", !.at = s.at + 1]
  <2>1. t \in SweepType
    BY <1>0, SweepRecords
  <2>2. sweep' = [sweep EXCEPT ![p] = t] /\ s.pc # "idle" /\ running' = running
    BY <1>0, <1>4 DEF Decide
  <2>3. status' \in [Channel -> Status]
    BY <1>0, <1>4 DEF Decide, Status
  <2> QED BY <1>0, <2>1, <2>2, <2>3, GoesOn
<1>5. CASE Panic(p) \/ Finish(p)
  <2>1. End(p) /\ s.pc # "idle" /\ status' = status
    BY <1>5 DEF Panic, Finish
  <2> QED BY <1>0, <2>1, Ends
<1> QED BY <1>1, <1>2, <1>3, <1>4, <1>5 DEF Sweep

\* Every step keeps the lock.
LEMMA LockStep == LockInv /\ [Next]_vars => LockInv'
<1> SUFFICES ASSUME LockInv, [Next]_vars PROVE LockInv'
  OBVIOUS
<1>1. CASE \E p \in Caller : Start(p) \/ Sweep(p)
  BY <1>1, Starts, SweepKeepsLock
<1>2. ASSUME NEW c \in Channel,
             \/ DisableChannel(c)
             \/ RequestFails(c)
             \/ \E to \in {"enabled", "manually_disabled"} : SetStatus(c, to)
      PROVE  LockInv'
  <2>1. sweep' = sweep /\ running' = running
    BY <1>2 DEF DisableChannel, RequestFails, SetStatus
  <2>2. status' \in [Channel -> Status]
    BY <1>2 DEF DisableChannel, RequestFails, SetStatus, Status, LockInv
  <2> QED BY <2>1, <2>2 DEF LockInv, OneSweepAtATime
<1>3. CASE UNCHANGED vars
  BY <1>3 DEF vars, LockInv, OneSweepAtATime
<1> QED BY <1>1, <1>2, <1>3 DEF Next

\* The flag that testAllChannels tests and sets under the lock keeps a node's callers from
\* sweeping at the same time, whatever fails and whoever panics.
THEOREM SweepsExcludeEachOther == Spec => []OneSweepAtATime
<1>1. LockInv => OneSweepAtATime
  BY DEF LockInv
<1> QED BY <1>1, LockInit, LockStep, PTL DEF Spec

\* A step of a sweep leaves the flags and sweeps of others alone; it leaves its own sweep
\* under way, or resets its flag, or its node is stuck.
LEMMA SweepStepsFlag ==
    ASSUME LockInv, NEW p \in Caller, Start(p) \/ Sweep(p)
    PROVE  /\ \A q \in Caller \ {p} : sweep'[q] = sweep[q]
           /\ \A n \in Node : n # NodeOf[p] => running'[n] = running[n]
           /\ stuck \subseteq stuck'
           /\ sweep'[p].pc # "idle" \/ running'[NodeOf[p]] = FALSE \/ NodeOf[p] \in stuck'
<1> USE NodeOfCaller
<1>0. sweep \in [Caller -> SweepType] /\ running \in [Node -> BOOLEAN]
  BY DEF LockInv
<1>1. CASE Start(p)
  BY <1>0, <1>1 DEF Start, SweepType
<1>2. CASE Load(p)
  BY <1>0, <1>2 DEF Load, Idle
<1>3. CASE LoadError(p)
  BY <1>0, <1>3 DEF LoadError
<1>4. CASE Test(p)
  BY ZenonT(60), <1>0, <1>4 DEF Test, SweepType
<1>5. CASE Decide(p)
  BY <1>0, <1>5 DEF Decide, SweepType
<1>6. CASE Panic(p) \/ Finish(p)
  BY <1>0, <1>6 DEF Panic, Finish, End
<1> QED BY <1>1, <1>2, <1>3, <1>4, <1>5, <1>6 DEF Sweep

\* Every step keeps a set flag with its sweep.
LEMMA FlagStep == LockInv /\ FlagHasItsSweep /\ [Next]_vars => FlagHasItsSweep'
<1> SUFFICES ASSUME LockInv, FlagHasItsSweep, [Next]_vars,
                    NEW n \in Node, running'[n], n \notin stuck'
             PROVE  \E q \in Caller : NodeOf[q] = n /\ sweep'[q].pc # "idle"
  BY DEF FlagHasItsSweep
<1>1. ASSUME NEW p \in Caller, Start(p) \/ Sweep(p)
      PROVE  \E q \in Caller : NodeOf[q] = n /\ sweep'[q].pc # "idle"
  <2>1. CASE NodeOf[p] = n
    BY <1>1, <2>1, SweepStepsFlag
  <2>2. CASE NodeOf[p] # n
    <3>1. running[n] /\ n \notin stuck
      BY <1>1, <2>2, SweepStepsFlag
    <3>2. PICK q \in Caller : NodeOf[q] = n /\ sweep[q].pc # "idle"
      BY <3>1 DEF FlagHasItsSweep
    <3> QED BY <1>1, <2>2, <3>2, SweepStepsFlag
  <2> QED BY <2>1, <2>2
<1>2. CASE sweep' = sweep /\ running' = running /\ stuck' = stuck
  BY <1>2 DEF FlagHasItsSweep
<1>3. ASSUME NEW c \in Channel,
             \/ DisableChannel(c)
             \/ RequestFails(c)
             \/ \E to \in {"enabled", "manually_disabled"} : SetStatus(c, to)
      PROVE  sweep' = sweep /\ running' = running /\ stuck' = stuck
  BY <1>3 DEF DisableChannel, RequestFails, SetStatus
<1> QED BY <1>1, <1>2, <1>3 DEF Next, vars

\* The defer of the sweep's goroutine resets the flag however the sweep ends, a panic
\* included: only a failure of GetAllChannels leaves a flag set with no sweep.
THEOREM FlagIsResetOrStuck == Spec => []FlagHasItsSweep
<1>1. Init => FlagHasItsSweep
  BY DEF Init, FlagHasItsSweep
<1> QED BY <1>1, LockInit, LockStep, FlagStep, PTL DEF Spec
-----------------------------------------------------------------------------

\* A sweep stands at a channel of the list, or past its end between two tests.
InList(s) == s.at \in 1 .. Len(Order) + 1 /\ (s.pc = "decide" => s.at <= Len(Order))

\* What the types add to the lock.
ListInv ==
    /\ \A p \in Caller : InList(sweep[p])
    /\ disabling \subseteq Channel
    /\ stuck \subseteq Node

\* Every step of a sweep stays in the list, and it bans only channels of it.
LEMMA SweepStaysInList ==
    ASSUME LockInv, ListInv, NEW p \in Caller, Start(p) \/ Sweep(p)
    PROVE  ListInv'
<1>0. /\ Len(Order) \in Nat
      /\ \A i \in 1 .. Len(Order) : Order[i] \in Channel
  BY TestAssumption DEF TestAssumption
<1>1. \A q \in Caller \ {p} : sweep'[q] = sweep[q]
  BY SweepStepsFlag
<1>2. sweep \in [Caller -> SweepType] /\ InList(sweep[p]) /\ NodeOf[p] \in Node
  BY NodeOfCaller DEF LockInv, ListInv
<1>3. SUFFICES InList(sweep'[p]) /\ disabling' \subseteq Channel /\ stuck' \subseteq Node
  BY <1>1 DEF ListInv, InList
<1> USE <1>0, <1>2 DEF ListInv, InList
<1>4. CASE Start(p)
  BY <1>4 DEF Start, SweepType
<1>5. CASE Load(p)
  BY <1>5 DEF Load
<1>6. CASE LoadError(p)
  BY <1>6 DEF LoadError, Idle
<1>7. CASE Test(p)
  <2>1. sweep[p].at <= Len(Order) /\ disabling' = disabling /\ stuck' = stuck
    BY <1>7 DEF Test
  <2>2. CASE sweep' = [sweep EXCEPT ![p].at = @ + 1] /\ sweep[p].pc = "test"
    <3>1. sweep'[p].at = sweep[p].at + 1 /\ sweep'[p].pc = "test"
      BY <2>2 DEF SweepType
    <3> QED BY <2>1, <3>1
  <2>3. CASE \E result \in Outcome[Current(p)] :
                sweep' = [sweep EXCEPT ![p] = [@ EXCEPT !.pc = "decide", !.result = result]]
    <3>1. sweep'[p].at = sweep[p].at
      BY <2>3 DEF SweepType
    <3> QED BY <2>1, <3>1
  <2> QED BY <1>7, <2>2, <2>3 DEF Test
<1>8. CASE Decide(p)
  <2>1. sweep[p].at <= Len(Order) /\ stuck' = stuck
    BY <1>8 DEF Decide
  <2>2. sweep'[p].at = sweep[p].at + 1 /\ sweep'[p].pc = "test"
    BY <1>8 DEF Decide, SweepType
  <2>3. Current(p) \in Channel
    BY <2>1 DEF Current
  <2>4. disabling' \subseteq Channel
    BY <1>8, <2>3 DEF Decide
  <2> QED BY <2>1, <2>2, <2>4
<1>9. CASE Panic(p) \/ Finish(p)
  BY <1>9 DEF Panic, Finish, End, Idle
<1> QED BY <1>4, <1>5, <1>6, <1>7, <1>8, <1>9 DEF Sweep

\* So does every other step.
LEMMA ListStep == LockInv /\ ListInv /\ [Next]_vars => ListInv'
<1> SUFFICES ASSUME LockInv, ListInv, [Next]_vars PROVE ListInv'
  OBVIOUS
<1>1. CASE \E p \in Caller : Start(p) \/ Sweep(p)
  BY <1>1, SweepStaysInList
<1>2. ASSUME NEW c \in Channel,
             \/ DisableChannel(c)
             \/ RequestFails(c)
             \/ \E to \in {"enabled", "manually_disabled"} : SetStatus(c, to)
      PROVE  ListInv'
  BY <1>2 DEF DisableChannel, RequestFails, SetStatus, ListInv, InList
<1>3. CASE UNCHANGED vars
  BY <1>3 DEF vars, ListInv, InList
<1> QED BY <1>1, <1>2, <1>3 DEF Next

\* A sweep never looks past the list that testAllChannels read, and what it leaves to the
\* goroutines of DisableChannel are channels of it.
THEOREM SweepsTypeCorrect == Spec => []TypeOK
<1>1. Init => ListInv
  <2>1. Len(Order) \in Nat
    BY TestAssumption DEF TestAssumption
  <2> QED BY <2>1 DEF Init, Idle, ListInv, InList
<1>2. LockInv /\ ListInv => TypeOK
  BY DEF LockInv, ListInv, InList, TypeOK, SweepType
<1> QED BY <1>1, <1>2, LockInit, LockStep, ListStep, PTL DEF Spec
=============================================================================
