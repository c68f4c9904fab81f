--------------------------- MODULE Frontend_proofs ---------------------------
(***************************************************************************)
(* What the components of MCFrontend promise, for every value of their     *)
(* constants: the tables, the forms, the settings, the codes by e-mail,    *)
(* the session, the pages, the personal settings and the logs.  They share *)
(* no state; each has its invariant, and a theorem that follows from it.   *)
(* The packages have theirs in Packages_proofs.  The last section puts all *)
(* parts together.                                                         *)
(***************************************************************************)
EXTENDS MCFrontend, Packages_proofs, SetLemmas, SequenceTheorems, FiniteSetTheorems, TLAPS

-----------------------------------------------------------------------------
(* Tables: a request keeps the row it was started on.                      *)

IsSeq(s) == \E S : s \in Seq(S)

\* A later array begins as an earlier one does.
Extends(t, s) ==
    /\ IsSeq(t) /\ Len(s) <= Len(t)
    /\ \A i \in 1 .. Len(s) : t[i] = s[i]

ArraysInv ==
    /\ IsSeq(arrays) /\ rows \in 1 .. Len(arrays)
    /\ \A a \in 1 .. Len(arrays) : IsSeq(arrays[a])

\* Every array stays where it is, and only gets longer.
ArraysGrow ==
    /\ ArraysInv'
    /\ Len(arrays) <= Len(arrays')
    /\ \A a \in 1 .. Len(arrays) : Extends(arrays'[a], arrays[a])

IsRequest(r) ==
    r = [op |-> r.op, n |-> r.n, arr |-> r.arr, page |-> r.page, order |-> r.order,
         start |-> r.start, then |-> r.then, to |-> r.to, id |-> r.id, idx |-> r.idx,
         answer |-> r.answer]

\* A request names an array and a row of it, and a row deleted for it is deleted.
RequestInv(r) ==
    /\ IsRequest(r)
    /\ r.arr \in 1 .. Len(arrays) /\ r.start \in Nat /\ r.page \in Nat \ {0}
    /\ r.then # "stay" => r.to \in Nat \ {0}
    /\ r.answer.kind = "success" => IsSeq(r.answer.data)
    /\ r.op \in RowOp => /\ RealIdx(r) \in 1 .. Len(arrays[r.arr])
                         /\ arrays[r.arr][RealIdx(r)].id = r.id
    /\ r.op = "delete" /\ r.answer.kind = "success" => r.id \notin alive

TablesInv ==
    /\ ArraysInv
    /\ alive \subseteq Id /\ activePage \in Nat \ {0}
    /\ \A r \in requests : RequestInv(r)
    /\ HiddenRowsAreDeleted
    /\ SpinnersStop

LEMMA ExtendsItself == ASSUME NEW s, IsSeq(s) PROVE Extends(s, s)
BY DEF IsSeq, Extends

LEMMA ConcatExtends ==
    ASSUME NEW s, NEW t, IsSeq(s), IsSeq(t)
    PROVE  Extends(s \o t, s)
<1>1. PICK S : s \in Seq(S)
  BY DEF IsSeq
<1>2. PICK T : t \in Seq(T)
  BY DEF IsSeq
<1>3. s \in Seq(S \cup T) /\ t \in Seq(S \cup T)
  BY <1>1, <1>2
<1>4. /\ s \o t \in Seq(S \cup T) /\ Len(s) <= Len(s \o t)
      /\ \A i \in 1 .. Len(s) : (s \o t)[i] = s[i]
  BY <1>3
<1> QED BY <1>4 DEF IsSeq, Extends

LEMMA AppendExtends ==
    ASSUME NEW s, NEW x, IsSeq(s)
    PROVE  /\ IsSeq(Append(s, x)) /\ Len(Append(s, x)) = Len(s) + 1 /\ Len(s) \in Nat
           /\ \A i \in 1 .. Len(s) : Append(s, x)[i] = s[i]
           /\ Append(s, x)[Len(s) + 1] = x
<1>1. PICK S : s \in Seq(S)
  BY DEF IsSeq
<1>2. s \in Seq(S \cup {x})
  BY <1>1
<1>3. /\ Append(s, x) \in Seq(S \cup {x}) /\ Len(Append(s, x)) = Len(s) + 1 /\ Len(s) \in Nat
      /\ \A i \in 1 .. Len(s) : Append(s, x)[i] = s[i]
      /\ Append(s, x)[Len(s) + 1] = x
  BY <1>2
<1> QED BY <1>3 DEF IsSeq

LEMMA SubSeqIsSeq ==
    ASSUME NEW s, IsSeq(s), NEW m \in Nat \ {0}, NEW n \in Int, n <= Len(s)
    PROVE  IsSeq(SubSeq(s, m, n))
<1>1. PICK S : s \in Seq(S)
  BY DEF IsSeq
<1>2. SubSeq(s, m, n) \in Seq(S)
  BY <1>1
<1> QED BY <1>2 DEF IsSeq

LEMMA FunctionIsSeq ==
    ASSUME NEW n \in Nat, NEW f, f = [i \in 1 .. n |-> f[i]]
    PROVE  IsSeq(f)
<1>1. f \in Seq({f[i] : i \in 1 .. n})
  OBVIOUS
<1> QED BY <1>1 DEF IsSeq

LEMMA ArraysAreKept ==
    ASSUME ArraysInv, UNCHANGED <<arrays, rows>>
    PROVE  ArraysGrow
BY ExtendsItself DEF ArraysGrow, ArraysInv, IsSeq

LEMMA InstallGrows ==
    ASSUME ArraysInv, NEW array, IsSeq(array), Install(array)
    PROVE  ArraysGrow
<1>1. /\ IsSeq(arrays') /\ Len(arrays') = Len(arrays) + 1 /\ Len(arrays) \in Nat
      /\ \A a \in 1 .. Len(arrays) : arrays'[a] = arrays[a]
      /\ arrays'[Len(arrays) + 1] = array /\ rows' = Len(arrays) + 1
  BY AppendExtends DEF ArraysInv, Install
<1>2. \A a \in 1 .. Len(arrays') : IsSeq(arrays'[a])
  BY <1>1 DEF ArraysInv
<1>3. \A a \in 1 .. Len(arrays) : Extends(arrays'[a], arrays[a])
  BY <1>1, ExtendsItself DEF ArraysInv
<1>4. ArraysInv'
  BY <1>1, <1>2 DEF ArraysInv
<1> QED BY <1>1, <1>3, <1>4 DEF ArraysGrow

LEMMA ListIsSeq ==
    ASSUME TablesAssumption, NEW order, NEW ids, ids \subseteq Id
    PROVE  IsSeq(ListBy(order, ids))
<1>1. Cardinality(ids) \in Nat
  BY FS_Subset, FS_CardinalityType DEF TablesAssumption
<1>2. PICK n \in Nat : n = Cardinality(ids)
  BY <1>1
<1>3. PICK f : f = ListBy(order, ids)
  OBVIOUS
<1> DEFINE Ranked(k) ==
               CHOOSE x \in ids :
                   Cardinality({y \in ids : IF order = "" THEN y > x ELSE y < x}) = k - 1
<1>4. f = [k \in 1 .. n |-> Ranked(k)]
  BY <1>2, <1>3, Zenon DEF ListBy
<1> HIDE DEF Ranked
<1>5. f = [k \in 1 .. n |-> f[k]]
  BY <1>4
<1> QED BY <1>3, <1>5, FunctionIsSeq

LEMMA AnswerDataIsSeq ==
    ASSUME TablesAssumption, NEW r, r.start \in Nat, alive \subseteq Id
    PROVE  IsSeq(AnswerData(r))
<1>1. CASE r.op = "load"
  <2> DEFINE all == ListBy(r.order, alive)
             first == r.start * PageSize + 1
             last == Min({Len(all), (r.start + 1) * PageSize})
  <2>1. IsSeq(all)
    BY ListIsSeq
  <2>2. first \in Nat \ {0} /\ (r.start + 1) * PageSize \in Int
    BY DEF TablesAssumption
  <2>3. Len(all) \in Nat
    BY <2>1 DEF IsSeq
  <2>4. last \in Int /\ last <= Len(all)
    BY <2>2, <2>3 DEF Min
  <2>5. AnswerData(r) = SubSeq(all, first, last)
    BY <1>1 DEF AnswerData
  <2> HIDE DEF all, first, last
  <2> QED BY <2>1, <2>2, <2>4, <2>5, SubSeqIsSeq
<1>2. CASE r.op = "search"
  <2>1. AnswerData(r) = ListBy("", alive \cap Match)
    BY <1>2 DEF AnswerData
  <2>2. alive \cap Match \subseteq Id
    OBVIOUS
  <2> QED BY <2>1, <2>2, ListIsSeq
<1>3. CASE r.op \notin {"load", "search"}
  <2>1. AnswerData(r) = <<>>
    BY <1>3 DEF AnswerData
  <2>2. <<>> \in Seq({})
    OBVIOUS
  <2> QED BY <2>1, <2>2 DEF IsSeq
<1> QED BY <1>1, <1>2, <1>3

LEMMA FreshIsSeq ==
    ASSUME NEW r, IsSeq(r.answer.data)
    PROVE  IsSeq(Fresh(r)) /\ Len(r.answer.data) \in Nat
<1>1. PICK n \in Nat : DOMAIN r.answer.data = 1 .. n /\ Len(r.answer.data) = n
  BY DEF IsSeq
<1>2. PICK f : f = Fresh(r)
  OBVIOUS
<1>3. f = [i \in 1 .. n |-> f[i]]
  BY <1>1, <1>2 DEF Fresh
<1> QED BY <1>1, <1>2, <1>3, FunctionIsSeq

LEMMA SpliceIsSeq ==
    ASSUME NEW a, IsSeq(a), NEW start \in Nat, NEW n \in Nat, NEW items, IsSeq(items)
    PROVE  IsSeq(Splice(a, start, n, items))
<1> DEFINE head == SubSeq(a, 1, Min({start, Len(a)}))
           tail == SubSeq(a, start + n + 1, Len(a))
<1>1. Len(a) \in Nat
  BY DEF IsSeq
<1>2. Min({start, Len(a)}) \in Int /\ Min({start, Len(a)}) <= Len(a)
  BY <1>1 DEF Min
<1>3. IsSeq(head)
  BY <1>2, SubSeqIsSeq
<1>4. IsSeq(tail)
  BY <1>1, SubSeqIsSeq
<1>5. Splice(a, start, n, items) = head \o items \o tail
  BY DEF Splice
<1> HIDE DEF head, tail
<1>6. IsSeq(head \o items)
  BY <1>3, ConcatExtends DEF Extends
<1> QED BY <1>4, <1>5, <1>6, ConcatExtends DEF Extends

LEMMA LoadGrows ==
    ASSUME TablesAssumption, ArraysInv, NEW r, RequestInv(r), r.answer.kind = "success",
           LoadPush(r) \/ LoadSplice(r)
    PROVE  ArraysGrow
<1>1. /\ IsSeq(Fresh(r)) /\ Len(r.answer.data) \in Nat /\ r.start \in Nat
      /\ r.arr \in 1 .. Len(arrays) /\ IsSeq(arrays[r.arr])
  BY FreshIsSeq DEF RequestInv, ArraysInv
<1>2. CASE Install(Fresh(r))
  BY <1>1, <1>2, InstallGrows
<1>3. CASE LoadPush(r) /\ r.start # 0
  <2>1. arrays' = [arrays EXCEPT ![r.arr] = @ \o Fresh(r)] /\ rows' = r.arr
    BY <1>3 DEF LoadPush
  <2>2. PICK S : arrays \in Seq(S)
    BY DEF ArraysInv, IsSeq
  <2>3. PICK longer : longer = arrays[r.arr] \o Fresh(r)
    OBVIOUS
  <2>4. Extends(longer, arrays[r.arr])
    BY <1>1, <2>3, ConcatExtends
  <2>5. arrays' = [arrays EXCEPT ![r.arr] = longer]
    BY <2>1, <2>3
  <2>6. arrays \in Seq(S \cup {longer}) /\ longer \in S \cup {longer}
    BY <2>2
  <2>7. /\ arrays' \in Seq(S \cup {longer}) /\ Len(arrays') = Len(arrays)
        /\ \A a \in 1 .. Len(arrays) :
               arrays'[a] = IF a = r.arr THEN longer ELSE arrays[a]
    BY <1>1, <2>5, <2>6
  <2>8. \A a \in 1 .. Len(arrays) : Extends(arrays'[a], arrays[a])
    BY <2>4, <2>7, ExtendsItself DEF ArraysInv
  <2>9. ArraysInv'
    BY <1>1, <2>1, <2>7, <2>8 DEF ArraysInv, Extends, IsSeq
  <2>10. Len(arrays) <= Len(arrays')
    BY <2>2, <2>7
  <2> QED BY <2>8, <2>9, <2>10 DEF ArraysGrow
<1>4. CASE LoadSplice(r) /\ r.start # 0
  <2>1. r.start * PageSize \in Nat
    BY <1>1 DEF TablesAssumption
  <2>2. IsSeq(Splice(arrays[r.arr], r.start * PageSize, Len(r.answer.data), Fresh(r)))
    BY <1>1, <2>1, SpliceIsSeq
  <2> QED BY <1>4, <2>2, InstallGrows DEF LoadSplice
<1> QED BY <1>2, <1>3, <1>4 DEF LoadPush, LoadSplice

LEMMA ReverseIsSeq == ASSUME NEW s, IsSeq(s) PROVE IsSeq(Reverse(s))
<1>1. PICK S : s \in Seq(S)
  BY DEF IsSeq
<1>2. Reverse(s) \in Seq(S)
  BY <1>1 DEF Reverse
<1> QED BY <1>2 DEF IsSeq

LEMMA SortGrows ==
    ASSUME ArraysInv, Sort
    PROVE  ArraysGrow
<1>1. PICK key : /\ arrays' = Append(arrays, IF SortedBy(key)[1].id = Shown[1].id
                                             THEN Reverse(SortedBy(key)) ELSE SortedBy(key))
                 /\ rows' = Len(arrays) + 1
  BY DEF Sort
<1>2. IsSeq(Shown)
  BY DEF Shown, ArraysInv
<1>3. PICK n \in Nat : DOMAIN Shown = 1 .. n
  BY <1>2 DEF IsSeq
<1>4. PICK sorted : sorted = SortedBy(key)
  OBVIOUS
<1>5. sorted = [k \in 1 .. n |-> sorted[k]]
  BY <1>3, <1>4 DEF SortedBy
<1>6. IsSeq(sorted) /\ IsSeq(Reverse(sorted))
  BY <1>5, FunctionIsSeq, ReverseIsSeq
<1>7. PICK array : array = IF SortedBy(key)[1].id = Shown[1].id
                           THEN Reverse(SortedBy(key)) ELSE SortedBy(key)
  OBVIOUS
<1>8. IsSeq(array) /\ Install(array)
  BY <1>1, <1>4, <1>6, <1>7 DEF Install
<1> QED BY <1>8, InstallGrows

LEMMA RequestKept ==
    ASSUME ArraysInv, ArraysGrow, alive' \subseteq alive, NEW r, RequestInv(r)
    PROVE  RequestInv(r)'
<1>1. r.arr \in 1 .. Len(arrays') /\ Extends(arrays'[r.arr], arrays[r.arr])
  BY DEF RequestInv, ArraysInv, ArraysGrow, IsSeq
<1>2. Len(arrays[r.arr]) \in Nat /\ Len(arrays'[r.arr]) \in Nat
  BY SMTT(60), <1>1 DEF RequestInv, ArraysInv, Extends, IsSeq
<1>3. \A i \in 1 .. Len(arrays[r.arr]) :
          i \in 1 .. Len(arrays'[r.arr]) /\ arrays'[r.arr][i] = arrays[r.arr][i]
  BY <1>1, <1>2 DEF Extends
<1> QED BY <1>1, <1>3 DEF RequestInv, IsRequest, RealIdx

\* A step keeps the invariant if the requests it adds do.
LEMMA StepInv ==
    ASSUME TablesInv, ArraysGrow, alive' \subseteq alive, activePage' \in Nat \ {0},
           \A r \in requests' : r \in requests \/ RequestInv(r)',
           HiddenRowsAreDeleted', SpinnersStop'
    PROVE  TablesInv'
<1>1. \A r \in requests' : RequestInv(r)'
  BY RequestKept DEF TablesInv
<1> QED BY <1>1 DEF TablesInv, ArraysGrow

\* What a handler asks for has not been answered, and is of a row that is shown.
MayBeSent(r) ==
    /\ IsRequest(r) /\ r.answer = NoAnswer /\ r.arr = rows
    /\ r.page \in Nat \ {0} /\ r.start \in Nat
    /\ r.then = "stay" \/ r.to \in Nat \ {0}
    /\ r.op \in RowOp => RealIdx(r) \in DOMAIN Shown /\ Shown[RealIdx(r)].id = r.id

LEMMA SendInv ==
    ASSUME TablesInv, NEW r, Send(r), MayBeSent(r), activePage' \in Nat \ {0},
           loading' => loading \/ r.op = "load", searching' => searching \/ r.op = "search"
    PROVE  TablesInv'
<1>1. /\ requests' = requests \cup {r}
      /\ UNCHANGED <<alive, arrays, rows, hidden, broken>>
  BY DEF Send
<1>2. ArraysGrow
  BY <1>1, ArraysAreKept DEF TablesInv
<1>3. DOMAIN Shown = 1 .. Len(arrays[rows]) /\ Shown = arrays[rows]
  BY DEF TablesInv, ArraysInv, Shown, IsSeq
<1>4. RequestInv(r)
  BY <1>3 DEF RequestInv, TablesInv, ArraysInv, NoAnswer, MayBeSent
<1>5. RequestInv(r)'
  BY <1>1, <1>2, <1>4, RequestKept DEF TablesInv
<1>6. HiddenRowsAreDeleted'
  BY <1>1 DEF TablesInv, HiddenRowsAreDeleted
<1>7. SpinnersStop'
  BY <1>1 DEF TablesInv, SpinnersStop
<1> QED BY <1>1, <1>2, <1>5, <1>6, <1>7, StepInv

LEMMA RequestFields ==
    ASSUME TablesInv, NEW op, NEW r, r = Request(op)
    PROVE  r.op = op /\ (op \notin RowOp => MayBeSent(r))
BY DEF Request, IsRequest, TablesInv, MayBeSent

LEMMA ChangePageInv == ASSUME TablesAssumption, TablesInv, ChangePage PROVE TablesInv'
<1>1. Len(Shown) \in Nat
  BY DEF TablesInv, ArraysInv, Shown, IsSeq
<1>2. TotalPages \in Int
  BY <1>1 DEF TotalPages, Pages, TablesAssumption
<1>3. PICK p \in 1 .. TotalPages :
        IF p = Pages(Len(Shown)) + 1
        THEN /\ Send([Request("load") EXCEPT !.start = p - 1, !.then = "page", !.to = p])
             /\ UNCHANGED <<activePage, orderBy, loading, searching>>
        ELSE /\ activePage' = p
             /\ UNCHANGED <<table, alive, disabled, arrays, rows, hidden, off, orderBy,
                            loading, searching, requests, sent, broken>>
  BY DEF ChangePage
<1>4. p \in Nat \ {0} /\ p - 1 \in Nat
  BY <1>2, <1>3
<1>5. CASE p = Pages(Len(Shown)) + 1
  <2>1. PICK r : r = [Request("load") EXCEPT !.start = p - 1, !.then = "page", !.to = p]
    OBVIOUS
  <2>2. MayBeSent(r)
    BY <1>4, <2>1 DEF Request, IsRequest, MayBeSent, TablesInv, RowOp
  <2>3. Send(r) /\ UNCHANGED <<activePage, orderBy, loading, searching>>
    BY <1>3, <1>5, <2>1
  <2> QED BY <2>2, <2>3, SendInv DEF TablesInv
<1>6. CASE p # Pages(Len(Shown)) + 1
  <2>1. /\ activePage' \in Nat \ {0}
        /\ UNCHANGED <<alive, arrays, rows, hidden, loading, searching, requests, broken>>
    BY <1>3, <1>4, <1>6
  <2>2. ArraysGrow
    BY <2>1, ArraysAreKept DEF TablesInv
  <2>3. HiddenRowsAreDeleted' /\ SpinnersStop'
    BY <2>1 DEF TablesInv, HiddenRowsAreDeleted, SpinnersStop
  <2> QED BY <2>1, <2>2, <2>3, StepInv
<1> QED BY <1>5, <1>6

LEMMA RefreshTablesInv == ASSUME TablesInv, Refresh PROVE TablesInv'
<1> USE DEF RowOp
<1>1. UNCHANGED searching /\ activePage \in Nat \ {0} /\ activePage - 1 \in Nat
  BY DEF Refresh, TablesInv
<1>2. CASE /\ Send([Request("load") EXCEPT !.start = activePage - 1])
           /\ UNCHANGED activePage
  <2>1. PICK r : r = [Request("load") EXCEPT !.start = activePage - 1]
    OBVIOUS
  <2>2. 1 \in Nat \ {0} /\ 0 \in Nat
    OBVIOUS
  <2>3. MayBeSent(r) /\ r.op = "load"
    BY <1>1, <2>1, <2>2 DEF Request, IsRequest, MayBeSent
  <2> QED BY <1>1, <1>2, <2>1, <2>3, SendInv
<1>3. CASE /\ Send([Request("load") EXCEPT !.then = "page", !.to = 1])
           /\ UNCHANGED activePage
  <2>1. PICK r : r = [Request("load") EXCEPT !.then = "page", !.to = 1]
    OBVIOUS
  <2>2. 1 \in Nat \ {0} /\ 0 \in Nat
    OBVIOUS
  <2>3. MayBeSent(r) /\ r.op = "load"
    BY <1>1, <2>1, <2>2 DEF Request, IsRequest, MayBeSent
  <2> QED BY <1>1, <1>3, <2>1, <2>3, SendInv
<1>4. CASE Send(Request("load")) /\ activePage' = 1
  <2>1. PICK r : r = Request("load")
    OBVIOUS
  <2> QED BY <1>1, <1>4, <2>1, RequestFields, SendInv
<1> QED BY <1>2, <1>3, <1>4 DEF Refresh

LEMMA SearchInv ==
    ASSUME TablesInv, searchChannels \/ searchTokens \/ searchUsers \/ searchRedemptions
    PROVE  TablesInv'
<1> USE DEF RowOp
<1>1. activePage \in Nat \ {0}
  BY DEF TablesInv
<1>2. ASSUME NEW then, ReloadAll(then) PROVE TablesInv'
  <2>1. PICK r : r = [Request("load") EXCEPT !.then = then, !.to = 1]
    OBVIOUS
  <2>2. 1 \in Nat \ {0} /\ 0 \in Nat
    OBVIOUS
  <2>3. MayBeSent(r) /\ r.op = "load"
    BY <1>1, <2>1, <2>2 DEF Request, IsRequest, MayBeSent
  <2> QED BY <1>1, <1>2, <2>1, <2>3, SendInv DEF ReloadAll
<1>3. CASE LookUp
  <2>1. PICK r : r = Request("search")
    OBVIOUS
  <2> QED BY <1>1, <1>3, <2>1, RequestFields, SendInv DEF LookUp
<1> QED BY <1>2, <1>3 DEF searchChannels, searchTokens, searchUsers, searchRedemptions

LEMMA ManageInv == ASSUME TablesInv, Manage PROVE TablesInv'
<1>1. PICK idx \in OnPage :
          \E op \in Buttons(Shown[(activePage - 1) * PageSize + idx]) :
              Send([Request(op) EXCEPT !.id = Shown[(activePage - 1) * PageSize + idx].id,
                                       !.idx = idx])
  BY DEF Manage
<1>2. PICK i : i = (activePage - 1) * PageSize + idx
  OBVIOUS
<1>3. PICK op : Send([Request(op) EXCEPT !.id = Shown[i].id, !.idx = idx])
  BY <1>1, <1>2
<1>4. PICK r : r = [Request(op) EXCEPT !.id = Shown[i].id, !.idx = idx]
  OBVIOUS
<1>5. UNCHANGED <<activePage, loading, searching>> /\ activePage \in Nat \ {0}
  BY DEF Manage, TablesInv
<1>6. /\ IsRequest(r) /\ r.arr = rows /\ r.page = activePage /\ r.start = 0 /\ r.then = "stay"
      /\ r.id = Shown[i].id /\ r.idx = idx /\ r.answer = NoAnswer
  BY <1>4 DEF Request, IsRequest
<1>7. RealIdx(r) = i /\ i \in DOMAIN Shown
  BY <1>2, <1>6 DEF RealIdx, OnPage
<1>8. MayBeSent(r)
  BY <1>5, <1>6, <1>7 DEF MayBeSent
<1> QED BY <1>3, <1>4, <1>5, <1>8, SendInv

LEMMA DeleteAllInv == ASSUME TablesInv, DeleteAllDisabled PROVE TablesInv'
<1>1. PICK r : r = Request("deleteDisabled")
  OBVIOUS
<1>2. Send(r) /\ UNCHANGED <<activePage, loading, searching>> /\ activePage \in Nat \ {0}
  BY <1>1 DEF DeleteAllDisabled, TablesInv
<1> QED BY <1>1, <1>2, RequestFields, SendInv DEF RowOp

LEMMA ChangeOrderInv == ASSUME TablesInv, ChangeOrder PROVE TablesInv'
<1>1. PICK o : Send([Request("load") EXCEPT !.order = o, !.page = 1])
  BY DEF ChangeOrder
<1>2. PICK r : r = [Request("load") EXCEPT !.order = o, !.page = 1]
  OBVIOUS
<1>3. MayBeSent(r) /\ r.op = "load"
  <2>1. 1 \in Nat \ {0} /\ 0 \in Nat
    OBVIOUS
  <2> QED BY <1>2, <2>1 DEF Request, IsRequest, MayBeSent, RowOp
<1>4. UNCHANGED searching /\ activePage' \in Nat \ {0}
  BY DEF ChangeOrder
<1> QED BY <1>1, <1>2, <1>3, <1>4, SendInv

LEMMA SortInv == ASSUME TablesInv, Sort PROVE TablesInv'
<1>1. /\ ~loading' /\ activePage' \in Nat \ {0}
      /\ UNCHANGED <<alive, hidden, searching, requests, broken>>
  BY DEF Sort, TablesInv
<1>2. ArraysGrow
  BY SortGrows DEF TablesInv
<1>3. HiddenRowsAreDeleted' /\ SpinnersStop'
  BY <1>1 DEF TablesInv, HiddenRowsAreDeleted, SpinnersStop
<1> QED BY <1>1, <1>2, <1>3, StepInv

LEMMA AnswerInv ==
    ASSUME TablesAssumption, TablesInv, NEW r \in requests, Answer(r)
    PROVE  TablesInv'
<1>1. PICK success \in BOOLEAN :
        /\ alive' = IF success /\ r.op = "delete" THEN alive \ {r.id}
                    ELSE IF success /\ r.op = "deleteDisabled" THEN alive \ disabled
                    ELSE alive
        /\ requests' = (requests \ {r}) \cup
              {[r EXCEPT !.answer = [kind |-> IF success THEN "success" ELSE "failure",
                                     data |-> IF success THEN AnswerData(r) ELSE <<>>,
                                     off |-> disabled']]}
  BY DEF Answer
<1>2. UNCHANGED <<arrays, rows, hidden, activePage, loading, searching, broken>>
  BY DEF Answer
<1>3. PICK answer : answer = [kind |-> IF success THEN "success" ELSE "failure",
                              data |-> IF success THEN AnswerData(r) ELSE <<>>,
                              off |-> disabled']
  OBVIOUS
<1>4. PICK new : new = [r EXCEPT !.answer = answer]
  OBVIOUS
<1>5. RequestInv(r) /\ alive \subseteq Id /\ activePage \in Nat \ {0}
  BY DEF TablesInv
<1>6. /\ IsRequest(new) /\ new.answer = answer
      /\ new.op = r.op /\ new.arr = r.arr /\ new.page = r.page /\ new.start = r.start
      /\ new.then = r.then /\ new.to = r.to /\ new.id = r.id /\ new.idx = r.idx
  BY <1>4, <1>5 DEF RequestInv, IsRequest
<1>7. answer.kind = "success" => success /\ IsSeq(answer.data)
  BY <1>3, <1>5, AnswerDataIsSeq DEF RequestInv
<1>8. alive' \subseteq alive /\ (success /\ r.op = "delete" => r.id \notin alive')
  BY <1>1
<1>9. ArraysGrow
  BY <1>2, ArraysAreKept DEF TablesInv
<1>10. RequestInv(new)'
  BY <1>2, <1>5, <1>6, <1>7, <1>8 DEF RequestInv, RealIdx, IsRequest
<1>11. requests' = (requests \ {r}) \cup {new}
  BY <1>1, <1>3, <1>4
<1>12. HiddenRowsAreDeleted'
  BY <1>2, <1>8 DEF TablesInv, HiddenRowsAreDeleted
<1>13. SpinnersStop'
  BY <1>2, <1>6, <1>11 DEF TablesInv, SpinnersStop
<1> QED BY <1>2, <1>5, <1>8, <1>9, <1>10, <1>11, <1>12, <1>13, StepInv

LEMMA LoadedInv ==
    ASSUME TablesAssumption, TablesInv, NEW r \in requests, Loaded(r)
    PROVE  TablesInv'
<1>1. /\ r.op = "load" /\ ~loading' /\ RequestInv(r)
      /\ UNCHANGED <<alive, hidden, searching, broken>>
      /\ activePage' = IF r.then = "stay" THEN activePage ELSE r.to
  BY DEF Loaded, TablesInv
<1>2. ArraysGrow
  <2>1. CASE r.answer.kind = "success" /\ (LoadPush(r) \/ LoadSplice(r))
    BY <1>1, <2>1, LoadGrows DEF TablesInv
  <2>2. CASE UNCHANGED <<arrays, rows>>
    BY <2>2, ArraysAreKept DEF TablesInv
  <2> QED BY <2>1, <2>2
          DEF Loaded, loadChannels, loadTokens, loadLogs, loadUsers, loadRedemptions
<1>3. activePage' \in Nat \ {0}
  BY <1>1 DEF RequestInv, TablesInv
<1>4. HiddenRowsAreDeleted'
  BY <1>1 DEF TablesInv, HiddenRowsAreDeleted
<1>5. CASE requests' = requests \ {r}
  <2>1. SpinnersStop'
    BY <1>1, <1>5 DEF TablesInv, SpinnersStop
  <2> QED BY <1>1, <1>2, <1>3, <1>4, <1>5, <2>1, StepInv
<1>6. CASE requests' = (requests \ {r}) \cup
                           {[Request("load") EXCEPT !.arr = rows', !.page = 1, !.order = ""]}
  <2>1. PICK new : new = [Request("load") EXCEPT !.arr = rows', !.page = 1, !.order = ""]
    OBVIOUS
  <2>2. /\ IsRequest(new) /\ new.op = "load" /\ new.arr = rows' /\ new.page = 1
        /\ new.start = 0 /\ new.then = "stay" /\ new.answer = NoAnswer
    BY <2>1 DEF Request, IsRequest
  <2>3. /\ 1 \in Nat \ {0} /\ 0 \in Nat /\ NoAnswer.kind # "success"
        /\ rows' \in 1 .. Len(arrays')
    BY <1>2 DEF ArraysGrow, ArraysInv, NoAnswer
  <2>4. RequestInv(new)'
    BY <2>2, <2>3 DEF RequestInv, RowOp, IsRequest
  <2>5. SpinnersStop'
    BY <1>1, <1>6 DEF TablesInv, SpinnersStop
  <2> QED BY <1>1, <1>2, <1>3, <1>4, <1>6, <2>1, <2>4, <2>5, StepInv
<1> QED BY <1>5, <1>6 DEF Loaded

LEMMA SearchedInv ==
    ASSUME TablesInv, NEW r \in requests, Searched(r)
    PROVE  TablesInv'
<1>1. /\ r.op = "search" /\ ~searching' /\ RequestInv(r) /\ requests' = requests \ {r}
      /\ UNCHANGED <<alive, hidden, loading, broken>>
  BY DEF Searched, TablesInv
<1>2. ArraysGrow
  <2>1. CASE r.answer.kind = "success" /\ Install(Fresh(r))
    BY <1>1, <2>1, FreshIsSeq, InstallGrows DEF TablesInv, RequestInv
  <2>2. CASE UNCHANGED <<arrays, rows>>
    BY <2>2, ArraysAreKept DEF TablesInv
  <2> QED BY <2>1, <2>2 DEF Searched
<1>3. activePage' \in Nat \ {0}
  BY DEF Searched, TablesInv
<1>4. HiddenRowsAreDeleted'
  BY <1>1 DEF TablesInv, HiddenRowsAreDeleted
<1>5. SpinnersStop'
  BY <1>1 DEF TablesInv, SpinnersStop
<1> QED BY <1>1, <1>2, <1>3, <1>4, <1>5, StepInv

\* A response to an operation on a row, which the backend has deleted if it is marked so.
LEMMA ManagedInv ==
    ASSUME TablesInv, NEW r \in requests, Managed(r) \/ Tested(r)
    PROVE  TablesInv'
<1>1. /\ r.op \in RowOp /\ RequestInv(r) /\ requests' = requests \ {r}
      /\ UNCHANGED <<alive, activePage, loading, searching, broken>>
  BY DEF Managed, Tested, TablesInv, RowOp
<1>2. /\ r.arr \in 1 .. Len(arrays) /\ IsSeq(arrays[r.arr])
      /\ arrays[r.arr][RealIdx(r)].id = r.id
  BY <1>1 DEF RequestInv, TablesInv, ArraysInv
<1>3. ArraysGrow
  <2>1. CASE Install(arrays[r.arr])
    BY <1>2, <2>1, InstallGrows DEF TablesInv
  <2>2. CASE UNCHANGED <<arrays, rows>>
    BY <2>2, ArraysAreKept DEF TablesInv
  <2> QED BY <2>1, <2>2 DEF Managed, Tested
<1>4. \/ hidden' = hidden
      \/ /\ r.op = "delete" /\ r.answer.kind = "success"
         /\ hidden' = hidden \cup {arrays[r.arr][RealIdx(r)]}
  BY DEF Managed, Tested, Marks, manageChannel, manageToken, manageUser, manageRedemption
<1>5. HiddenRowsAreDeleted'
  BY <1>1, <1>2, <1>4 DEF TablesInv, HiddenRowsAreDeleted, RequestInv
<1>6. SpinnersStop'
  BY <1>1 DEF TablesInv, SpinnersStop, RowOp
<1> QED BY <1>1, <1>3, <1>5, <1>6, StepInv DEF TablesInv

LEMMA DeletedDisabledInv ==
    ASSUME TablesInv, NEW r \in requests, DeletedDisabled(r)
    PROVE  TablesInv'
<1>1. /\ r.op = "deleteDisabled" /\ RequestInv(r) /\ activePage \in Nat \ {0}
      /\ UNCHANGED <<alive, arrays, rows, hidden, activePage, searching, broken>>
  BY DEF DeletedDisabled, TablesInv
<1>2. ArraysGrow
  BY <1>1, ArraysAreKept DEF TablesInv
<1>3. HiddenRowsAreDeleted'
  BY <1>1 DEF TablesInv, HiddenRowsAreDeleted
<1>4. CASE requests' = requests \ {r} /\ UNCHANGED loading
  <2>1. SpinnersStop'
    BY <1>1, <1>4 DEF TablesInv, SpinnersStop
  <2> QED BY <1>1, <1>2, <1>3, <1>4, <2>1, StepInv
<1>5. CASE requests' = (requests \ {r}) \cup
                {[r EXCEPT !.op = "load", !.n = sent + 1, !.start = r.page - 1,
                           !.answer = NoAnswer]}
  <2>1. PICK new : new = [r EXCEPT !.op = "load", !.n = sent + 1, !.start = r.page - 1,
                                   !.answer = NoAnswer]
    OBVIOUS
  <2>2. /\ IsRequest(new) /\ new.op = "load" /\ new.arr = r.arr /\ new.page = r.page
        /\ new.start = r.page - 1 /\ new.then = r.then /\ new.to = r.to
        /\ new.answer = NoAnswer
    BY <1>1, <2>1 DEF RequestInv, IsRequest
  <2>3. NoAnswer.kind # "success" /\ r.page - 1 \in Nat
    BY <1>1 DEF RequestInv, NoAnswer
  <2>4. RequestInv(new)'
    BY <1>1, <2>2, <2>3 DEF RequestInv, RowOp, IsRequest
  <2>5. SpinnersStop'
    BY <1>1, <1>5, <2>1, <2>2 DEF TablesInv, SpinnersStop
  <2> QED BY <1>1, <1>2, <1>3, <1>5, <2>1, <2>4, <2>5, StepInv
<1> QED BY <1>4, <1>5 DEF DeletedDisabled

LEMMA RejectInv ==
    ASSUME TablesInv, NEW r \in requests, Reject(r)
    PROVE  TablesInv'
<1>1. /\ requests' = requests \ {r} /\ broken' /\ activePage' \in Nat \ {0}
      /\ UNCHANGED <<alive, arrays, rows, hidden>>
  BY DEF Reject, TablesInv
<1>2. ArraysGrow
  BY <1>1, ArraysAreKept DEF TablesInv
<1>3. HiddenRowsAreDeleted' /\ SpinnersStop'
  BY <1>1 DEF TablesInv, HiddenRowsAreDeleted, SpinnersStop
<1> QED BY <1>1, <1>2, <1>3, StepInv

LEMMA TablesStep ==
    ASSUME TablesAssumption, TablesInv, [TablesNext]_tablesVars
    PROVE  TablesInv'
<1>1. CASE UNCHANGED tablesVars
  <2>1. /\ ArraysInv' /\ activePage' \in Nat \ {0}
        /\ UNCHANGED <<alive, arrays, rows, requests, hidden, loading, searching, broken>>
    BY <1>1 DEF tablesVars, TablesInv, ArraysInv
  <2>2. HiddenRowsAreDeleted' /\ SpinnersStop'
    BY <2>1 DEF TablesInv, HiddenRowsAreDeleted, SpinnersStop
  <2>3. ArraysGrow
    BY <2>1, ArraysAreKept DEF TablesInv
  <2> QED BY <2>1, <2>2, <2>3, StepInv
<1>2. CASE TablesNext
  BY <1>2, ChangePageInv, RefreshTablesInv, SearchInv, ManageInv, DeleteAllInv, ChangeOrderInv,
     SortInv, AnswerInv, LoadedInv, SearchedInv, ManagedInv, DeletedDisabledInv, RejectInv
     DEF TablesNext, Respond
<1> QED BY <1>1, <1>2

LEMMA TablesStart == TablesInit => TablesInv
<1> SUFFICES ASSUME TablesInit PROVE TablesInv
  OBVIOUS
<1>1. 1 \in Nat \ {0} /\ 0 \in Nat /\ 1 \in 1 .. 1
  OBVIOUS
<1>2. ArraysInv
  <2>1. PICK none : none = <<>>
    OBVIOUS
  <2>2. arrays = <<none>>
    BY <2>1 DEF TablesInit
  <2>3. none \in Seq({})
    BY <2>1
  <2>4. arrays \in Seq({none}) /\ Len(arrays) = 1 /\ arrays[1] = none
    BY <2>2
  <2>5. IsSeq(none) /\ IsSeq(arrays)
    BY <2>3, <2>4 DEF IsSeq
  <2>6. \A a \in 1 .. Len(arrays) : a = 1
    BY <2>4
  <2> QED BY <1>1, <2>4, <2>5, <2>6 DEF TablesInit, ArraysInv
<1>3. PICK r : r = [op |-> "load", n |-> 1, arr |-> 1, page |-> 1, order |-> "", start |-> 0,
                    then |-> "stay", to |-> 0, id |-> 0, idx |-> 0, answer |-> NoAnswer]
  OBVIOUS
<1>4. RequestInv(r) /\ r.op = "load"
  BY <1>1, <1>3 DEF TablesInit, RequestInv, IsRequest, RowOp, NoAnswer
<1>5. requests = {r}
  BY <1>3 DEF TablesInit
<1>6. HiddenRowsAreDeleted /\ SpinnersStop
  BY <1>4, <1>5 DEF TablesInit, HiddenRowsAreDeleted, SpinnersStop
<1> QED BY <1>1, <1>2, <1>4, <1>5, <1>6 DEF TablesInv, TablesInit

LEMMA TablesInvariant == TablesSpec => []TablesInv
<1>1. TablesInv /\ [TablesNext]_tablesVars => TablesInv'
  BY TablesStep, TablesAssumption
<1> QED BY <1>1, TablesStart, PTL DEF TablesSpec

\* For any rows, searches, page size and requests, answered, refused or lost in any order, while
\* pages are loaded, sorted, searched and deleted under them: an operation marks the row that its
\* button was on, a hidden row is one that the backend has deleted, and no spinner outlives what it
\* waits for (manageX, loadX, searchX, sortX).
THEOREM RequestsKeepTheirRows == TablesSpec => []TablesKnowTheirRows
<1>1. TablesInv => TablesKnowTheirRows
  <2> SUFFICES ASSUME TablesInv PROVE TablesKnowTheirRows
    OBVIOUS
  <2>1. ASSUME NEW r \in requests PROVE DOMAIN arrays[r.arr] = 1 .. Len(arrays[r.arr])
    BY DEF TablesInv, RequestInv, ArraysInv, IsSeq
  <2>2. RequestsKnowTheirRow
    BY <2>1 DEF TablesInv, RequestInv, RequestsKnowTheirRow
  <2> QED BY <2>2 DEF TablesInv, TablesKnowTheirRows
<1> QED BY <1>1, TablesInvariant, PTL

-----------------------------------------------------------------------------
(* Forms: what is sent was loaded first, or filled in.                     *)

\* The body sent last, if it creates a record, or updates one.
BodyInv(body) ==
    /\ isEdit => body.record # "unknown"
    /\ ~isEdit => /\ body.name # ""
                  /\ form = "channel" => body.key # ""
                  /\ body.type = "azure" => body.other # ""

IsInputs(in) ==
    in = [name |-> in.name, type |-> in.type, key |-> in.key, other |-> in.other,
          models |-> in.models, joined |-> in.joined, expires |-> in.expires,
          mapping |-> in.mapping]

\* A new channel's credentials were never loaded, so that they make no key that is sent blank.
FormsInv ==
    /\ IsInputs(inputs)
    /\ form = "user" => isEdit
    /\ isEdit /\ record = "unknown" => formLoading
    /\ ~isEdit => /\ "load" \notin awaited
                  /\ inputs.key # "undefined"
                  /\ config \in {"blank"} \cup Complete
    /\ \A body \in submitted : BodyInv(body)

LEMMA OriginInputs == IsInputs(originInputs) /\ originInputs.key # "undefined"
BY DEF originInputs, IsInputs

LEMMA RecordLoadedInv == ASSUME FormsInv, RecordLoaded \/ LoadRejected PROVE FormsInv'
<1>1. /\ UNCHANGED <<form, isEdit, submitted>> /\ "load" \in awaited
      /\ record' \in {"loaded", "failed"} /\ awaited' \subseteq awaited
  BY DEF RecordLoaded, LoadRejected
<1>2. isEdit
  BY SMTT(60), <1>1 DEF FormsInv
<1>3. IsInputs(inputs')
  BY DEF RecordLoaded, LoadRejected, loadChannel, loadToken, loadUser, loadRedemption,
     originInputs, IsInputs, FormsInv
<1> QED BY <1>1, <1>2, <1>3 DEF FormsInv, BodyInv, IsInputs

LEMMA EnterInv ==
    ASSUME FormsInv, NEW field, NEW in, Enter(field, in), IsInputs(in),
           in.key = inputs.key \/ in.key = "typed",
           config' = config \/ config' \in Complete
                            \/ (config' = "partial" /\ config \in {"absent", "partial"}),
           FormsAssumption
    PROVE  FormsInv'
<1>1. inputs' = in /\ UNCHANGED <<form, isEdit, formLoading, awaited, submitted, record>>
  BY DEF Enter
<1>2. ~isEdit => config' \in {"blank"} \cup Complete
  BY DEF FormsInv, FormsAssumption
<1> QED BY <1>1, <1>2 DEF FormsInv, BodyInv, IsInputs

LEMMA EditFormInv ==
    ASSUME FormsAssumption, FormsInv,
           \/ TypeName \/ TypeKey \/ TypeOther \/ TypeMapping \/ ChooseType \/ ChooseModels
           \/ addCustomModel \/ handleConfigChange \/ setExpiredTime
    PROVE  FormsInv'
<1> USE DEF IsInputs
<1>1. CASE TypeName
  BY <1>1, EnterInv DEF TypeName, FormsInv
<1>2. CASE TypeKey
  BY <1>2, EnterInv DEF TypeKey, FormsInv
<1>3. CASE TypeOther
  BY <1>3, EnterInv DEF TypeOther, FormsInv
<1>4. CASE TypeMapping
  BY <1>4, EnterInv DEF TypeMapping, FormsInv
<1>5. CASE ChooseType
  <2>1. PICK ty : Enter("type", [inputs EXCEPT !.type = ty,
                                               !.models = IF @ = {} THEN BasicModels(ty) ELSE @])
    BY <1>5 DEF ChooseType
  <2>2. PICK ms : ms = IF inputs.models = {} THEN BasicModels(ty) ELSE inputs.models
    OBVIOUS
  <2>3. PICK in : in = [inputs EXCEPT !.type = ty, !.models = ms]
    OBVIOUS
  <2>4. Enter("type", in)
    BY <2>1, <2>2, <2>3
  <2>5. IsInputs(in) /\ in.key = inputs.key
    BY <2>3 DEF FormsInv
  <2> QED BY <1>5, <2>4, <2>5, EnterInv DEF ChooseType
<1>6. CASE ChooseModels
  <2>1. PICK ms : Enter("models", [inputs EXCEPT !.models = ms, !.joined = FALSE])
    BY <1>6 DEF ChooseModels
  <2>2. PICK in : in = [inputs EXCEPT !.models = ms, !.joined = FALSE]
    OBVIOUS
  <2>3. IsInputs(in) /\ in.key = inputs.key
    BY <2>2 DEF FormsInv
  <2> QED BY <1>6, <2>1, <2>2, <2>3, EnterInv DEF ChooseModels
<1>7. CASE addCustomModel
  BY <1>7, EnterInv DEF addCustomModel, FormsInv
<1>8. CASE handleConfigChange
  BY <1>8, EnterInv DEF handleConfigChange, FormsInv
<1>9. CASE setExpiredTime
  BY <1>9, EnterInv DEF setExpiredTime, FormsInv
<1> QED BY <1>1, <1>2, <1>3, <1>4, <1>5, <1>6, <1>7, <1>8, <1>9

\* What is refused is not sent; what is sent has what it needs.
LEMMA SubmitInv ==
    ASSUME FormsInv, NEW in, NEW declined, NEW key, Submit(in, declined, Body(in, key)),
           IsInputs(in), ~isEdit => in.key # "undefined",
           ~isEdit /\ ~declined => in.name # "" /\ (form = "channel" => key # "")
    PROVE  FormsInv'
<1>1. inputs' = in /\ ~formLoading
      /\ UNCHANGED <<form, isEdit, config, formLoading, awaited, record>>
  BY DEF Submit, Offered
<1>2. \/ submitted' = submitted
      \/ ~declined /\ submitted' = {Body(in, key)}
  BY DEF Submit
<1>3. ~declined => BodyInv(Body(in, key))
  BY <1>1 DEF Body, BodyInv, FormsInv
<1>4. \A body \in submitted' : BodyInv(body)'
  BY <1>1, <1>2, <1>3 DEF FormsInv, BodyInv
<1> QED BY <1>1, <1>4 DEF FormsInv, IsInputs

LEMMA SubmitChannelInv == ASSUME FormsAssumption, FormsInv, SubmitChannel PROVE FormsInv'
<1>1. PICK in : in = IF inputs.key = "" THEN [inputs EXCEPT !.key = DerivedKey(config)]
                     ELSE inputs
  OBVIOUS
<1>2. PICK declined : declined = (\/ ~isEdit /\ (in.name = "" \/ in.key = "")
                                  \/ in.type # "proxy" /\ in.models = {}
                                  \/ in.mapping = "invalid")
  OBVIOUS
<1>3. PICK key : key = IF in.key = "undefined" THEN "" ELSE in.key
  OBVIOUS
<1>4. Submit(in, declined, Body(in, key))
  BY <1>1, <1>2, <1>3 DEF SubmitChannel
<1>5. IsInputs(in)
  BY <1>1 DEF IsInputs, FormsInv
<1>6. ~isEdit => DerivedKey(config) # "undefined"
  BY DEF DerivedKey, FormsInv, FormsAssumption
<1>7. ~isEdit => in.key # "undefined"
  BY <1>1, <1>6 DEF FormsInv, IsInputs
<1>8. ~isEdit /\ ~declined => in.name # "" /\ key # ""
  BY <1>2, <1>3, <1>7, Zenon
<1> QED BY <1>4, <1>5, <1>7, <1>8, SubmitInv

LEMMA SubmitTokenInv == ASSUME FormsInv, SubmitToken PROVE FormsInv'
<1>1. PICK noName : noName = (~isEdit /\ inputs.name = "")
  OBVIOUS
<1>2. PICK badTime : badTime = (inputs.expires = "seconds")
  OBVIOUS
<1>3. PICK in : in = IF noName \/ badTime THEN inputs
                     ELSE [inputs EXCEPT !.joined = TRUE,
                                         !.expires = IF @ = "date" THEN "seconds" ELSE @]
  OBVIOUS
<1>4. PICK throws : throws = (~noName /\ ~badTime /\ inputs.joined)
  OBVIOUS
<1>5. Submit(in, noName \/ badTime \/ throws, Body(in, "")) /\ form = "token"
  BY <1>1, <1>2, <1>3, <1>4 DEF SubmitToken
<1>6. IsInputs(in) /\ in.name = inputs.name /\ in.key = inputs.key
  BY <1>3 DEF IsInputs, FormsInv
<1>7. ~isEdit /\ ~(noName \/ badTime \/ throws) => in.name # ""
  BY <1>1, <1>6
<1>8. ~isEdit => in.key # "undefined"
  BY <1>6 DEF FormsInv
<1> QED BY <1>5, <1>6, <1>7, <1>8, SubmitInv

LEMMA SubmitOtherInv ==
    ASSUME FormsInv, SubmitUser \/ SubmitAddUser \/ SubmitRedemption
    PROVE  FormsInv'
<1>1. IsInputs(inputs) /\ (~isEdit => inputs.key # "undefined") /\ (form = "user" => isEdit)
  BY DEF FormsInv
<1>2. CASE SubmitUser
  BY <1>1, <1>2, SubmitInv DEF SubmitUser
<1>3. CASE SubmitAddUser
  BY <1>1, <1>3, SubmitInv DEF SubmitAddUser
<1>4. CASE SubmitRedemption
  BY <1>1, <1>4, SubmitInv DEF SubmitRedemption
<1> QED BY <1>2, <1>3, <1>4

LEMMA FormsStep ==
    ASSUME FormsAssumption, FormsInv, [FormsNext]_formsVars
    PROVE  FormsInv'
<1>1. CASE ModelsFetched \/ UNCHANGED formsVars
  <2>1. /\ UNCHANGED <<form, isEdit, inputs, config, formLoading, submitted, record>>
        /\ awaited' \subseteq awaited
    BY <1>1 DEF ModelsFetched, formsVars
  <2> QED BY <2>1 DEF FormsInv, BodyInv, IsInputs
<1>2. CASE SubmitAnswered
  <2>1. /\ UNCHANGED <<form, isEdit, config, formLoading, awaited, record>>
        /\ submitted' \subseteq submitted /\ inputs' \in {inputs, originInputs}
    BY <1>2 DEF SubmitAnswered
  <2>2. IsInputs(inputs') /\ (~isEdit => inputs'.key # "undefined")
    BY <2>1, OriginInputs DEF FormsInv
  <2> QED BY <2>1, <2>2 DEF FormsInv, BodyInv, IsInputs
<1>3. CASE SubmitChannel \/ SubmitToken \/ SubmitUser \/ SubmitAddUser \/ SubmitRedemption
  BY <1>3, SubmitChannelInv, SubmitTokenInv, SubmitOtherInv
<1> QED BY <1>1, <1>2, <1>3, RecordLoadedInv, EditFormInv DEF FormsNext

LEMMA FormsStart == FormsInit => FormsInv
<1> SUFFICES ASSUME FormsInit PROVE FormsInv
  OBVIOUS
<1>1. form = "user" => isEdit
  BY DEF FormsInit
<1>2. isEdit => formLoading
  BY DEF FormsInit
<1>3. ~isEdit => "load" \notin awaited
  BY DEF FormsInit
<1>4. inputs = originInputs /\ config = "blank" /\ submitted = {}
  BY DEF FormsInit
<1> QED BY <1>1, <1>2, <1>3, <1>4, OriginInputs DEF FormsInv

LEMMA FormsInvariant == FormsSpec => []FormsInv
<1>1. FormsInv /\ [FormsNext]_formsVars => FormsInv'
  BY FormsStep, FormsAssumption
<1> QED BY <1>1, FormsStart, PTL DEF FormsSpec

\* For any models and credentials, loads and submits in any order: no form updates a record whose
\* load has not ended, and none creates a record without a name, a key or the version it needs
\* (submit, loadChannel, loadToken, loadUser, loadRedemption).
THEOREM FormsSendLoadedOrFilledIn == FormsSpec => []FormsSendWhatTheyShould
<1>1. FormsInv => FormsSendWhatTheyShould
  <2>1. FormsInv => UpdatesFollowALoad
    BY DEF FormsInv, BodyInv, UpdatesFollowALoad
  <2>2. FormsInv => NothingBlankIsCreated
    BY DEF FormsInv, BodyInv, NothingBlankIsCreated
  <2> QED BY <2>1, <2>2 DEF FormsSendWhatTheyShould
<1> QED BY <1>1, FormsInvariant, PTL

-----------------------------------------------------------------------------
(* Settings: what was saved is shown, and what is shown was saved.         *)

GroupOptions == ToSet(Options(group))

\* The server has the option as the form shows it, or it is one of those the code lets differ.
KeptOption(f) ==
    \/ server[f] = shown[f]
    \/ shown[f] = origin[f]
    \/ f \in NotBlank /\ shown[f] = ""

\* Nothing was saved before the options were loaded, and no save was lost.
Orderly == ~early /\ ~rejected

SettingsKinds ==
    /\ group \in Groups
    /\ DOMAIN server = Fields /\ DOMAIN shown = Fields /\ DOMAIN fetched.data = Fields
    /\ \A save \in saves :
        /\ save = [n |-> save.n, good |-> save.good, queue |-> save.queue]
        /\ save.good \in BOOLEAN
        /\ DOMAIN save.queue # {} /\ DOMAIN save.queue \subseteq Nat
        /\ \A i \in DOMAIN save.queue : save.queue[i].key \in Fields

\* One save at a time, and none before the options are loaded.
SavesInTurn ==
    /\ saves # {} => settingsLoading
    /\ \A s, t \in saves : s = t
    /\ ~early /\ fetched.kind # "loaded" => saves = {}

\* The switch of the answer on its way is the server's, and so is the one shown.
SwitchInv ==
    /\ ~early /\ fetched.kind = "options" => fetched.data["switch"] = server["switch"]
    /\ Orderly /\ fetched.kind = "loaded" => shown["switch"] = server["switch"]

\* An option of the group that a save still unrefused has left behind is kept.
QueueInv ==
    Orderly /\ fetched.kind = "loaded" /\ group # "emailDomain" =>
        /\ clean => \A f \in GroupOptions : KeptOption(f)
        /\ \A save \in saves : save.good => \A f \in GroupOptions :
               KeptOption(f) \/ \E i \in DOMAIN save.queue : save.queue[i].key = f

SettingsInv == SettingsKinds /\ SavesInTurn /\ SwitchInv /\ QueueInv

LEMMA GroupFacts ==
    ASSUME group \in Groups
    PROVE  /\ DOMAIN Options(group) \subseteq Nat
           /\ "switch" \notin GroupOptions /\ "switch" \notin Texts /\ "switch" \in Fields
           /\ group # "emailDomain" => "EmailDomainWhitelist" \notin GroupOptions
           /\ \A f \in GroupOptions \cap Ratios : f \in Texts
           /\ Texts \subseteq Fields /\ GroupOptions \subseteq Fields
<1> USE DEF GroupOptions, Options, Texts, ToSet, Ratios, Fields
<1>1. CASE group = "general"
  BY <1>1 DEF submitServerAddress, GeneralTexts
<1>2. CASE group = "emailDomain"
  BY <1>2 DEF submitEmailDomainWhitelist, EmailDomainTexts
<1>3. CASE group = "SMTP"
  BY <1>3 DEF submitSMTP, SMTPTexts
<1>4. CASE group = "GitHub"
  BY <1>4 DEF submitGitHubOAuth, GitHubTexts
<1>5. CASE group = "Lark"
  BY <1>5 DEF submitLarkOAuth, LarkTexts
<1>6. CASE group = "WeChat"
  BY <1>6 DEF submitWeChat, WeChatTexts
<1>7. CASE group = "Turnstile"
  BY <1>7 DEF submitTurnstile, TurnstileTexts
<1>8. CASE group = "monitor"
  BY <1>8 DEF submitMonitor, MonitorTexts
<1>9. CASE group = "ratio"
  BY <1>9 DEF submitRatio, RatioTexts
<1>10. CASE group = "quota"
  BY <1>10 DEF submitQuota, QuotaTexts
<1>11. CASE group = "operation"
  BY <1>11 DEF submitGeneral, OperationTexts
<1>12. CASE group \in OtherGroups
  <2>1. /\ group \notin {"general", "emailDomain", "SMTP", "GitHub", "Lark", "WeChat",
                         "Turnstile", "monitor", "ratio", "quota", "operation"}
        /\ group \notin {"switch", "EmailDomainWhitelist"}
        /\ group \notin {"ModelRatio", "GroupRatio", "CompletionRatio"}
    BY <1>12 DEF OtherGroups
  <2>2. Options(group) = <<group>> /\ Texts = {group}
    BY <1>12, <2>1 DEF OtherTexts
  <2> HIDE DEF Options, Texts
  <2> QED BY <2>1, <2>2
<1> QED BY ZenonT(60), <1>1, <1>2, <1>3, <1>4, <1>5, <1>6, <1>7, <1>8, <1>9, <1>10, <1>11, <1>12
        DEF Groups, SystemGroups, OperationGroups

LEMMA BeginInv ==
    ASSUME SettingsInv, NEW queue, NEW good, good \in BOOLEAN, Begin(queue, good),
           DOMAIN queue \subseteq Nat, \A i \in DOMAIN queue : queue[i] \in Fields,
           good /\ Orderly /\ fetched.kind = "loaded" /\ group # "emailDomain" =>
               \A f \in GroupOptions : KeptOption(f) \/ \E i \in DOMAIN queue : queue[i] = f,
           clean' => DOMAIN queue = {} /\ good
    PROVE  SettingsInv'
<1>1. /\ ~settingsLoading /\ settingsLoading' = (DOMAIN queue # {})
      /\ UNCHANGED <<group, server, shown, origin, fetched, rejected>>
  BY DEF Begin
<1>2. ~early' => ~early /\ fetched.kind = "loaded"
  BY Zenon DEF Begin
<1>3. saves = {}
  BY <1>1 DEF SettingsInv, SavesInTurn
<1>4. PICK value : value = [i \in DOMAIN queue |->
            [key |-> queue[i],
             value |-> IF queue[i] # "switch" THEN shown[queue[i]]
                       ELSE IF shown["switch"] = "true" THEN "false" ELSE "true"]]
  OBVIOUS
<1>5. PICK save : save = [n |-> saved, good |-> good, queue |-> value]
  OBVIOUS
<1>6. /\ DOMAIN queue = {} => saves' = {}
      /\ DOMAIN queue # {} => saves' = {save}
  BY <1>3, <1>4, <1>5 DEF Begin
<1>7. /\ save = [n |-> save.n, good |-> save.good, queue |-> save.queue]
      /\ save.good = good /\ save.queue = value
  BY <1>5
<1>8. DOMAIN value = DOMAIN queue /\ \A i \in DOMAIN value : value[i].key = queue[i]
  BY <1>4
<1>9. Fields' = Fields /\ GroupOptions' = GroupOptions
  BY <1>1 DEF Fields, Texts, GroupOptions
<1>10. SettingsKinds'
  BY <1>1, <1>6, <1>7, <1>8, <1>9 DEF SettingsInv, SettingsKinds
<1>11. SavesInTurn'
  BY <1>1, <1>2, <1>6 DEF SavesInTurn
<1>12. SwitchInv'
  BY <1>1, <1>2 DEF SettingsInv, SwitchInv, Orderly
<1>13. QueueInv'
  <2>1. \A f : KeptOption(f)' <=> KeptOption(f)
    BY <1>1 DEF KeptOption
  <2>2. Orderly' => Orderly
    BY <1>1, <1>2 DEF Orderly
  <2>3. (good /\ Orderly' /\ fetched'.kind = "loaded" /\ group' # "emailDomain") =>
            \A f \in GroupOptions : KeptOption(f)' \/ \E i \in DOMAIN queue : queue[i] = f
    BY <1>1, <2>1, <2>2
  <2> SUFFICES ASSUME Orderly', fetched'.kind = "loaded", group' # "emailDomain"
               PROVE  /\ clean' => \A f \in GroupOptions : KeptOption(f)'
                      /\ \A s \in saves' : s.good => \A f \in GroupOptions :
                             KeptOption(f)' \/ \E i \in DOMAIN s.queue : s.queue[i].key = f
    BY <1>9 DEF QueueInv
  <2>4. clean' => \A f \in GroupOptions : KeptOption(f)'
    BY <2>3
  <2>5. ASSUME NEW s \in saves', s.good, NEW f \in GroupOptions
        PROVE  KeptOption(f)' \/ \E i \in DOMAIN s.queue : s.queue[i].key = f
    <3>1. s = save /\ s.queue = value /\ good
      BY <1>6, <1>7, <2>5
    <3> QED BY <1>8, <2>3, <3>1
  <2> QED BY <2>4, <2>5
<1> QED BY <1>10, <1>11, <1>12, <1>13 DEF SettingsInv

\* What leaves the server and the saves alone, and the form but for its texts.
LEMMA QuietInv ==
    ASSUME SettingsInv, UNCHANGED <<group, server, fetched, saves, settingsLoading, origin, early,
                                    rejected>>,
           DOMAIN shown' = Fields, shown'["switch"] = shown["switch"],
           \/ UNCHANGED <<shown, clean>>
           \/ clean' = FALSE /\ (UNCHANGED shown \/ ~settingsLoading)
    PROVE  SettingsInv'
<1>1. Fields' = Fields /\ GroupOptions' = GroupOptions
  BY DEF Fields, Texts, GroupOptions
<1>2. SettingsKinds'
  BY <1>1 DEF SettingsInv, SettingsKinds
<1>3. SavesInTurn' /\ SwitchInv'
  BY DEF SettingsInv, SavesInTurn, SwitchInv, Orderly
<1>4. saves = {} \/ UNCHANGED shown
  BY DEF SettingsInv, SavesInTurn
<1>5. \A f : UNCHANGED shown => (KeptOption(f)' <=> KeptOption(f))
  BY DEF KeptOption
<1>6. QueueInv'
  BY <1>1, <1>4, <1>5 DEF SettingsInv, QueueInv, Orderly
<1> QED BY <1>2, <1>3, <1>6 DEF SettingsInv

LEMMA LoadInv == ASSUME SettingsInv, ServerAnswersOptions \/ getOptions PROVE SettingsInv'
<1>1. /\ UNCHANGED <<group, server, saves, settingsLoading, early, rejected>>
      /\ fetched.kind # "loaded"
  BY DEF ServerAnswersOptions, getOptions
<1>2. Fields' = Fields
  BY <1>1 DEF Fields, Texts
<1>3. saves # {} => early
  BY <1>1 DEF SettingsInv, SavesInTurn
<1>4. CASE ServerAnswersOptions
  <2>1. "switch" \in Fields /\ "switch" \notin Secret
    BY GroupFacts DEF SettingsInv, SettingsKinds, Secret, NotBlank
  <2>2. DOMAIN Blank = Fields
    BY DEF Blank
  <2>3. /\ UNCHANGED shown /\ fetched'.kind # "loaded" /\ DOMAIN fetched'.data = Fields
        /\ fetched'.kind = "options" => fetched'.data["switch"] = server["switch"]
    BY <1>4, <2>1, <2>2 DEF ServerAnswersOptions
  <2> QED BY <1>1, <1>2, <1>3, <2>3
          DEF SettingsInv, SettingsKinds, SavesInTurn, SwitchInv, QueueInv, Orderly
<1>5. CASE getOptions
  <2>1. PICK answer : answer = [fetched EXCEPT !.kind = "loaded"]
    OBVIOUS
  <2>2. /\ fetched' = answer /\ shown' = fetched.data /\ fetched.kind = "options" /\ ~clean'
    BY <1>5, <2>1 DEF getOptions
  <2>3. answer.data = fetched.data
    BY <2>1
  <2>4. SettingsKinds'
    BY <1>1, <1>2, <2>2, <2>3 DEF SettingsInv, SettingsKinds
  <2>5. SavesInTurn'
    BY <1>1, <1>3, <2>2 DEF SettingsInv, SavesInTurn
  <2>6. SwitchInv' /\ QueueInv'
    <3>1. fetched'.kind = "loaded" => (Orderly' => shown'["switch"] = server'["switch"])
      BY <1>1, <2>2 DEF SettingsInv, SwitchInv, Orderly
    <3>2. Orderly' => saves' = {}
      BY <1>1, <1>3 DEF Orderly
    <3>3. fetched'.kind = "options" /\ ~early' => fetched'.data["switch"] = server'["switch"]
      BY <1>1, <2>2, <2>3 DEF SettingsInv, SwitchInv
    <3> QED BY <2>2, <3>1, <3>2, <3>3 DEF SwitchInv, QueueInv
  <2> QED BY <2>4, <2>5, <2>6 DEF SettingsInv
<1> QED BY <1>4, <1>5

LEMMA EditSettingsInv == ASSUME SettingsInv, EditOption \/ EditDomains PROVE SettingsInv'
<1>1. CASE EditOption
  <2>1. PICK f \in Texts : \E v : shown' = [shown EXCEPT ![f] = v]
    BY <1>1 DEF EditOption
  <2>2. f # "switch" /\ "switch" \in Fields
    BY GroupFacts DEF SettingsInv, SettingsKinds
  <2>3. DOMAIN shown' = Fields /\ shown'["switch"] = shown["switch"]
    BY <2>1, <2>2 DEF SettingsInv, SettingsKinds
  <2> QED BY <1>1, <2>3, QuietInv DEF EditOption
<1>2. CASE EditDomains
  BY <1>2, QuietInv DEF EditDomains, SettingsInv, SettingsKinds
<1> QED BY <1>1, <1>2

LEMMA SaveGroupInv == ASSUME SettingsInv, SaveGroup PROVE SettingsInv'
<1>1. PICK good : good = (\A f \in Texts : ~Invalid(f))
  OBVIOUS
<1>2. PICK queue : queue = ToSend
  OBVIOUS
<1>3. Begin(queue, good) /\ (clean' => DOMAIN queue = {} /\ good)
  BY <1>1, <1>2, Zenon DEF SaveGroup
<1> DEFINE differing == {i \in DOMAIN Options(group) : Differs(Options(group)[i])}
           sending == {j \in differing : \A k \in differing : k <= j =>
                                             ~Invalid(Options(group)[k])}
<1>4. queue = [i \in sending |-> Options(group)[i]]
  BY <1>2 DEF ToSend
<1>5. group \in Groups /\ DOMAIN Options(group) \subseteq Nat
  BY GroupFacts DEF SettingsInv, SettingsKinds
<1>6. DOMAIN queue \subseteq Nat /\ \A i \in DOMAIN queue : queue[i] \in Fields
  BY <1>4, <1>5, GroupFacts DEF GroupOptions, ToSet
<1>7. ASSUME good, group # "emailDomain", NEW f \in GroupOptions
      PROVE  KeptOption(f) \/ \E i \in DOMAIN queue : queue[i] = f
  <2>1. PICK i \in DOMAIN Options(group) : f = Options(group)[i]
    BY DEF GroupOptions, ToSet
  <2>2. CASE Differs(f)
    <3>1. \A k \in differing : ~Invalid(Options(group)[k])
      <4>1. \A k \in DOMAIN Options(group) : Options(group)[k] \in GroupOptions
        BY DEF GroupOptions, ToSet
      <4> QED BY <1>1, <1>5, <1>7, <4>1, GroupFacts DEF Invalid
    <3>2. i \in sending
      BY <2>1, <2>2, <3>1
    <3> QED BY <1>4, <2>1, <3>2
  <2>3. CASE ~Differs(f)
    BY <1>5, <1>7, <2>3, GroupFacts DEF Differs, KeptOption
  <2> QED BY <2>2, <2>3
<1> HIDE DEF differing, sending
<1>8. good \in BOOLEAN
  BY <1>1
<1> QED BY <1>3, <1>6, <1>7, <1>8, BeginInv

LEMMA SwitchSavedInv ==
    ASSUME SettingsInv, Begin(<<"switch">>, FALSE), clean' = FALSE
    PROVE  SettingsInv'
<1>1. PICK queue : queue = <<"switch">>
  OBVIOUS
<1>2. DOMAIN queue \subseteq Nat /\ \A i \in DOMAIN queue : queue[i] = "switch"
  BY <1>1
<1>3. "switch" \in Fields
  BY GroupFacts DEF SettingsInv, SettingsKinds
<1>4. Begin(queue, FALSE)
  BY <1>1
<1> QED BY <1>2, <1>3, <1>4, BeginInv

LEMMA FlipInv == ASSUME SettingsInv, FlipSwitch \/ ConfirmWarning PROVE SettingsInv'
<1>1. clean' = FALSE
  BY DEF FlipSwitch, ConfirmWarning
<1>2. CASE Begin(<<"switch">>, FALSE)
  BY <1>1, <1>2, SwitchSavedInv
<1>3. CASE UNCHANGED <<group, server, shown, domains, origin, fetched, saves, settingsLoading,
                       edits, saved, early, rejected>>
  BY <1>1, <1>3, QuietInv DEF SettingsInv, SettingsKinds
<1> QED BY <1>2, <1>3 DEF FlipSwitch, ConfirmWarning

\* The first option of a save is among the fields, and the rest of it is what it keeps.
LEMMA RestOfSave ==
    ASSUME SettingsInv, NEW save \in saves, NEW success \in BOOLEAN
    PROVE  LET rest == Rest(save, success)
               first == First(save)
           IN  /\ first \in DOMAIN save.queue /\ save.queue[first].key \in Fields
               /\ rest = [n |-> rest.n, good |-> rest.good, queue |-> rest.queue]
               /\ rest.good = (save.good /\ success)
               /\ DOMAIN rest.queue = DOMAIN save.queue \ {first}
               /\ \A i \in DOMAIN rest.queue : rest.queue[i] = save.queue[i]
<1>1. /\ save = [n |-> save.n, good |-> save.good, queue |-> save.queue]
      /\ DOMAIN save.queue # {} /\ DOMAIN save.queue \in SUBSET Nat
      /\ \A i \in DOMAIN save.queue : save.queue[i].key \in Fields
  BY DEF SettingsInv, SettingsKinds
<1>2. PICK first : first = First(save)
  OBVIOUS
<1>3. first \in DOMAIN save.queue
  BY <1>1, <1>2, LeastElement DEF First
<1>4. PICK queue : queue = [i \in DOMAIN save.queue \ {first} |-> save.queue[i]]
  OBVIOUS
<1>5. PICK good : good = (save.good /\ success)
  OBVIOUS
<1>6. PICK rest : rest = Rest(save, success)
  OBVIOUS
<1>7. rest = [save EXCEPT !.queue = queue, !.good = good]
  BY <1>2, <1>4, <1>5, <1>6 DEF Rest
<1>8. /\ rest = [n |-> rest.n, good |-> rest.good, queue |-> rest.queue]
      /\ rest.good = good /\ rest.queue = queue
  BY <1>1, <1>7
<1> QED BY <1>1, <1>2, <1>3, <1>4, <1>5, <1>6, <1>8

LEMMA OptionAnsweredInv == ASSUME SettingsInv, OptionAnswered PROVE SettingsInv'
<1>1. PICK save \in saves, success \in BOOLEAN :
        LET option == save.queue[First(save)]
            rest == Rest(save, success)
        IN  /\ IF success
               THEN /\ server' = [server EXCEPT ![option.key] = option.value]
                    /\ shown' = [shown EXCEPT ![option.key] = option.value]
               ELSE UNCHANGED <<server, shown>>
            /\ saves' = (saves \ {save}) \cup (IF DOMAIN rest.queue = {} THEN {} ELSE {rest})
            /\ settingsLoading' = (DOMAIN rest.queue # {})
            /\ clean' = (DOMAIN rest.queue = {} /\ rest.good)
            /\ UNCHANGED <<group, domains, origin, fetched, warned, edits, saved, early, rejected>>
  BY DEF OptionAnswered
<1>2. PICK first : first = First(save)
  OBVIOUS
<1>3. PICK rest : rest = Rest(save, success)
  OBVIOUS
<1>4. PICK option : option = save.queue[first]
  OBVIOUS
<1>5. /\ first \in DOMAIN save.queue /\ option.key \in Fields
      /\ rest = [n |-> rest.n, good |-> rest.good, queue |-> rest.queue]
      /\ rest.good = (save.good /\ success)
      /\ DOMAIN rest.queue = DOMAIN save.queue \ {first}
      /\ \A i \in DOMAIN rest.queue : rest.queue[i] = save.queue[i]
  BY <1>2, <1>3, <1>4, RestOfSave
<1>6. /\ ~success => UNCHANGED <<server, shown>>
      /\ success => /\ server' = [server EXCEPT ![option.key] = option.value]
                    /\ shown' = [shown EXCEPT ![option.key] = option.value]
      /\ UNCHANGED <<group, origin, fetched, early, rejected>>
  BY <1>1, <1>2, <1>4
<1>7. /\ saves' = (saves \ {save}) \cup (IF DOMAIN rest.queue = {} THEN {} ELSE {rest})
      /\ settingsLoading' = (DOMAIN rest.queue # {})
      /\ clean' = (DOMAIN rest.queue = {} /\ rest.good)
  BY <1>1, <1>3
<1>8. saves = {save}
  BY DEF SettingsInv, SavesInTurn
<1>9. saves' = IF DOMAIN rest.queue = {} THEN {} ELSE {rest}
  BY <1>7, <1>8
<1>10. Fields' = Fields /\ GroupOptions' = GroupOptions
  BY <1>6 DEF Fields, Texts, GroupOptions
<1>11. /\ DOMAIN server' = Fields /\ DOMAIN shown' = Fields
       /\ \A f \in Fields : success /\ f = option.key => server'[f] = shown'[f]
       /\ \A f \in Fields : ~success \/ f # option.key =>
              server'[f] = server[f] /\ shown'[f] = shown[f]
  BY <1>5, <1>6 DEF SettingsInv, SettingsKinds
<1>12. SettingsKinds'
  <2>1. rest.good \in BOOLEAN
    BY <1>5
  <2>2. DOMAIN rest.queue \subseteq Nat /\ \A i \in DOMAIN rest.queue : rest.queue[i].key \in Fields
    BY <1>5 DEF SettingsInv, SettingsKinds
  <2> QED BY <1>5, <1>6, <1>9, <1>10, <1>11, <2>1, <2>2 DEF SettingsInv, SettingsKinds
<1>13. SavesInTurn'
  BY <1>6, <1>7, <1>8, <1>9 DEF SettingsInv, SavesInTurn
<1>14. SwitchInv'
  <2>1. early \/ fetched.kind = "loaded"
    BY <1>8 DEF SettingsInv, SavesInTurn
  <2>2. "switch" \in Fields
    BY GroupFacts DEF SettingsInv, SettingsKinds
  <2>3. shown["switch"] = server["switch"] => shown'["switch"] = server'["switch"]
    BY <1>11, <2>2
  <2> QED BY <1>6, <2>1, <2>3 DEF SettingsInv, SwitchInv, Orderly
<1>15. QueueInv'
  <2> SUFFICES ASSUME Orderly', fetched'.kind = "loaded", group' # "emailDomain"
               PROVE  /\ clean' => \A f \in GroupOptions : KeptOption(f)'
                      /\ \A s \in saves' : s.good => \A f \in GroupOptions :
                             KeptOption(f)' \/ \E i \in DOMAIN s.queue : s.queue[i].key = f
    BY <1>10 DEF QueueInv
  <2>1. save.good => \A f \in GroupOptions :
            KeptOption(f) \/ \E i \in DOMAIN save.queue : save.queue[i].key = f
    BY <1>6 DEF SettingsInv, QueueInv, Orderly
  <2>2. ASSUME rest.good, NEW f \in GroupOptions
        PROVE  KeptOption(f)' \/ \E i \in DOMAIN rest.queue : rest.queue[i].key = f
    <3>1. success /\ save.good /\ f \in Fields
      BY <1>5, <2>2, GroupFacts DEF SettingsInv, SettingsKinds
    <3>2. CASE f = option.key
      BY <1>11, <3>1, <3>2 DEF KeptOption
    <3>3. CASE f # option.key /\ KeptOption(f)
      BY <1>6, <1>11, <3>1, <3>3 DEF KeptOption
    <3>4. CASE f # option.key /\ \E i \in DOMAIN save.queue : save.queue[i].key = f
      BY <1>4, <1>5, <3>4
    <3> QED BY <2>1, <3>1, <3>2, <3>3, <3>4
  <2>3. clean' => rest.good /\ DOMAIN rest.queue = {}
    BY <1>7
  <2> QED BY <1>9, <2>2, <2>3
<1> QED BY <1>12, <1>13, <1>14, <1>15 DEF SettingsInv

LEMMA OptionRejectedInv == ASSUME SettingsInv, OptionRejected PROVE SettingsInv'
<1>1. PICK save \in saves :
        /\ \/ server' = server
           \/ server' = [server EXCEPT ![save.queue[First(save)].key] =
                                            save.queue[First(save)].value]
        /\ saves' = saves \ {save}
  BY DEF OptionRejected
<1>2. rejected' = TRUE /\ UNCHANGED <<group, shown, origin, fetched, settingsLoading, early>>
  BY DEF OptionRejected
<1>3. Fields' = Fields
  BY <1>2 DEF Fields, Texts
<1>4. DOMAIN server' = Fields
  BY <1>1 DEF SettingsInv, SettingsKinds
<1>5. early \/ fetched.kind = "loaded"
  BY DEF SettingsInv, SavesInTurn
<1>6. SettingsKinds'
  BY <1>1, <1>2, <1>3, <1>4 DEF SettingsInv, SettingsKinds
<1>7. SavesInTurn'
  BY <1>1, <1>2 DEF SettingsInv, SavesInTurn
<1> QED BY <1>2, <1>5, <1>6, <1>7 DEF SettingsInv, SwitchInv, QueueInv, Orderly

LEMMA SettingsStep == ASSUME SettingsInv, [SettingsNext]_settingsVars PROVE SettingsInv'
<1>1. CASE UNCHANGED settingsVars
  BY <1>1, QuietInv DEF settingsVars, SettingsInv, SettingsKinds
<1> QED BY <1>1, LoadInv, EditSettingsInv, SaveGroupInv, FlipInv, OptionAnsweredInv,
           OptionRejectedInv DEF SettingsNext

LEMMA SettingsStart == ASSUME SettingsAssumption, SettingsInit PROVE SettingsInv
<1>1. DOMAIN Blank = Fields
  BY DEF Blank
<1>2. /\ group \in Groups /\ saves = {} /\ fetched.kind = "asked" /\ fetched.data = Blank
      /\ DOMAIN server = Fields /\ DOMAIN shown = Fields
  BY DEF SettingsInit, SettingsAssumption
<1> QED BY <1>1, <1>2 DEF SettingsInv, SettingsKinds, SavesInTurn, SwitchInv, QueueInv

LEMMA SettingsInvariant == SettingsSpec => []SettingsInv
<1>1. SettingsInit => SettingsInv
  BY SettingsStart, SettingsAssumption
<1>2. SettingsInv /\ [SettingsNext]_settingsVars => SettingsInv'
  BY SettingsStep
<1> QED BY <1>1, <1>2, PTL DEF SettingsSpec

\* For any edits and saves, answered, refused or lost: a switch shows what the server has, and
\* after a save of which nothing was refused so do the options of its group, but for those that the
\* code does not send and those put back to what was loaded (submitConfig, updateOption).
THEOREM SavedOptionsAreShown == SettingsSpec => []SettingsShowTheServer
<1>1. SettingsInv => SettingsShowTheServer
  <2> SUFFICES ASSUME SettingsInv PROVE SettingsShowTheServer
    OBVIOUS
  <2>1. SwitchesShowTheServer
    BY DEF SettingsInv, SwitchInv, Orderly, SwitchesShowTheServer
  <2>2. SavedIsShown
    BY DEF SettingsInv, QueueInv, Orderly, SavedIsShown, GroupOptions, KeptOption
  <2> QED BY <2>1, <2>2 DEF SettingsShowTheServer
<1> QED BY <1>1, SettingsInvariant, PTL

-----------------------------------------------------------------------------
(* Codes by e-mail: the countdown keeps the requests for codes apart.      *)

Kinds ==
    /\ codeForm \in CodeForm \cup {"none"} /\ email \in BOOLEAN
    /\ disableButton \in BOOLEAN /\ codeLoading \in BOOLEAN /\ crossing \in BOOLEAN
    /\ turnstile \in {"off", "checking", "passed"}
    /\ codeCalls \subseteq CodeCall

Numbers ==
    /\ countdown \in 1 .. Countdown /\ since \in 0 .. Countdown
    /\ clicks \in 0 .. MaxCodes /\ asked \in 0 .. clicks /\ refusal \in 0 .. clicks

\* A form whose button the countdown disables.
Disables == codeForm \notin {"register", "none"}

\* A code was asked for, nothing has given the button back, and the countdown is not over.
Waiting == asked # 0 /\ since < Countdown /\ (codeForm = "reset" => refusal = 0)

\* Meanwhile the button is disabled, and is enabled again only as the countdown is put back.
Counting ==
    /\ ~disableButton => countdown = Countdown
    /\ Disables /\ Waiting => disableButton /\ since + countdown = Countdown

\* Without an overlap, what is still unanswered or was refused is the last code.
LastCode ==
    /\ \A c \in codeCalls : c.n <= clicks
    /\ ~crossing => (\A c \in Unanswered : c.n = asked) /\ refusal \in {0, asked}

CountdownInv == Kinds /\ Numbers /\ Counting /\ LastCode

LEMMA CountdownInit == CodesInit => CountdownInv
<1> SUFFICES ASSUME CodesInit PROVE CountdownInv
  OBVIOUS
<1>1. Kinds
  BY DEF CodesInit, Kinds
<1>2. Numbers
  BY CodesAssumption DEF CodesInit, CodesAssumption, Numbers
<1>3. Counting
  BY DEF CodesInit, Counting, Waiting
<1>4. LastCode
  BY DEF CodesInit, LastCode, Unanswered
<1> QED BY <1>1, <1>2, <1>3, <1>4 DEF CountdownInv

Clicked == SendRegisterCode \/ SendEmailCode \/ SendReset \/ ConfirmReset

\* A click on one of the buttons asks for a code or sends nothing.
LEMMA ClickAsks ==
    ASSUME Kinds, Clicked
    PROVE  /\ clicks < MaxCodes /\ clicks' = clicks + 1
           /\ UNCHANGED <<codeForm, email, turnstile, countdown>>
           /\ NothingSent \/ AskForCode
           /\ \/ codeForm = "register" /\ disableButton' \in BOOLEAN
                 /\ (disableButton => disableButton')
              \/ ~disableButton /\ disableButton' = TRUE
<1>1. CASE SendRegisterCode
  BY <1>1 DEF SendRegisterCode, RegisterButton, Click
<1>2. CASE SendEmailCode
  BY <1>2 DEF SendEmailCode, EmailButton, Click
<1>3. CASE SendReset
  BY <1>3 DEF SendReset, ResetButton, Click
<1>4. CASE ConfirmReset
  BY <1>4 DEF ConfirmReset, ConfirmButton, Click
<1> QED BY <1>1, <1>2, <1>3, <1>4 DEF Clicked

\* The number of a click that sends something is one of a click.
LEMMA ClickIsNumbered ==
    ASSUME Numbers, clicks < MaxCodes
    PROVE  clicks + 1 \in 1 .. MaxCodes
BY CodesAssumption DEF Numbers, CodesAssumption

\* Where a click asks for a code, the countdown starts with `since' and the code is the last one.
LEMMA ClickKeepsCountdown ==
    ASSUME CountdownInv, Clicked
    PROVE  CountdownInv'
<1>1. Kinds /\ Numbers /\ Counting /\ LastCode
  BY DEF CountdownInv
<1>2. clicks < MaxCodes /\ clicks' = clicks + 1 /\ UNCHANGED countdown
  BY <1>1, ClickAsks
<1>3. NothingSent \/ AskForCode
  BY <1>1, ClickAsks
<1>4. clicks + 1 \in 1 .. MaxCodes
  BY <1>1, <1>2, ClickIsNumbered
<1>5. Kinds'
  <2>1. codeCalls' \subseteq CodeCall
    BY <1>1, <1>3, <1>4 DEF Kinds, NothingSent, AskForCode, CodeCall
  <2>2. codeLoading' \in BOOLEAN /\ crossing' \in BOOLEAN
    BY <1>1, <1>3 DEF Kinds, NothingSent, AskForCode
  <2> QED BY <1>1, <2>1, <2>2, ClickAsks DEF Kinds
<1>6. Numbers'
  <2>1. CASE NothingSent
    BY <1>1, <1>2, <2>1, CodesAssumption DEF Numbers, CodesAssumption, NothingSent
  <2>2. CASE AskForCode
    BY <1>1, <1>2, <2>2, CodesAssumption DEF Numbers, CodesAssumption, AskForCode
  <2> QED BY <1>3, <2>1, <2>2
<1>7. Counting'
  <2>1. ~disableButton' => countdown' = Countdown
    BY <1>1, ClickAsks DEF Counting
  <2>2. ASSUME Disables', Waiting'
        PROVE  disableButton' /\ since' + countdown' = Countdown
    <3>1. ~disableButton /\ disableButton' = TRUE /\ Disables /\ UNCHANGED codeForm
      BY <1>1, <2>2, ClickAsks DEF Disables
    <3>2. countdown' = Countdown
      BY <1>1, <1>2, <3>1 DEF Counting
    <3>3. since' = 0
      <4>1. CASE NothingSent
        BY <1>1, <2>2, <3>1, <4>1 DEF Counting, NothingSent, Waiting
      <4>2. CASE AskForCode
        BY <4>2 DEF AskForCode
      <4> QED BY <1>3, <4>1, <4>2
    <3> QED BY <3>1, <3>2, <3>3, CodesAssumption DEF CodesAssumption
  <2> QED BY <2>1, <2>2 DEF Counting
<1>8. LastCode'
  <2>1. ASSUME NEW c \in codeCalls
        PROVE  c.n <= clicks'
    <3>1. c.n \in Int /\ c.n <= clicks
      BY <1>1 DEF LastCode, Kinds, CodeCall
    <3> QED BY <1>1, <1>2, <3>1 DEF Numbers
  <2>2. CASE NothingSent
    BY <1>1, <2>1, <2>2 DEF LastCode, NothingSent, Unanswered
  <2>3. CASE AskForCode
    <3> DEFINE new == [kind |-> "code", n |-> clicks + 1]
    <3>1. codeCalls' = codeCalls \cup {new} /\ asked' = clicks + 1 /\ refusal' = 0
          /\ crossing' = (Unanswered # {}) /\ clicks' = clicks + 1
      BY <1>2, <2>3 DEF AskForCode
    <3>2. new.n = clicks + 1
      OBVIOUS
    <3>3. \A c \in codeCalls' : c.n <= clicks'
      BY <1>1, <2>1, <3>1, <3>2 DEF Numbers
    <3>4. ASSUME Unanswered = {}, NEW c \in Unanswered'
          PROVE  c.n = asked'
      <4>1. c \in codeCalls' /\ c.kind = "code"
        BY <3>4 DEF Unanswered
      <4>2. c \notin codeCalls
        BY <3>4, <4>1 DEF Unanswered
      <4> QED BY <3>1, <3>2, <4>1, <4>2
    <3> QED BY <3>1, <3>3, <3>4 DEF LastCode
  <2> QED BY <1>3, <2>2, <2>3
<1> QED BY <1>5, <1>6, <1>7, <1>8 DEF CountdownInv

\* What gives the button back early also tells that the server refused a code.
LEMMA FailureKeepsCountdown ==
    ASSUME CountdownInv, CodeFails
    PROVE  CountdownInv'
<1>0. Kinds /\ Numbers /\ Counting /\ LastCode
  BY DEF CountdownInv
<1>1. PICK c \in Unanswered :
        /\ Answered(c) /\ refusal' = c.n
        /\ IF codeForm \in {"register", "reset"}
           THEN disableButton' = FALSE /\ countdown' = Countdown
           ELSE UNCHANGED <<disableButton, countdown>>
        /\ UNCHANGED <<codeForm, email, turnstile, clicks, asked, since, crossing>>
  BY DEF CodeFails
<1>2. codeLoading' = FALSE /\ codeCalls' = codeCalls \ {c}
  BY <1>1 DEF Answered
<1>3. c \in codeCalls /\ c.n \in 1 .. clicks
  <2>1. c \in codeCalls /\ c.n \in 1 .. MaxCodes /\ c.n <= clicks
    BY <1>0, <1>1 DEF Unanswered, LastCode, Kinds, CodeCall
  <2> QED BY <1>0, <2>1, CodesAssumption DEF Numbers, CodesAssumption
<1>4. Kinds'
  BY <1>0, <1>1, <1>2 DEF Kinds
<1>5. countdown' = Countdown \/ UNCHANGED <<countdown, disableButton>>
  BY <1>1
<1>6. Numbers'
  BY <1>0, <1>1, <1>3, <1>5, CodesAssumption DEF Numbers, CodesAssumption
<1>7. Counting'
  <2>1. ~disableButton' => countdown' = Countdown
    BY <1>0, <1>5 DEF Counting
  <2>2. ASSUME Disables', Waiting'
        PROVE  disableButton' /\ since' + countdown' = Countdown
    <3>1. codeForm # "reset"
      BY <1>1, <1>3, <2>2 DEF Waiting
    <3>2. UNCHANGED <<disableButton, countdown, codeForm, since, asked>>
      BY <1>1, <2>2, <3>1 DEF Disables
    <3> QED BY <1>0, <2>2, <3>1, <3>2 DEF Counting, Disables, Waiting
  <2> QED BY <2>1, <2>2 DEF Counting
<1>8. LastCode'
  BY <1>0, <1>1, <1>2 DEF LastCode, Unanswered
<1> QED BY <1>4, <1>6, <1>7, <1>8 DEF CountdownInv

\* The countdown goes down as `since' goes up, and is over when `since' reaches its bound.
LEMMA SecondKeepsCountdown ==
    ASSUME CountdownInv, Second
    PROVE  CountdownInv'
<1>0. Kinds /\ Numbers /\ Counting /\ LastCode
  BY DEF CountdownInv
<1>1. /\ UNCHANGED <<codeForm, email, turnstile, codeLoading, codeCalls, clicks, asked, crossing,
                     refusal>>
      /\ since' = IF since < Countdown THEN since + 1 ELSE since
  BY DEF Second
<1>2. Kinds'
  BY <1>0, <1>1 DEF Kinds, Second
<1>3. LastCode'
  BY <1>0, <1>1 DEF LastCode, Unanswered
<1>4. since' \in 0 .. Countdown /\ (since' < Countdown => since < Countdown /\ since' = since + 1)
  BY <1>0, <1>1, CodesAssumption DEF Numbers, CodesAssumption
<1>5. CASE ~disableButton
  <2>1. UNCHANGED <<countdown, disableButton>>
    BY <1>5 DEF Second
  <2>2. Numbers'
    BY <1>0, <1>1, <1>4, <2>1 DEF Numbers
  <2>3. ~(Disables' /\ Waiting')
    BY <1>0, <1>1, <1>4, <1>5 DEF Counting, Disables, Waiting
  <2>4. Counting'
    BY <1>0, <2>1, <2>3 DEF Counting
  <2> QED BY <1>2, <1>3, <2>2, <2>4 DEF CountdownInv
<1>6. CASE disableButton
  <2>1. /\ countdown' = IF countdown = 1 THEN Countdown ELSE countdown - 1
        /\ disableButton' = (countdown # 1)
    BY <1>6 DEF Second
  <2>2. Numbers'
    BY <1>0, <1>1, <1>4, <2>1, CodesAssumption DEF Numbers, CodesAssumption
  <2>3. ~disableButton' => countdown' = Countdown
    BY <2>1
  <2>4. ASSUME Disables', Waiting'
        PROVE  disableButton' /\ since' + countdown' = Countdown
    <3>1. since' < Countdown
      BY <2>4 DEF Waiting
    <3>2. since < Countdown /\ since' = since + 1
      BY <1>4, <3>1
    <3>3. Disables /\ Waiting
      BY <1>1, <2>4, <3>2 DEF Disables, Waiting
    <3>4. since + countdown = Countdown
      BY <1>0, <3>3 DEF Counting
    <3>5. countdown # 1
      BY <1>0, <3>1, <3>2, <3>4, CodesAssumption DEF Numbers, CodesAssumption
    <3>6. since' + countdown' = Countdown
      BY <1>0, <2>1, <3>2, <3>4, <3>5, CodesAssumption DEF Numbers, CodesAssumption
    <3> QED BY <2>1, <3>5, <3>6
  <2>5. Counting'
    BY <2>3, <2>4 DEF Counting
  <2> QED BY <1>2, <1>3, <2>2, <2>5 DEF CountdownInv
<1> QED BY <1>5, <1>6

\* A form is submitted: one more request, for no code.
Submitted == Register \/ bindEmail

LEMMA SubmitIs ==
    ASSUME Submitted
    PROVE  SubmitForm
BY DEF Submitted, Register, bindEmail

LEMMA SubmitKeepsCountdown ==
    ASSUME CountdownInv, Submitted
    PROVE  CountdownInv' /\ UNCHANGED asked
<1>1. Kinds /\ Numbers /\ Counting /\ LastCode
  BY DEF CountdownInv
<1> DEFINE new == [kind |-> "other", n |-> clicks + 1]
<1>2. /\ clicks < MaxCodes /\ clicks' = clicks + 1 /\ codeLoading' = TRUE
      /\ codeCalls' = codeCalls \cup {new}
      /\ UNCHANGED <<codeForm, email, turnstile, disableButton, countdown, asked, since, crossing,
                     refusal>>
  BY SubmitIs DEF SubmitForm, Click
<1>3. new \in CodeCall /\ new.kind # "code" /\ new.n = clicks + 1
  BY <1>1, <1>2, ClickIsNumbered DEF CodeCall
<1>4. Kinds'
  BY <1>1, <1>2, <1>3 DEF Kinds
<1>5. Numbers'
  BY <1>1, <1>2, CodesAssumption DEF CodesAssumption, Numbers
<1>6. Counting'
  BY <1>1, <1>2 DEF Counting, Disables, Waiting
<1>7. LastCode'
  <2>1. Unanswered' = Unanswered
    BY <1>2, <1>3 DEF Unanswered
  <2>2. ASSUME NEW c \in codeCalls'
        PROVE  c.n <= clicks'
    <3>1. CASE c = new
      BY <1>1, <1>2, <1>3, <3>1 DEF Numbers
    <3>2. CASE c \in codeCalls
      <4>1. c.n \in Int /\ c.n <= clicks
        BY <1>1, <3>2 DEF LastCode, Kinds, CodeCall
      <4> QED BY <1>1, <1>2, <4>1 DEF Numbers
    <3> QED BY <1>2, <3>1, <3>2
  <2> HIDE DEF new
  <2> QED BY <1>1, <1>2, <2>1, <2>2 DEF LastCode
<1> HIDE DEF new
<1> QED BY <1>2, <1>4, <1>5, <1>6, <1>7 DEF CountdownInv

\* All other steps leave the buttons and the countdown alone, and send nothing.
Elsewhere ==
    CodeSent \/ OtherAnswered \/ CodeRejected \/ TypeEmail \/ TurnstilePasses \/ UNCHANGED codesVars

LEMMA ElsewhereIs ==
    ASSUME Kinds, Elsewhere
    PROVE  /\ UNCHANGED <<disableButton, countdown, clicks, asked, since, crossing, refusal>>
           /\ codeForm' \in {codeForm, "none"}
           /\ codeCalls' \subseteq codeCalls
           /\ Kinds'
<1>1. CASE CodeSent
  BY <1>1 DEF CodeSent, Answered, Kinds
<1>2. CASE OtherAnswered
  BY <1>2 DEF OtherAnswered, Answered, Kinds
<1>3. CASE CodeRejected
  BY <1>3 DEF CodeRejected, Kinds
<1>4. CASE TypeEmail \/ TurnstilePasses
  BY <1>4 DEF TypeEmail, TurnstilePasses, Kinds
<1>5. CASE UNCHANGED codesVars
  BY <1>5 DEF codesVars, Kinds
<1> QED BY <1>1, <1>2, <1>3, <1>4, <1>5 DEF Elsewhere

LEMMA ElsewhereKeepsCountdown ==
    ASSUME CountdownInv, Elsewhere
    PROVE  CountdownInv' /\ UNCHANGED asked
<1>1. Kinds /\ Numbers /\ Counting /\ LastCode
  BY DEF CountdownInv
<1>2. /\ UNCHANGED <<disableButton, countdown, clicks, asked, since, crossing, refusal>>
      /\ codeForm' \in {codeForm, "none"}
      /\ codeCalls' \subseteq codeCalls
      /\ Kinds'
  BY <1>1, ElsewhereIs
<1>3. Numbers'
  BY <1>1, <1>2 DEF Numbers
<1>4. Disables' => Disables /\ UNCHANGED codeForm
  BY <1>2 DEF Disables
<1>5. Counting'
  BY <1>1, <1>2, <1>4 DEF Counting, Waiting
<1>6. LastCode'
  BY <1>1, <1>2 DEF LastCode, Unanswered
<1> QED BY <1>2, <1>3, <1>5, <1>6 DEF CountdownInv

LEMMA CodesNextIs ==
    ASSUME [CodesNext]_codesVars
    PROVE  Clicked \/ CodeFails \/ Second \/ Submitted \/ Elsewhere
BY DEF CodesNext, Clicked, Submitted, Elsewhere

LEMMA CountdownStep == CountdownInv /\ [CodesNext]_codesVars => CountdownInv'
BY CodesNextIs, ClickKeepsCountdown, FailureKeepsCountdown, SecondKeepsCountdown,
   SubmitKeepsCountdown, ElsewhereKeepsCountdown

LEMMA CountdownIsKept == CodesSpec => []CountdownInv
BY CountdownInit, CountdownStep, PTL DEF CodesSpec

\* The forms that ask for a code keep to their types.
THEOREM CodesTypeCorrect == CodesSpec => []CodesTypeOK
<1>1. CountdownInv => CodesTypeOK
  BY DEF CountdownInv, Kinds, Numbers, CodesTypeOK
<1> QED BY <1>1, CountdownIsKept, PTL

\* However many requests are under way and in whatever order they are answered, but for the form of
\* registration a code is asked for again only when the countdown of the last one is over, or on the
\* first of the reset forms once the server refused that code or one still unanswered when it was
\* asked for.
THEOREM CodesSpaced == CodesSpec => CodesAreSpaced
<1>1. CountdownInv /\ [CodesNext]_codesVars
        => [(asked' # asked /\ codeForm # "register")
              => \/ asked = 0 \/ since = Countdown
                 \/ codeForm = "reset" /\ refusal # 0
                    /\ (refusal = asked \/ crossing)]_codesVars
  <2> SUFFICES ASSUME CountdownInv, [CodesNext]_codesVars, asked' # asked, codeForm # "register",
                      asked # 0, since # Countdown
               PROVE  codeForm = "reset" /\ refusal # 0 /\ (refusal = asked \/ crossing)
    OBVIOUS
  <2>0. Kinds /\ Numbers /\ Counting /\ LastCode
    BY DEF CountdownInv
  <2>1. since < Countdown
    BY <2>0, CodesAssumption DEF Numbers, CodesAssumption
  <2>2. Clicked
    BY CodesNextIs, SubmitKeepsCountdown, ElsewhereKeepsCountdown DEF CodeFails, Second
  <2>3. ~disableButton
    BY <2>0, <2>2, ClickAsks
  <2>4. Disables
    BY <2>2 DEF Clicked, SendRegisterCode, RegisterButton, SendEmailCode, EmailButton, SendReset,
                ResetButton, ConfirmReset, ConfirmButton, Disables
  <2>5. codeForm = "reset" /\ refusal # 0
    BY <2>0, <2>1, <2>3, <2>4 DEF Counting, Waiting
  <2> QED BY <2>0, <2>5 DEF LastCode
<1> QED BY <1>1, CountdownIsKept, PTL DEF CodesSpec, CodesAreSpaced

-----------------------------------------------------------------------------
(* Session: the tab that logged in or out last, and the two sides.         *)

SomeUser == User \cup {None}

SessionKinds ==
    /\ session \in SomeUser /\ local \in SomeUser
    /\ ctx \in [Tab -> SomeUser] /\ writer \in Tab /\ begun \in Nat
    /\ mixed \in BOOLEAN /\ expired \in BOOLEAN
    /\ logins \subseteq [n : Nat, tab : Tab \cup {None},
                         kind : {"login", "wechat", "oauth", "logout", "delete"},
                         user : SomeUser, answer : {"none", "success", "failure", "bind"}]

\* What the browser stores is the session's user, or nobody.
Agree == expired \/ local = None \/ session = local

LogsIn(c) == c.kind \in {"login", "wechat", "oauth"}

\* Or the answer to the one call under way makes it so.
Agreeing(c) ==
    IF c.kind = "logout" /\ c.answer # "none" THEN TRUE
    ELSE IF LogsIn(c) /\ c.answer = "success" THEN expired \/ session = c.user
    ELSE Agree

SidesInv ==
    ~mixed => \/ logins = {} /\ Agree
              \/ \E c : logins = {c} /\ Agreeing(c)

SessionInv == SessionKinds /\ WriterShowsTheStoredUser /\ SidesInv

\* The tab that navigates shows the user given or the one stored; the others are left alone.
LEMMA NavigateContext ==
    ASSUME SessionKinds, NEW t \in Tab, NEW p, NEW user \in SomeUser, NEW stored \in SomeUser,
           Navigate(t, p, user, stored)
    PROVE  /\ ctx' \in [Tab -> SomeUser]
           /\ ctx'[t] = user \/ (stored # None /\ ctx'[t] = stored)
           /\ \A s \in Tab \ {t} : ctx'[s] = ctx[s]
BY DEF SessionKinds, Navigate, loadStoredUser

\* A tab that takes over what is stored, or stays as it is, is no less right than it was.
LEMMA ContextKept ==
    ASSUME SessionKinds, WriterShowsTheStoredUser, UNCHANGED <<local, writer>>, NEW t \in Tab,
           ctx' \in [Tab -> SomeUser], \A s \in Tab \ {t} : ctx'[s] = ctx[s],
           ctx'[t] \in {ctx[t], local}
    PROVE  WriterShowsTheStoredUser'
BY DEF SessionKinds, WriterShowsTheStoredUser

LEMMA RestartInv ==
    ASSUME SessionInv, NEW t \in Tab, NEW p, Restart(t, p)
    PROVE  SessionInv'
<1>1. /\ UNCHANGED <<session, local, begun, writer, expired>> /\ logins' = Orphaned(t)
      /\ ctx' = [ctx EXCEPT ![t] = local]
  BY DEF Restart
<1>2. mixed' \in BOOLEAN /\ (~mixed' => ~mixed /\ logins' = logins)
  BY Zenon DEF Restart
<1>3. SessionKinds'
  BY <1>1, <1>2 DEF SessionInv, SessionKinds, Orphaned, SomeUser
<1>4. WriterShowsTheStoredUser'
  BY <1>1, <1>3, ContextKept DEF SessionInv, SessionKinds
<1>5. SidesInv'
  BY <1>1, <1>2 DEF SessionInv, SidesInv, Agree, Agreeing, LogsIn
<1> QED BY <1>3, <1>4, <1>5 DEF SessionInv

LEMMA FollowLinkInv ==
    ASSUME SessionInv, NEW t \in Tab, FollowLink(t)
    PROVE  SessionInv'
<1>1. UNCHANGED <<session, local, logins, begun, writer, expired, mixed>>
  BY DEF FollowLink
<1>2. PICK p : Navigate(t, p, ctx[t], local)
  BY DEF FollowLink
<1>3. /\ ctx' \in [Tab -> SomeUser] /\ ctx'[t] \in {ctx[t], local}
      /\ \A s \in Tab \ {t} : ctx'[s] = ctx[s]
  BY <1>2, NavigateContext DEF SessionInv, SessionKinds
<1>4. SessionKinds'
  BY <1>1, <1>3 DEF SessionInv, SessionKinds
<1>5. WriterShowsTheStoredUser'
  BY <1>1, <1>3, ContextKept DEF SessionInv
<1>6. SidesInv'
  BY <1>1 DEF SessionInv, SidesInv, Agree, Agreeing, LogsIn
<1> QED BY <1>4, <1>5, <1>6 DEF SessionInv

LEMMA CallInv ==
    ASSUME SessionInv, NEW t \in Tab, NEW user \in SomeUser,
           NEW how \in {"login", "wechat", "logout", "delete"}, Call(t, how, user),
           UNCHANGED ctx
    PROVE  SessionInv'
<1>1. PICK c : c = [n |-> begun, tab |-> t, kind |-> how, user |-> user, answer |-> "none"]
  OBVIOUS
<1>2. /\ UNCHANGED <<session, local, ctx, writer, expired>> /\ begun' = begun + 1
      /\ logins' = logins \cup {c}
  BY <1>1 DEF Call
<1>3. mixed' \in BOOLEAN /\ (~mixed' => ~mixed /\ logins = {})
  BY Zenon DEF Call
<1>4. SessionKinds'
  BY <1>1, <1>2, <1>3 DEF SessionInv, SessionKinds
<1>5. WriterShowsTheStoredUser'
  BY <1>2 DEF SessionInv, WriterShowsTheStoredUser
<1>6. SidesInv'
  BY <1>1, <1>2, <1>3 DEF SessionInv, SidesInv, Agree, Agreeing, LogsIn
<1> QED BY <1>4, <1>5, <1>6 DEF SessionInv

LEMMA CallbackInv ==
    ASSUME SessionInv, NEW t \in Tab, OAuthCallback(t)
    PROVE  SessionInv'
<1>1. PICK user \in User : logins' = Orphaned(t) \cup
            {[n |-> begun, tab |-> t, kind |-> "oauth", user |-> user, answer |-> "none"]}
  BY DEF OAuthCallback
<1>2. PICK c : c = [n |-> begun, tab |-> t, kind |-> "oauth", user |-> user,
                    answer |-> "none"]
  OBVIOUS
<1>3. /\ UNCHANGED <<session, local, writer, expired>> /\ begun' = begun + 1
      /\ ctx' = [ctx EXCEPT ![t] = local]
  BY DEF OAuthCallback
<1>4. mixed' \in BOOLEAN /\ (~mixed' => ~mixed /\ logins = {})
  BY Zenon DEF OAuthCallback
<1>5. SessionKinds'
  BY <1>1, <1>3, <1>4 DEF SessionInv, SessionKinds, Orphaned, SomeUser
<1>6. WriterShowsTheStoredUser'
  BY <1>3, <1>5, ContextKept DEF SessionInv, SessionKinds
<1>7. logins = {} => logins' = {c}
  BY <1>1, <1>2 DEF Orphaned
<1>8. SidesInv'
  BY <1>2, <1>3, <1>4, <1>7 DEF SessionInv, SidesInv, Agree, Agreeing, LogsIn
<1> QED BY <1>5, <1>6, <1>8 DEF SessionInv

LEMMA HandledInv ==
    ASSUME SessionInv, NEW c \in logins, ServerHandles(c)
    PROVE  SessionInv'
<1>1. PICK answer \in {"success", "failure", "bind"} :
        /\ answer = "bind" => c.kind = "oauth"
        /\ logins' = (logins \ {c}) \cup {[c EXCEPT !.answer = answer]}
        /\ IF answer = "success" /\ c.kind # "delete"
           THEN session' = c.user /\ expired' = FALSE
           ELSE UNCHANGED <<session, expired>>
  BY DEF ServerHandles
<1>2. UNCHANGED <<local, ctx, begun, writer, mixed>> /\ c.answer = "none"
  BY DEF ServerHandles
<1>3. PICK d : d = [c EXCEPT !.answer = answer]
  OBVIOUS
<1>4. /\ d \in [n : Nat, tab : Tab \cup {None},
                kind : {"login", "wechat", "oauth", "logout", "delete"},
                user : SomeUser, answer : {"none", "success", "failure", "bind"}]
      /\ d.kind = c.kind /\ d.user = c.user /\ d.answer = answer /\ c.user \in SomeUser
      /\ c.kind \in {"login", "wechat", "oauth", "logout", "delete"}
      /\ logins' = (logins \ {c}) \cup {d}
  BY <1>1, <1>3 DEF SessionInv, SessionKinds
<1>5. SessionKinds'
  BY <1>1, <1>2, <1>4 DEF SessionInv, SessionKinds
<1>6. WriterShowsTheStoredUser'
  BY <1>2 DEF SessionInv, WriterShowsTheStoredUser
<1>7. ASSUME ~mixed PROVE logins' = {d} /\ Agreeing(d)'
  <2>1. logins = {c} /\ Agreeing(c)
    BY <1>7 DEF SessionInv, SidesInv
  <2>2. Agree
    BY <1>2, <2>1 DEF Agreeing, LogsIn
  <2>3. logins' = {d}
    BY <1>4, <2>1
  <2>4. Agreeing(d)'
    BY <1>1, <1>2, <1>4, <2>2 DEF Agreeing, Agree, LogsIn
  <2> QED BY <2>3, <2>4
<1>8. SidesInv'
  BY <1>2, <1>7 DEF SidesInv
<1> QED BY <1>5, <1>6, <1>8 DEF SessionInv

\* An answer that comes ends its call.
LEMMA DoneSides ==
    ASSUME SessionInv, NEW c \in logins, Done(c), Agreeing(c) => Agree'
    PROVE  SidesInv'
BY DEF SessionInv, SidesInv, Done

LEMMA ReturnedInv ==
    ASSUME SessionAssumption, SessionInv, NEW c \in logins, Returns(c)
    PROVE  SessionInv'
<1>1. /\ c.tab \in Tab /\ c.user \in SomeUser
      /\ c.kind \in {"login", "wechat", "oauth", "logout", "delete"}
  BY DEF Returns, SessionInv, SessionKinds
<1>2. ASSUME Done(c), ctx' \in [Tab -> SomeUser], local' \in SomeUser, writer' \in Tab
      PROVE  SessionKinds'
  BY <1>2 DEF Done, SessionInv, SessionKinds
<1>3. CASE LoginReturns(c)
  <2>1. /\ Done(c) /\ local' = c.user /\ writer' = c.tab /\ c.answer = "success" /\ LogsIn(c)
        /\ \E p : Navigate(c.tab, p, c.user, c.user)
    BY <1>3 DEF LoginReturns, PasswordAccepted, CodeAccepted, LogsIn
  <2>2. ctx' \in [Tab -> SomeUser] /\ ctx'[c.tab] = c.user
    BY <1>1, <2>1, NavigateContext DEF SessionInv
  <2>3. SessionKinds' /\ WriterShowsTheStoredUser'
    BY <1>1, <1>2, <2>1, <2>2 DEF WriterShowsTheStoredUser
  <2>4. Agreeing(c) => Agree'
    BY <2>1 DEF Agreeing, Agree, Done, LogsIn
  <2> QED BY <2>1, <2>3, <2>4, DoneSides DEF SessionInv
<1>4. CASE OAuthBinds(c)
  <2>1. /\ Done(c) /\ UNCHANGED <<local, writer>> /\ c.answer # "success" /\ c.kind = "oauth"
        /\ Navigate(c.tab, Private, ctx[c.tab], local)
    BY <1>4 DEF OAuthBinds
  <2>2. /\ ctx' \in [Tab -> SomeUser] /\ ctx'[c.tab] \in {ctx[c.tab], local}
        /\ \A s \in Tab \ {c.tab} : ctx'[s] = ctx[s]
    BY <1>1, <2>1, NavigateContext DEF SessionInv, SessionKinds
  <2>3. SessionKinds' /\ WriterShowsTheStoredUser'
    BY <1>1, <1>2, <2>1, <2>2, ContextKept DEF SessionInv, SessionKinds
  <2>4. Agreeing(c) => Agree'
    BY <2>1 DEF Agreeing, Agree, Done, LogsIn
  <2> QED BY <2>1, <2>3, <2>4, DoneSides DEF SessionInv
<1>5. CASE LogoutReturns(c)
  <2>1. /\ Done(c) /\ local' = None /\ writer' = c.tab /\ Navigate(c.tab, "auth", None, None)
    BY <1>5 DEF LogoutReturns
  <2>2. ctx' \in [Tab -> SomeUser] /\ ctx'[c.tab] = None
    BY <1>1, <2>1, NavigateContext DEF SessionInv, SomeUser
  <2>3. SessionKinds' /\ WriterShowsTheStoredUser'
    BY <1>1, <1>2, <2>1, <2>2 DEF WriterShowsTheStoredUser, SomeUser
  <2>4. Agree'
    BY <2>1 DEF Agree
  <2> QED BY <2>1, <2>3, <2>4, DoneSides DEF SessionInv
<1>6. CASE DeletionReturns(c)
  <2>1. PICK d : d = [c EXCEPT !.kind = "logout", !.answer = "none"]
    OBVIOUS
  <2>2. /\ UNCHANGED <<session, local, ctx, begun, writer, expired, mixed>>
        /\ logins' = (logins \ {c}) \cup {d} /\ c.kind = "delete"
    BY <1>6, <2>1 DEF DeletionReturns
  <2>3. /\ d \in [n : Nat, tab : Tab \cup {None},
                  kind : {"login", "wechat", "oauth", "logout", "delete"},
                  user : SomeUser, answer : {"none", "success", "failure", "bind"}]
        /\ d.kind = "logout" /\ d.answer = "none"
    BY <2>1 DEF SessionInv, SessionKinds
  <2>4. SessionKinds' /\ WriterShowsTheStoredUser'
    BY <2>2, <2>3 DEF SessionInv, SessionKinds, WriterShowsTheStoredUser
  <2>5. ASSUME ~mixed PROVE logins' = {d} /\ Agreeing(d)'
    <3>1. logins = {c} /\ Agreeing(c)
      BY <2>5 DEF SessionInv, SidesInv
    <3>2. Agree
      BY <2>2, <3>1 DEF Agreeing, LogsIn
    <3> QED BY <2>2, <2>3, <3>1, <3>2 DEF Agreeing, Agree, LogsIn
  <2>6. SidesInv'
    BY <2>2, <2>5 DEF SidesInv
  <2> QED BY <2>4, <2>6 DEF SessionInv
<1>7. CASE RefusalReturns(c)
  <2>1. /\ Done(c) /\ UNCHANGED <<local, ctx, writer>> /\ c.answer = "failure"
        /\ c.kind # "logout"
    BY <1>7 DEF RefusalReturns
  <2>2. SessionKinds' /\ WriterShowsTheStoredUser'
    BY <1>2, <2>1 DEF SessionInv, SessionKinds, WriterShowsTheStoredUser
  <2>3. Agreeing(c) => Agree'
    BY <2>1 DEF Agreeing, Agree, Done, LogsIn
  <2> QED BY <2>1, <2>2, <2>3, DoneSides DEF SessionInv
<1> QED BY <1>3, <1>4, <1>5, <1>6, <1>7 DEF Returns

LEMMA SessionStep ==
    ASSUME SessionAssumption, SessionInv, [SessionNext]_sessionVars
    PROVE  SessionInv'
<1>1. ASSUME NEW t \in Tab, FollowLink(t) PROVE SessionInv'
  BY <1>1, FollowLinkInv
<1>2. ASSUME NEW t \in Tab, Open(t) \/ Unauthorized(t) PROVE SessionInv'
  BY <1>2, RestartInv DEF Open, Unauthorized
<1>3. ASSUME NEW t \in Tab, Login(t) \/ WeChatLogin(t) PROVE SessionInv'
  <2>1. PICK user \in User, how \in {"login", "wechat"} : Call(t, how, user)
    BY <1>3 DEF Login, WeChatLogin
  <2>2. UNCHANGED ctx
    BY <1>3 DEF Login, WeChatLogin
  <2> QED BY <2>1, <2>2, CallInv DEF SomeUser
<1>4. ASSUME NEW t \in Tab, Logout(t) \/ DeleteAccount(t) PROVE SessionInv'
  <2>1. PICK how \in {"logout", "delete"} : Call(t, how, None)
    BY <1>4 DEF Logout, DeleteAccount
  <2>2. UNCHANGED ctx
    BY <1>4 DEF Logout, DeleteAccount
  <2> QED BY <2>1, <2>2, CallInv DEF SomeUser
<1>5. ASSUME NEW t \in Tab, OAuthCallback(t) PROVE SessionInv'
  BY <1>5, CallbackInv
<1>6. ASSUME NEW c \in logins, ServerHandles(c) PROVE SessionInv'
  BY <1>6, HandledInv
<1>7. ASSUME NEW c \in logins, Returns(c) PROVE SessionInv'
  BY <1>7, ReturnedInv
<1>8. ASSUME NEW c \in logins, Lost(c) PROVE SessionInv'
  BY <1>8 DEF Lost, SessionInv, SessionKinds, WriterShowsTheStoredUser, SidesInv
<1>9. CASE Expire
  <2>1. SessionKinds' /\ WriterShowsTheStoredUser'
    BY <1>9 DEF Expire, SessionInv, SessionKinds, WriterShowsTheStoredUser, SomeUser
  <2>2. SidesInv'
    BY <1>9 DEF Expire, SessionInv, SidesInv, Agreeing, Agree
  <2> QED BY <2>1, <2>2 DEF SessionInv
<1>10. CASE UNCHANGED sessionVars
  BY <1>10 DEF sessionVars, SessionInv, SessionKinds, WriterShowsTheStoredUser, SidesInv,
     Agreeing, Agree, LogsIn
<1> QED BY <1>1, <1>2, <1>3, <1>4, <1>5, <1>6, <1>7, <1>8, <1>9, <1>10 DEF SessionNext

LEMMA SessionInvariant == SessionSpec => []SessionInv
<1>1. SessionInit => SessionInv
  <2> SUFFICES ASSUME SessionInit PROVE SessionInv
    OBVIOUS
  <2>1. SessionKinds
    <3>1. mixed = FALSE /\ expired = FALSE
      BY DEF SessionInit
    <3>2. mixed \in BOOLEAN /\ expired \in BOOLEAN
      BY <3>1
    <3> QED BY <3>2 DEF SessionInit, SessionKinds, SomeUser
  <2>2. WriterShowsTheStoredUser /\ SidesInv
    BY DEF SessionInit, WriterShowsTheStoredUser, SidesInv, Agree
  <2> QED BY <2>1, <2>2 DEF SessionInv
<1>2. SessionInv /\ [SessionNext]_sessionVars => SessionInv'
  BY SessionStep, SessionAssumption
<1> QED BY <1>1, <1>2, PTL DEF SessionSpec

\* For any tabs and users, and any number of logins, logouts and deletions: the tab that last
\* changed the stored user shows it, and calls that did not overlap leave the browser with the
\* session's user (loadStoredUser, handleSubmit, logout, deleteAccount).
THEOREM WhoIsShownIsLoggedIn == SessionSpec => []SessionIsShown
<1>1. SessionInv => SessionIsShown
  BY DEF SessionInv, SessionKinds, SidesInv, Agree, SessionIsShown, StoredUserIsTheSessions
<1> QED BY <1>1, SessionInvariant, PTL

-----------------------------------------------------------------------------
(* Pages: what they show is what the backend said.                         *)

\* What a page asks for.
Ops(p) ==
    CASE p = "topup" -> {"self", "topup"}
      [] p = "limits" -> {"groups", "options", "save"}
      [] p = "providers" -> {"providers", "channels"}
      [] OTHER -> {p}

IsCall(c) ==
    /\ c = [n |-> c.n, op |-> c.op, arg |-> c.arg, answer |-> c.answer]
    /\ c.n \in 1 .. called /\ c.op \in Ops(page)
    /\ c.op = "self" /\ c.answer.kind = "ok" => c.answer.data \in Int
    /\ c.op = "health" /\ c.answer.kind = "ok" => c.answer.data \in Sample

\* One request at a time, unless requests crossed, where what is shown depends on it.
CallsInv ==
    /\ page \in {"topup", "limits", "health", "providers", "home", "about", "dashboard"}
    /\ called \in Nat
    /\ \A c \in calls : IsCall(c)
    /\ ~crossed /\ page \in {"topup", "health"} => \A c, d \in calls : c = d

\* What the quota shown lacks is in the answer on its way.
TopUpInv ==
    /\ userQuota \in Int /\ serverQuota \in Int /\ spent \in Int
    /\ page = "topup" /\ ~crossed =>
        /\ calls = {} => userQuota = serverQuota + spent
        /\ \A c \in calls :
            /\ c.op = "topup" => userQuota + (IF c.answer.kind = "ok" THEN CodeValue ELSE 0)
                                     = serverQuota + spent
            /\ c.op = "self" /\ c.answer.kind = "ok" => c.answer.data = serverQuota + spent

\* Limits that may be saved are not blank.
LimitsInv ==
    /\ page # "limits" => storedLimits = <<>>
    /\ page = "limits" /\ ~crossed =>
        /\ storedLimits # <<>> => DOMAIN storedLimits[1] # {}
        /\ ~busy => DOMAIN limits # {}

\* A poll under way is newer than the one shown.
HealthInv ==
    /\ serverHealth \in Sample /\ health \in Sample
    /\ newestPoll \in 0 .. called
    /\ page = "health" /\ ~crossed =>
        healthPoll = newestPoll /\ \A c \in calls : newestPoll < c.n

PagesInv == CallsInv /\ TopUpInv /\ LimitsInv /\ HealthInv

\* Each request is of one page.
LEMMA PageOfOp ==
    ASSUME CallsInv, NEW c \in calls
    PROVE  /\ c.op \in {"self", "topup"} <=> page = "topup"
           /\ c.op \in {"groups", "options", "save"} <=> page = "limits"
           /\ c.op \in {"providers", "channels"} <=> page = "providers"
           /\ c.op = "health" <=> page = "health"
           /\ c.op = "home" <=> page = "home"
           /\ c.op = "about" <=> page = "about"
           /\ c.op = "dashboard" <=> page = "dashboard"
<1>1. c.op \in Ops(page)
  BY DEF CallsInv, IsCall
<1> QED BY <1>1 DEF CallsInv, Ops

LEMMA CallStays ==
    ASSUME NEW c, IsCall(c), called \in Nat, called' \in Nat, called <= called', page' = page
    PROVE  IsCall(c)'
BY DEF IsCall

LEMMA AskedCalls ==
    ASSUME CallsInv, NEW op \in Ops(page), NEW arg, Ask(op, arg), page' = page,
           crossed => crossed', calls = {} \/ crossed' \/ page \notin {"topup", "health"}
    PROVE  /\ CallsInv'
           /\ called' = called + 1
           /\ \E d : /\ calls' = calls \cup {d}
                     /\ d.n = called + 1 /\ d.op = op /\ d.answer.kind = "none"
<1>1. PICK d : d = [n |-> called + 1, op |-> op, arg |-> arg, answer |-> [kind |-> "none"]]
  OBVIOUS
<1>2. calls' = calls \cup {d} /\ called' = called + 1 /\ called \in Nat
  BY <1>1 DEF Ask, CallsInv
<1>3. /\ d = [n |-> d.n, op |-> d.op, arg |-> d.arg, answer |-> d.answer]
      /\ d.n = called + 1 /\ d.op = op /\ d.answer.kind = "none"
  BY <1>1
<1>4. IsCall(d)'
  BY <1>2, <1>3 DEF IsCall
<1>5. \A c \in calls : IsCall(c)'
  BY <1>2, CallStays DEF CallsInv
<1>6. ~crossed' /\ page' \in {"topup", "health"} => calls' = {d}
  BY <1>2
<1> QED BY <1>2, <1>3, <1>4, <1>5, <1>6 DEF CallsInv

LEMMA EndedCalls ==
    ASSUME CallsInv, NEW c \in calls, Ends(c), page' = page, crossed => crossed'
    PROVE  /\ CallsInv'
           /\ calls' \subseteq calls /\ called' = called
           /\ ~crossed /\ page \in {"topup", "health"} => calls' = {}
<1>1. called' = called /\ called \in Nat /\ calls' = calls \ {c}
  BY DEF Ends, CallsInv
<1>2. \A d \in calls' : IsCall(d)'
  BY <1>1, CallStays DEF CallsInv
<1> QED BY <1>1, <1>2 DEF CallsInv

LEMMA MovedCalls ==
    ASSUME CallsInv, NEW c \in calls, NEW d, calls' = (calls \ {c}) \cup {d}, page' = page,
           crossed => crossed', called' \in Nat, called <= called', IsCall(d)'
    PROVE  CallsInv' /\ (~crossed /\ page \in {"topup", "health"} => calls' = {d})
<1>1. \A e \in calls : IsCall(e)'
  BY CallStays DEF CallsInv
<1> QED BY <1>1 DEF CallsInv

LEMMA TypeCodeInv == ASSUME PagesInv, TypeCode PROVE PagesInv'
<1>1. /\ UNCHANGED <<page, calls, called, busy, crossed, userQuota, serverQuota, spent>>
      /\ UNCHANGED <<limits, storedLimits, serverHealth, health, healthPoll, newestPoll>>
  BY DEF TypeCode, callVars, limitVars, healthVars
<1> QED BY <1>1 DEF PagesInv, CallsInv, IsCall, TopUpInv, LimitsInv, HealthInv

LEMMA TopUpKeeps == ASSUME PagesInv, topUp PROVE PagesInv'
<1>1. /\ UNCHANGED <<page, userQuota, serverQuota, spent, limits, storedLimits>>
      /\ UNCHANGED <<serverHealth, health, healthPoll, newestPoll>>
      /\ page = "topup" /\ Ask("topup", redemptionCode) /\ crossed' = (crossed \/ calls # {})
  BY DEF topUp, topUpVars, limitVars, healthVars
<1>2. CallsInv'
  BY <1>1, AskedCalls DEF PagesInv, Ops
<1>3. PICK d : /\ calls' = calls \cup {d}
               /\ d.n = called + 1 /\ d.op = "topup" /\ d.answer.kind = "none"
  BY <1>1, AskedCalls DEF PagesInv, Ops
<1>4. TopUpInv'
  <2>1. ~crossed' => ~crossed /\ calls = {}
    BY <1>1
  <2>2. calls = {} => calls' = {d}
    BY <1>3
  <2> QED BY <1>1, <1>3, <2>1, <2>2 DEF PagesInv, TopUpInv
<1>5. called' = called + 1
  BY <1>1 DEF Ask
<1> QED BY <1>1, <1>2, <1>4, <1>5 DEF PagesInv, CallsInv, LimitsInv, HealthInv

LEMMA ToppedUpKeeps ==
    ASSUME PagesInv, NEW c \in calls, ToppedUp(c) PROVE PagesInv'
<1>1. /\ UNCHANGED <<page, crossed, serverQuota, spent, limits, storedLimits>>
      /\ UNCHANGED <<serverHealth, health, healthPoll, newestPoll>>
      /\ c.op = "topup" /\ Ends(c)
      /\ userQuota' = IF c.answer.kind = "ok" THEN userQuota + CodeValue ELSE userQuota
  BY DEF ToppedUp, limitVars, healthVars
<1>2. page = "topup"
  BY <1>1, PageOfOp DEF PagesInv
<1>3. CallsInv' /\ called' = called /\ (~crossed => calls' = {})
  BY <1>1, <1>2, EndedCalls DEF PagesInv
<1>4. TopUpInv'
  BY <1>1, <1>2, <1>3 DEF PagesInv, TopUpInv, CodeValue
<1> QED BY <1>1, <1>2, <1>3, <1>4 DEF PagesInv, LimitsInv, HealthInv

LEMMA UserQuotaKeeps ==
    ASSUME PagesInv, NEW c \in calls, getUserQuota(c) PROVE PagesInv'
<1>1. /\ UNCHANGED <<page, serverQuota, spent, limits, storedLimits>>
      /\ UNCHANGED <<serverHealth, health, healthPoll, newestPoll>>
      /\ c.op = "self" /\ Ends(c)
      /\ userQuota' = IF c.answer.kind = "ok" THEN c.answer.data ELSE userQuota
      /\ crossed' = (crossed \/ c.answer.kind # "ok")
  BY DEF getUserQuota, limitVars, healthVars
<1>2. page = "topup" /\ IsCall(c)
  BY <1>1, PageOfOp DEF PagesInv, CallsInv
<1>3. CallsInv' /\ called' = called /\ (~crossed => calls' = {})
  BY <1>1, <1>2, EndedCalls DEF PagesInv
<1>4. TopUpInv'
  BY <1>1, <1>2, <1>3 DEF PagesInv, TopUpInv, IsCall
<1> QED BY <1>1, <1>2, <1>3, <1>4 DEF PagesInv, LimitsInv, HealthInv

LEMMA LimitsLoadKeeps ==
    ASSUME PagesInv, NEW c \in calls, LimitsLoad(c) PROVE PagesInv'
<1>1. /\ UNCHANGED <<page, crossed, storedLimits, userQuota, serverQuota, spent>>
      /\ UNCHANGED <<serverHealth, health, healthPoll, newestPoll>>
      /\ c.op \in {"groups", "options"}
  BY DEF LimitsLoad, topUpVars, healthVars
<1>2. page = "limits" /\ called \in Nat /\ IsCall(c)
  BY <1>1, PageOfOp DEF PagesInv, CallsInv
<1>3. CASE /\ called' = called + 1 /\ UNCHANGED <<limits, busy>>
           /\ calls' = (calls \ {c}) \cup {[c EXCEPT !.n = called + 1, !.op = "options",
                                                     !.answer = [kind |-> "none"]]}
  <2>1. PICK d : d = [c EXCEPT !.n = called + 1, !.op = "options", !.answer = [kind |-> "none"]]
    OBVIOUS
  <2>2. /\ d = [n |-> d.n, op |-> d.op, arg |-> d.arg, answer |-> d.answer]
        /\ d.n = called + 1 /\ d.op = "options"
    BY <1>2, <2>1 DEF IsCall
  <2>3. IsCall(d)'
    BY <1>1, <1>2, <1>3, <2>2 DEF IsCall, Ops
  <2>4. CallsInv'
    BY <1>1, <1>2, <1>3, <2>1, <2>3, MovedCalls DEF PagesInv
  <2> QED BY <1>1, <1>2, <1>3, <2>4 DEF PagesInv, TopUpInv, LimitsInv, HealthInv
<1>4. CASE /\ limits' = IF storedLimits # <<>> THEN storedLimits[1] ELSE DEFAULT_LIMITS
           /\ busy' = FALSE
           /\ Ends(c)
  <2>1. CallsInv' /\ called' = called
    BY <1>1, <1>4, EndedCalls DEF PagesInv
  <2>2. DOMAIN DEFAULT_LIMITS # {}
    BY DEF DEFAULT_LIMITS
  <2>3. LimitsInv'
    BY <1>1, <1>4, <2>2 DEF PagesInv, LimitsInv
  <2> QED BY <1>1, <1>2, <2>1, <2>3 DEF PagesInv, TopUpInv, HealthInv
<1> QED BY <1>3, <1>4 DEF LimitsLoad

LEMMA LimitsEditKeeps ==
    ASSUME PagesInv, handleLimitChange \/ resetToDefault PROVE PagesInv'
<1>1. /\ UNCHANGED <<page, calls, called, busy, crossed, userQuota, serverQuota, spent>>
      /\ UNCHANGED <<storedLimits, serverHealth, health, healthPoll, newestPoll>>
  BY DEF handleLimitChange, resetToDefault, callVars, topUpVars, healthVars
<1>2. DOMAIN limits' # {}
  <2>1. CASE handleLimitChange
    <3>1. PICK g, rpm :
            limits' = [h \in DOMAIN limits \cup {g} |-> IF h = g THEN rpm ELSE limits[h]]
      BY <2>1 DEF handleLimitChange
    <3> QED BY <3>1
  <2>2. CASE resetToDefault
    BY <2>2 DEF resetToDefault, DEFAULT_LIMITS
  <2> QED BY <2>1, <2>2
<1> QED BY <1>1, <1>2 DEF PagesInv, CallsInv, IsCall, TopUpInv, LimitsInv, HealthInv

LEMMA SaveLimitsKeeps == ASSUME PagesInv, saveLimits PROVE PagesInv'
<1>1. /\ UNCHANGED <<page, busy, crossed, limits, userQuota, serverQuota, spent>>
      /\ UNCHANGED <<serverHealth, health, healthPoll, newestPoll>>
      /\ page = "limits" /\ ~busy
      /\ storedLimits' = <<limits>> /\ Ask("save", limits)
  BY DEF saveLimits, topUpVars, healthVars
<1>2. CallsInv' /\ called' = called + 1
  BY <1>1, AskedCalls DEF PagesInv, Ops
<1>3. LimitsInv'
  BY <1>1 DEF PagesInv, LimitsInv
<1> QED BY <1>1, <1>2, <1>3 DEF PagesInv, CallsInv, TopUpInv, HealthInv

LEMMA PollKeeps == ASSUME PagesInv, Poll PROVE PagesInv'
<1>1. /\ UNCHANGED <<page, busy, limits, storedLimits, userQuota, serverQuota, spent>>
      /\ UNCHANGED <<serverHealth, health, healthPoll, newestPoll>>
      /\ page = "health" /\ Ask("health", 0) /\ crossed' = (crossed \/ calls # {})
  BY DEF Poll, topUpVars, limitVars, healthVars
<1>2. CallsInv' /\ called' = called + 1
  BY <1>1, AskedCalls DEF PagesInv, Ops
<1>3. PICK d : calls' = calls \cup {d} /\ d.n = called + 1
  BY <1>1, AskedCalls DEF PagesInv, Ops
<1>4. HealthInv'
  <2>1. ~crossed' => ~crossed /\ calls = {}
    BY <1>1
  <2>2. calls = {} => calls' = {d}
    BY <1>3
  <2> QED BY <1>1, <1>2, <1>3, <2>1, <2>2 DEF PagesInv, CallsInv, HealthInv
<1> QED BY <1>1, <1>2, <1>4 DEF PagesInv, TopUpInv, LimitsInv

LEMMA HealthKeeps ==
    ASSUME PagesInv, NEW c \in calls, fetchHealth(c) PROVE PagesInv'
<1>1. /\ UNCHANGED <<page, crossed, limits, storedLimits, userQuota, serverQuota, spent>>
      /\ UNCHANGED serverHealth
      /\ c.op = "health" /\ Ends(c)
      /\ IF c.answer.kind = "ok"
         THEN health' = c.answer.data /\ healthPoll' = c.n /\ newestPoll' = Max({newestPoll, c.n})
         ELSE UNCHANGED <<health, healthPoll, newestPoll>>
  BY DEF fetchHealth, topUpVars, limitVars
<1>2. page = "health" /\ IsCall(c) /\ called \in Nat
  BY <1>1, PageOfOp DEF PagesInv, CallsInv
<1>3. CallsInv' /\ called' = called /\ (~crossed => calls' = {})
  BY <1>1, <1>2, EndedCalls DEF PagesInv
<1>4. /\ newestPoll \in 0 .. called /\ c.n \in 1 .. called
      /\ ~crossed => newestPoll < c.n
  BY <1>2 DEF PagesInv, HealthInv, IsCall
<1>5. /\ Max({newestPoll, c.n}) \in {newestPoll, c.n}
      /\ newestPoll <= Max({newestPoll, c.n}) /\ c.n <= Max({newestPoll, c.n})
  BY <1>2, <1>4, GreaterOfTwo
<1>6. HealthInv'
  <2>1. CASE c.answer.kind = "ok"
    <3>1. PICK m : m = Max({newestPoll, c.n})
      OBVIOUS
    <3>2. /\ health' = c.answer.data /\ healthPoll' = c.n /\ newestPoll' = m
          /\ m \in 0 .. called /\ (~crossed => m = c.n) /\ c.answer.data \in Sample
      BY <1>1, <1>2, <1>4, <1>5, <2>1, <3>1 DEF IsCall
    <3> QED BY <1>1, <1>3, <3>2 DEF PagesInv, HealthInv
  <2>2. CASE c.answer.kind # "ok"
    BY <1>1, <1>3, <2>2 DEF PagesInv, HealthInv
  <2> QED BY <2>1, <2>2
<1> QED BY <1>1, <1>2, <1>3, <1>6 DEF PagesInv, TopUpInv, LimitsInv

\* The answers that only their page shows.
LEMMA OtherAnswersKeep ==
    ASSUME PagesInv, NEW c \in calls,
           LimitsSaved(c) \/ fetchProviders(c) \/ displayHomePageContent(c) \/ displayAbout(c)
    PROVE  PagesInv'
<1>1. /\ UNCHANGED <<page, crossed, limits, storedLimits, userQuota, serverQuota, spent>>
      /\ UNCHANGED <<serverHealth, health, healthPoll, newestPoll>>
      /\ Ends(c) /\ (busy' = busy \/ c.op # "save")
      /\ c.op \in {"save", "providers", "channels", "home", "about"}
  BY DEF LimitsSaved, fetchProviders, displayHomePageContent, displayAbout, topUpVars, limitVars,
     healthVars
<1>2. page \notin {"topup", "health"} /\ (page = "limits" => busy' = busy)
  BY <1>1, PageOfOp DEF PagesInv
<1>3. CallsInv' /\ called' = called
  BY <1>1, EndedCalls DEF PagesInv
<1> QED BY <1>1, <1>2, <1>3 DEF PagesInv, TopUpInv, LimitsInv, HealthInv

LEMMA DashboardDataKeeps ==
    ASSUME PagesInv, NEW c \in calls, fetchDashboardData(c) PROVE PagesInv'
<1>1. /\ UNCHANGED <<page, busy, crossed, limits, storedLimits, userQuota, serverQuota, spent>>
      /\ UNCHANGED <<serverHealth, health, healthPoll, newestPoll>>
      /\ Ends(c) /\ c.op = "dashboard"
  BY DEF fetchDashboardData, topUpVars, limitVars, healthVars
<1>2. page = "dashboard"
  BY <1>1, PageOfOp DEF PagesInv
<1>3. CallsInv' /\ called' = called
  BY <1>1, EndedCalls DEF PagesInv
<1> QED BY <1>1, <1>2, <1>3 DEF PagesInv, TopUpInv, LimitsInv, HealthInv

\* What asks for nothing.
LEMMA ClickKeeps ==
    ASSUME PagesInv,
           handleAccordionClick \/ setRangeDays \/ LanguageChanges \/ Midnight
    PROVE  PagesInv'
<1>1. /\ UNCHANGED <<page, calls, called, busy, crossed, userQuota, serverQuota, spent>>
      /\ UNCHANGED <<limits, storedLimits, serverHealth, health, healthPoll, newestPoll>>
  BY DEF handleAccordionClick, setRangeDays, LanguageChanges, Midnight, callVars, topUpVars,
     limitVars, healthVars
<1> QED BY <1>1 DEF PagesInv, CallsInv, IsCall, TopUpInv, LimitsInv, HealthInv

\* The quota asked for is answered with what is left of it, that of a code is added to it.
LEMMA AnsweredKeeps ==
    ASSUME PagesInv, NEW c \in calls, ServerAnswersPage(c) PROVE PagesInv'
<1>1. /\ UNCHANGED <<page, called, busy, crossed, userQuota, limits, storedLimits>>
      /\ UNCHANGED <<serverHealth, health, healthPoll, newestPoll>>
      /\ c.answer.kind = "none" /\ spent' = IF c.op = "self" THEN 0 ELSE spent
  BY DEF ServerAnswersPage, limitVars, healthVars
<1>2. PICK told, ok :
        /\ told \in PageAnswers(c) /\ ok \in BOOLEAN
        /\ calls' = (calls \ {c}) \cup
               {[c EXCEPT !.answer = IF ok THEN [kind |-> "ok", data |-> told] ELSE Refusal]}
        /\ IF ok /\ c.op = "topup"
           THEN serverQuota' = serverQuota + CodeValue /\ unused' = unused \ {c.arg}
           ELSE UNCHANGED <<serverQuota, unused>>
  BY DEF ServerAnswersPage
<1>3. PICK answer : answer = IF ok THEN [kind |-> "ok", data |-> told] ELSE Refusal
  OBVIOUS
<1>4. PICK d : d = [c EXCEPT !.answer = answer]
  OBVIOUS
<1>5. IsCall(c) /\ called \in Nat
  BY DEF PagesInv, CallsInv
<1>6. /\ d = [n |-> d.n, op |-> d.op, arg |-> d.arg, answer |-> d.answer]
      /\ d.n = c.n /\ d.op = c.op /\ d.answer = answer
  BY <1>4, <1>5 DEF IsCall
<1>7. /\ ok => answer.kind = "ok" /\ answer.data = told
      /\ ~ok => answer.kind = "refused"
  BY <1>3 DEF Refusal
<1>8. /\ c.op = "self" => told = serverQuota
      /\ c.op = "health" => told = serverHealth
  BY <1>2 DEF PageAnswers
<1>9. IsCall(d)'
  BY <1>1, <1>5, <1>6, <1>7, <1>8 DEF IsCall, PagesInv, TopUpInv, HealthInv
<1>10. calls' = (calls \ {c}) \cup {d}
  BY <1>2, <1>3, <1>4
<1>11. CallsInv' /\ (~crossed /\ page \in {"topup", "health"} => calls' = {d})
  BY <1>1, <1>5, <1>9, <1>10, MovedCalls DEF PagesInv
<1>12. TopUpInv'
  <2>1. serverQuota' = IF ok /\ c.op = "topup" THEN serverQuota + 2 ELSE serverQuota
    BY <1>2 DEF CodeValue
  <2>2. userQuota' \in Int /\ serverQuota' \in Int /\ spent' \in Int
    BY <1>1, <2>1 DEF PagesInv, TopUpInv
  <2>3. ASSUME page = "topup", ~crossed, c.op = "topup"
        PROVE  userQuota' + (IF d.answer.kind = "ok" THEN 2 ELSE 0) = serverQuota' + spent'
    <3>1. userQuota = serverQuota + spent
      <4>1. userQuota + 0 = serverQuota + spent
        BY <1>1, <2>3 DEF PagesInv, TopUpInv
      <4> QED BY <4>1 DEF PagesInv, TopUpInv
    <3>2. userQuota' = userQuota /\ spent' = spent
      BY <1>1, <2>3
    <3>3. CASE ok
      BY <1>6, <1>7, <2>1, <2>3, <3>1, <3>2, <3>3 DEF PagesInv, TopUpInv
    <3>4. CASE ~ok
      BY <1>6, <1>7, <2>1, <2>3, <3>1, <3>2, <3>4 DEF PagesInv, TopUpInv
    <3> QED BY <1>2, <3>3, <3>4
  <2>4. ASSUME c.op = "self", d.answer.kind = "ok" PROVE d.answer.data = serverQuota' + spent'
    <3>1. ok /\ serverQuota' = serverQuota /\ spent' = 0
      BY <1>1, <1>6, <1>7, <2>1, <2>4
    <3>2. d.answer.data = serverQuota /\ serverQuota \in Int
      BY <1>6, <1>7, <1>8, <2>4, <3>1 DEF PagesInv, TopUpInv
    <3> QED BY <3>1, <3>2
  <2> QED BY <1>1, <1>6, <1>11, <2>2, <2>3, <2>4 DEF TopUpInv, CodeValue
<1>13. HealthInv'
  BY <1>1, <1>6, <1>10 DEF PagesInv, HealthInv
<1> QED BY <1>1, <1>11, <1>12, <1>13 DEF PagesInv, LimitsInv

LEMMA WorldKeeps == ASSUME PagesAssumption, PagesInv, WorldMoves PROVE PagesInv'
<1>1. /\ UNCHANGED <<page, calls, called, busy, crossed, userQuota, limits, storedLimits>>
      /\ UNCHANGED <<health, healthPoll, newestPoll>>
  BY DEF WorldMoves, callVars, limitVars
<1>2. \/ serverQuota' = serverQuota - 1 /\ spent' = spent + 1
      \/ serverQuota' = serverQuota /\ spent' = spent
  BY DEF WorldMoves
<1>3. serverHealth' = serverHealth \/ serverHealth' \in Sample
  BY DEF WorldMoves
<1>4. serverQuota' \in Int /\ spent' \in Int /\ serverQuota' + spent' = serverQuota + spent
  BY <1>2 DEF PagesInv, TopUpInv
<1>5. TopUpInv'
  BY <1>1, <1>4 DEF PagesInv, TopUpInv
<1>6. HealthInv'
  BY <1>1, <1>3 DEF PagesInv, HealthInv
<1> QED BY <1>1, <1>5, <1>6 DEF PagesInv, CallsInv, IsCall, LimitsInv

\* What is lost leaves the page behind, which is told by the history.
LEMMA BreaksKeep ==
    ASSUME PagesInv, NEW c \in calls, PageBreaks(c) PROVE PagesInv'
<1>1. /\ UNCHANGED <<page, limits, storedLimits, userQuota, serverQuota, spent>>
      /\ UNCHANGED <<serverHealth, health, healthPoll, newestPoll>>
      /\ crossed => crossed'
      /\ c.op # "save" => crossed'
      /\ busy /\ c.op = "save" => busy'
  BY DEF PageBreaks, topUpVars, limitVars, healthVars
<1>2. called \in Nat /\ IsCall(c)
  BY DEF PagesInv, CallsInv
<1>3. CallsInv' /\ called' \in Nat /\ called <= called'
  <2>1. CASE c.op = "providers"
    <3>1. PICK d : d = [c EXCEPT !.n = called + 1, !.op = "channels",
                                 !.answer = [kind |-> "none"]]
      OBVIOUS
    <3>2. called' = called + 1 /\ calls' = (calls \ {c}) \cup {d}
      BY <2>1, <3>1 DEF PageBreaks
    <3>3. /\ d = [n |-> d.n, op |-> d.op, arg |-> d.arg, answer |-> d.answer]
          /\ d.n = called + 1 /\ d.op = "channels"
      BY <1>2, <3>1 DEF IsCall
    <3>4. page = "providers"
      BY <2>1, PageOfOp DEF PagesInv
    <3>5. IsCall(d)'
      BY <1>1, <1>2, <3>2, <3>3, <3>4 DEF IsCall, Ops
    <3> QED BY <1>1, <1>2, <3>2, <3>5, MovedCalls DEF PagesInv
  <2>2. CASE c.op # "providers"
    <3>1. Ends(c)
      BY <2>2 DEF PageBreaks
    <3> QED BY <1>1, <1>2, <3>1, EndedCalls DEF PagesInv
  <2> QED BY <2>1, <2>2
<1>4. crossed' \/ (page = "limits" /\ (busy => busy'))
  BY <1>1, PageOfOp DEF PagesInv
<1>5. HealthInv'
  BY <1>1, <1>2, <1>3, <1>4 DEF PagesInv, HealthInv
<1> QED BY <1>1, <1>3, <1>4, <1>5 DEF PagesInv, TopUpInv, LimitsInv

LEMMA FirstCallIsOfPage ==
    ASSUME CallsInv
    PROVE  FirstCall(page) \in Ops(page)
BY DEF CallsInv, FirstCall, Ops

LEMMA RevisitKeeps == ASSUME PagesInv, Revisit PROVE PagesInv'
<1>1. /\ UNCHANGED <<page, crossed, storedLimits, userQuota, serverQuota, spent>>
      /\ UNCHANGED <<serverHealth, health, healthPoll, newestPoll>>
      /\ page \in {"limits", "home", "about"} /\ busy' = TRUE
      /\ called' = called + 1 /\ calls' = Saves \cup {[Mounts(page) EXCEPT !.n = called + 1]}
  BY DEF Revisit, topUpVars, healthVars
<1>2. PICK d : d = [Mounts(page) EXCEPT !.n = called + 1]
  OBVIOUS
<1>3. PICK op : op = FirstCall(page)
  OBVIOUS
<1>4. /\ d = [n |-> d.n, op |-> d.op, arg |-> d.arg, answer |-> d.answer]
      /\ d.n = called + 1 /\ d.op = op /\ d.answer.kind = "none"
  BY <1>2, <1>3 DEF Mounts
<1>5. op \in Ops(page) /\ called \in Nat
  BY <1>3, FirstCallIsOfPage DEF PagesInv, CallsInv
<1>6. IsCall(d)'
  BY <1>1, <1>4, <1>5 DEF IsCall
<1>7. \A e \in Saves : IsCall(e)'
  BY <1>1, <1>5, CallStays DEF PagesInv, CallsInv, Saves
<1>8. CallsInv'
  BY <1>1, <1>2, <1>5, <1>6, <1>7 DEF PagesInv, CallsInv
<1> QED BY <1>1, <1>5, <1>8 DEF PagesInv, TopUpInv, LimitsInv, HealthInv

LEMMA PagesStep ==
    ASSUME PagesAssumption, PagesInv, [PagesNext]_pagesVars PROVE PagesInv'
<1>1. ASSUME NEW c \in calls, PageReturns(c) PROVE PagesInv'
  BY <1>1, ToppedUpKeeps, UserQuotaKeeps, LimitsLoadKeeps, HealthKeeps, OtherAnswersKeep,
     DashboardDataKeeps DEF PageReturns
<1>2. CASE UNCHANGED pagesVars
  <2>1. /\ UNCHANGED <<page, calls, called, busy, crossed, userQuota, serverQuota, spent>>
        /\ UNCHANGED <<limits, storedLimits, serverHealth, health, healthPoll, newestPoll>>
    BY <1>2 DEF pagesVars, callVars, topUpVars, limitVars, healthVars
  <2> QED BY <2>1 DEF PagesInv, CallsInv, IsCall, TopUpInv, LimitsInv, HealthInv
<1> QED BY <1>1, <1>2, TypeCodeInv, TopUpKeeps, LimitsEditKeeps, SaveLimitsKeeps, PollKeeps,
           ClickKeeps, WorldKeeps, RevisitKeeps, AnsweredKeeps, BreaksKeep DEF PagesNext

LEMMA PagesInvariant == PagesSpec => []PagesInv
<1>1. PagesAssumption /\ PagesInit => PagesInv
  <2> SUFFICES ASSUME PagesAssumption, PagesInit PROVE PagesInv
    OBVIOUS
  <2>1. page \in {"topup", "limits", "health", "providers", "home", "about", "dashboard"}
    BY DEF PagesAssumption, PagesInit
  <2>2. PICK op : op = FirstCall(page)
    OBVIOUS
  <2>3. PICK d : d = [n |-> 1, op |-> op, arg |-> 0, answer |-> [kind |-> "none"]]
    OBVIOUS
  <2>4. op \in Ops(page) /\ op # "topup"
    BY <2>1, <2>2 DEF FirstCall, Ops
  <2>5. /\ d = [n |-> d.n, op |-> d.op, arg |-> d.arg, answer |-> d.answer]
        /\ d.n = 1 /\ d.op = op /\ d.answer.kind = "none"
    BY <2>3
  <2>6. calls = {d} /\ called = 1
    BY <2>2, <2>3 DEF PagesInit, Mounts
  <2>7. CallsInv
    BY <2>1, <2>4, <2>5, <2>6 DEF CallsInv, IsCall
  <2>8. TopUpInv
    <3>1. calls # {} /\ \A c \in calls : c.op # "topup" /\ c.answer.kind # "ok"
      BY <2>4, <2>5, <2>6
    <3>2. userQuota = 0 /\ serverQuota = 1 /\ spent = 0
      BY DEF PagesInit
    <3> QED BY <3>1, <3>2 DEF TopUpInv
  <2>9. LimitsInv
    <3>1. page = "limits" => page \notin {"topup", "dashboard"}
      OBVIOUS
    <3>2. page \notin {"topup", "dashboard"} => busy
      BY DEF PagesInit
    <3>3. storedLimits = <<>>
      BY DEF PagesInit
    <3> QED BY <3>1, <3>2, <3>3 DEF LimitsInv
  <2>10. serverHealth \in Sample /\ health = serverHealth /\ healthPoll = 0 /\ newestPoll = 0
    <3>1. /\ serverHealth = (CHOOSE s \in Sample : TRUE) /\ health = serverHealth
          /\ healthPoll = 0 /\ newestPoll = 0
      BY DEF PagesInit
    <3>2. Sample # {}
      BY DEF PagesAssumption
    <3>3. (CHOOSE s \in Sample : TRUE) \in Sample
      BY <3>2
    <3> QED BY <3>1, <3>3
  <2>11. HealthInv
    BY <2>5, <2>6, <2>10 DEF HealthInv
  <2> QED BY <2>7, <2>8, <2>9, <2>11 DEF PagesInv
<1>2. PagesInv /\ [PagesNext]_pagesVars => PagesInv'
  BY PagesStep, PagesAssumption
<1> QED BY <1>1, <1>2, PagesAssumption, PTL DEF PagesSpec

\* Once the saves are answered the server has what the browser stores; while the last is under way,
\* it is the only one.
SavesInv ==
    page = "limits" /\ ~diverged =>
        /\ Saves = {} => serverLimits = storedLimits
        /\ \A c \in Saves :
            /\ Saves = {c} /\ storedLimits = <<c.arg>>
            /\ c.answer.kind = "ok" => serverLimits = storedLimits

LEMMA SavesStay ==
    ASSUME SavesInv, UNCHANGED <<page, storedLimits, serverLimits>>, diverged => diverged',
           Saves' = Saves
    PROVE  SavesInv'
BY DEF SavesInv

LEMMA SaveLimitsSaves == ASSUME PagesInv, SavesInv, saveLimits PROVE SavesInv'
<1>1. /\ page' = page /\ serverLimits' = serverLimits /\ storedLimits' = <<limits>>
      /\ diverged' = (Saves # {}) /\ Ask("save", limits)
  BY DEF saveLimits
<1>2. PICK d : d = [n |-> called + 1, op |-> "save", arg |-> limits, answer |-> [kind |-> "none"]]
  OBVIOUS
<1>3. d.op = "save" /\ d.arg = limits /\ d.answer.kind = "none"
  BY <1>2
<1>4. Saves' = Saves \cup {d}
  BY <1>1, <1>2, <1>3 DEF Ask, Saves
<1> QED BY <1>1, <1>3, <1>4 DEF SavesInv

LEMMA LimitsSavedSaves ==
    ASSUME PagesInv, SavesInv, NEW c \in calls, LimitsSaved(c) PROVE SavesInv'
<1>1. /\ UNCHANGED <<page, storedLimits, serverLimits>> /\ c \in Saves
      /\ diverged' = (diverged \/ c.answer.kind # "ok") /\ Saves' = Saves \ {c}
  BY DEF LimitsSaved, Saves, Ends
<1> QED BY <1>1 DEF SavesInv

\* The other requests of the page are no saves.
LEMMA LimitsLoadSaves ==
    ASSUME PagesInv, SavesInv, NEW c \in calls, LimitsLoad(c) PROVE SavesInv'
<1>1. UNCHANGED <<page, diverged, storedLimits, serverLimits>> /\ c.op # "save"
  BY DEF LimitsLoad
<1>2. PICK d : d = [c EXCEPT !.n = called + 1, !.op = "options", !.answer = [kind |-> "none"]]
  OBVIOUS
<1>3. d.op = "options"
  BY <1>2 DEF PagesInv, CallsInv, IsCall
<1>4. calls' = (calls \ {c}) \cup {d} \/ calls' = calls \ {c}
  BY <1>2 DEF LimitsLoad, Ends
<1>5. Saves' = Saves
  BY <1>1, <1>3, <1>4 DEF Saves
<1> QED BY <1>1, <1>5, SavesStay

LEMMA AnsweredSaves ==
    ASSUME PagesInv, SavesInv, NEW c \in calls, ServerAnswersPage(c) PROVE SavesInv'
<1>1. UNCHANGED <<page, diverged, storedLimits>>
  BY DEF ServerAnswersPage
<1>2. PICK told, ok :
        /\ calls' = (calls \ {c}) \cup
               {[c EXCEPT !.answer = IF ok THEN [kind |-> "ok", data |-> told] ELSE Refusal]}
        /\ serverLimits' = IF ok /\ c.op = "save" THEN <<c.arg>> ELSE serverLimits
        /\ ok \in BOOLEAN
  BY DEF ServerAnswersPage
<1>3. PICK answer : answer = IF ok THEN [kind |-> "ok", data |-> told] ELSE Refusal
  OBVIOUS
<1>4. PICK d : d = [c EXCEPT !.answer = answer]
  OBVIOUS
<1>5. d.op = c.op /\ d.arg = c.arg /\ d.answer = answer
  BY <1>4 DEF PagesInv, CallsInv, IsCall
<1>6. calls' = (calls \ {c}) \cup {d}
  BY <1>2, <1>3, <1>4
<1>7. answer.kind = "ok" => ok
  BY <1>2, <1>3 DEF Refusal
<1>8. CASE c.op = "save"
  <2>1. c \in Saves /\ Saves' = (Saves \ {c}) \cup {d}
    BY <1>5, <1>6, <1>8 DEF Saves
  <2> QED BY <1>1, <1>2, <1>5, <1>7, <1>8, <2>1 DEF SavesInv
<1>9. CASE c.op # "save"
  <2>1. Saves' = Saves /\ serverLimits' = serverLimits
    BY <1>2, <1>5, <1>6, <1>9 DEF Saves
  <2> QED BY <1>1, <2>1, SavesStay
<1> QED BY <1>8, <1>9

LEMMA BreaksSaves ==
    ASSUME PagesInv, SavesInv, NEW c \in calls, PageBreaks(c), page = "limits" PROVE SavesInv'
<1>1. /\ UNCHANGED <<page, storedLimits, serverLimits>>
      /\ diverged => diverged'
      /\ c.op = "save" => diverged'
  BY DEF PageBreaks
<1>2. CASE c.op = "save"
  BY <1>1, <1>2 DEF SavesInv
<1>3. CASE c.op # "save"
  <2>1. calls' = calls \ {c}
    BY <1>3, PageOfOp DEF PageBreaks, PagesInv, Ends
  <2>2. Saves' = Saves
    BY <1>3, <2>1 DEF Saves
  <2> QED BY <1>1, <1>3, <2>2, SavesStay
<1> QED BY <1>2, <1>3

LEMMA RevisitSaves == ASSUME SavesInv, Revisit, page = "limits" PROVE SavesInv'
<1>1. /\ UNCHANGED <<page, diverged, storedLimits, serverLimits>>
      /\ calls' = Saves \cup {[Mounts(page) EXCEPT !.n = called + 1]}
  BY DEF Revisit
<1>2. [Mounts(page) EXCEPT !.n = called + 1].op = "groups"
  BY DEF Mounts, FirstCall
<1>3. Saves' = Saves
  BY <1>1, <1>2 DEF Saves
<1> QED BY <1>1, <1>3, SavesStay

LEMMA SavesStep ==
    ASSUME PagesInv, SavesInv, [PagesNext]_pagesVars PROVE SavesInv'
<1>1. CASE UNCHANGED pagesVars
  <2>1. UNCHANGED <<page, diverged, storedLimits, serverLimits, calls>>
    BY <1>1 DEF pagesVars, callVars, limitVars
  <2> QED BY <2>1, SavesStay DEF Saves
<1>2. CASE PagesNext /\ page # "limits"
  <2>1. page' = page
    BY <1>2 DEF PagesNext, TypeCode, topUp, handleLimitChange, resetToDefault, saveLimits, Poll,
       handleAccordionClick, setRangeDays, LanguageChanges, Midnight, WorldMoves, Revisit,
       ServerAnswersPage, PageReturns, PageBreaks, ToppedUp, getUserQuota, LimitsLoad,
       LimitsSaved, fetchHealth, fetchProviders, displayHomePageContent, displayAbout,
       fetchDashboardData
  <2> QED BY <1>2, <2>1 DEF SavesInv
<1>3. CASE PagesNext /\ page = "limits"
  <2>1. \A c \in calls : c.op \in {"groups", "options", "save"}
    BY <1>3, PageOfOp DEF PagesInv
  <2>2. CASE handleLimitChange \/ resetToDefault
    <3>1. UNCHANGED <<page, diverged, storedLimits, serverLimits, calls>>
      BY <2>2 DEF handleLimitChange, resetToDefault, callVars
    <3> QED BY <3>1, SavesStay DEF Saves
  <2>3. ASSUME NEW c \in calls, PageReturns(c) PROVE SavesInv'
    <3>1. LimitsLoad(c) \/ LimitsSaved(c)
      BY <2>1, <2>3 DEF PageReturns, ToppedUp, getUserQuota, fetchHealth, fetchProviders,
         displayHomePageContent, displayAbout, fetchDashboardData
    <3> QED BY <3>1, LimitsLoadSaves, LimitsSavedSaves
  <2>4. \/ handleLimitChange \/ resetToDefault \/ saveLimits \/ Revisit
        \/ \E c \in calls : ServerAnswersPage(c) \/ PageReturns(c) \/ PageBreaks(c)
    BY <1>3 DEF PagesNext, TypeCode, topUp, Poll, handleAccordionClick, setRangeDays,
       LanguageChanges, Midnight, WorldMoves
  <2> QED BY <1>3, <2>2, <2>3, <2>4, SaveLimitsSaves, RevisitSaves, AnsweredSaves, BreaksSaves
<1> QED BY <1>1, <1>2, <1>3

\* What is answered to the providers' page and to the dashboard.
IsShown(c) ==
    c.answer.kind = "ok" =>
        /\ c.op = "providers" => c.answer.data = GetProviders(conns)
        /\ c.op = "channels" =>
               \E some \in FirstPages : c.answer.data = groupChannelsByType(some)
        /\ c.op = "dashboard" => /\ c.answer.data \in DayUsage
                                 /\ \A x \in c.answer.data : x.day <= today

AnswersInv == \A c \in calls : IsShown(c)

ProvidersInv ==
    /\ conns \in Conn \cup {{}}
    /\ providers # <<>> =>
        \/ providers[1] = GetProviders(conns)
        \/ \E some \in FirstPages : providers[1] = groupChannelsByType(some)

\* The cards are of a day before that of the charts, and these of one before today.
UsageInv ==
    /\ usage \in DayUsage \cup {{}} /\ \A x \in usage : x.day <= chartDay
    /\ {cardDay, chartDay, today} \subseteq FirstDay .. LastDay
    /\ cardDay <= chartDay /\ chartDay <= today
    /\ rangeDays \in RANGE_OPTIONS /\ missed \subseteq {"lines", "bars"}
    /\ summaryData = calculateSummary(usage, cardDay)

ShownInv == AnswersInv /\ ProvidersInv /\ UsageInv

\* Time only passes, and channels are not changed meanwhile.
LEMMA ShownStays ==
    ASSUME PagesAssumption, ShownInv, NEW c, IsShown(c), conns' = conns,
           today' \in FirstDay .. LastDay, today <= today'
    PROVE  IsShown(c)'
<1>1. FirstPages' = FirstPages /\ GetProviders(conns)' = GetProviders(conns)
  BY DEF FirstPages
<1>2. c.answer.kind = "ok" /\ c.op = "dashboard" => \A x \in c.answer.data : x.day <= today'
  <2> SUFFICES ASSUME c.answer.kind = "ok", c.op = "dashboard", NEW x \in c.answer.data
               PROVE  x.day <= today'
    OBVIOUS
  <2>1. c.answer.data \in DayUsage /\ x.day <= today
    BY DEF IsShown
  <2>2. x.day \in Nat /\ today \in Nat /\ today' \in Nat
    BY <2>1 DEF PagesAssumption, ShownInv, UsageInv
  <2> QED BY <2>1, <2>2
<1> QED BY <1>1, <1>2 DEF IsShown

LEMMA AnswersStay ==
    ASSUME PagesAssumption, ShownInv, conns' = conns, today' \in FirstDay .. LastDay,
           today <= today', \A c \in calls' : c \in calls \/ c.answer.kind # "ok"
    PROVE  AnswersInv'
<1>1. ASSUME NEW c \in calls' PROVE IsShown(c)'
  <2>1. IsShown(c)
    BY <1>1 DEF ShownInv, AnswersInv, IsShown
  <2> QED BY <2>1, ShownStays
<1> QED BY <1>1 DEF AnswersInv

\* What is not the backend's answer brings none.
LEMMA NothingTold ==
    ASSUME PagesInv, PagesNext, ~\E c \in calls : ServerAnswersPage(c), NEW d \in calls'
    PROVE  d \in calls \/ d.answer.kind # "ok"
<1>1. ASSUME NEW op, NEW arg, Ask(op, arg) PROVE d \in calls \/ d.answer.kind # "ok"
  <2>1. PICK e : e = [n |-> called + 1, op |-> op, arg |-> arg, answer |-> [kind |-> "none"]]
    OBVIOUS
  <2>2. calls' = calls \cup {e} /\ e.answer.kind = "none"
    BY <1>1, <2>1 DEF Ask
  <2> QED BY <2>2
<1>2. ASSUME NEW c, Ends(c) PROVE d \in calls
  BY <1>2 DEF Ends
<1>3. ASSUME NEW c \in calls, NEW op,
             calls' = (calls \ {c}) \cup {[c EXCEPT !.n = called + 1, !.op = op,
                                                    !.answer = [kind |-> "none"]]}
      PROVE  d \in calls \/ d.answer.kind # "ok"
  <2>1. PICK e : e = [c EXCEPT !.n = called + 1, !.op = op, !.answer = [kind |-> "none"]]
    OBVIOUS
  <2>2. e.answer.kind = "none"
    BY <2>1 DEF PagesInv, CallsInv, IsCall
  <2> QED BY <1>3, <2>1, <2>2
<1>4. CASE Revisit
  <2>1. calls' = Saves \cup {[Mounts(page) EXCEPT !.n = called + 1]}
    BY <1>4 DEF Revisit
  <2>2. [Mounts(page) EXCEPT !.n = called + 1].answer.kind = "none"
    BY DEF Mounts
  <2> QED BY <2>1, <2>2 DEF Saves
<1>5. CASE topUp \/ saveLimits \/ Poll
  BY <1>1, <1>5 DEF topUp, saveLimits, Poll
<1>6. CASE TypeCode \/ handleLimitChange \/ resetToDefault \/ handleAccordionClick \/ setRangeDays
           \/ LanguageChanges \/ Midnight \/ WorldMoves
  <2>1. calls' = calls
    BY <1>6 DEF TypeCode, handleLimitChange, resetToDefault, handleAccordionClick, setRangeDays,
       LanguageChanges, Midnight, WorldMoves, callVars
  <2> QED BY <2>1
<1>7. ASSUME NEW c \in calls, PageReturns(c) PROVE d \in calls \/ d.answer.kind # "ok"
  <2>1. CASE LimitsLoad(c)
    BY <1>2, <1>3, <2>1 DEF LimitsLoad
  <2>2. CASE Ends(c)
    BY <1>2, <2>2
  <2> QED BY <1>7, <2>1, <2>2 DEF PageReturns, ToppedUp, getUserQuota, LimitsSaved, fetchHealth,
          fetchProviders, displayHomePageContent, displayAbout, fetchDashboardData
<1>8. ASSUME NEW c \in calls, PageBreaks(c) PROVE d \in calls \/ d.answer.kind # "ok"
  BY <1>2, <1>3, <1>8 DEF PageBreaks
<1> QED BY <1>4, <1>5, <1>6, <1>7, <1>8 DEF PagesNext

\* The backend says what it has, of the days up to today.
LEMMA TellsWhatIsShown ==
    ASSUME PagesAssumption, PagesInv, ShownInv, NEW c \in calls, ServerAnswersPage(c)
    PROVE  ShownInv'
<1>1. /\ UNCHANGED <<conns, providers, usage, rangeDays, today, summaryData, cardDay, chartDay>>
      /\ UNCHANGED missed
  BY DEF ServerAnswersPage, providerVars, usageVars
<1>2. PICK told, ok :
        /\ told \in PageAnswers(c) /\ ok \in BOOLEAN
        /\ calls' = (calls \ {c}) \cup
               {[c EXCEPT !.answer = IF ok THEN [kind |-> "ok", data |-> told] ELSE Refusal]}
  BY DEF ServerAnswersPage
<1>3. PICK answer : answer = IF ok THEN [kind |-> "ok", data |-> told] ELSE Refusal
  OBVIOUS
<1>4. PICK d : d = [c EXCEPT !.answer = answer]
  OBVIOUS
<1>5. d.op = c.op /\ d.answer = answer
  BY <1>4 DEF PagesInv, CallsInv, IsCall
<1>6. calls' = (calls \ {c}) \cup {d}
  BY <1>2, <1>3, <1>4
<1>7. answer.kind = "ok" => answer.data = told
  BY <1>2, <1>3 DEF Refusal
<1>8. /\ c.op = "providers" => told = GetProviders(conns)
      /\ c.op = "channels" => \E some \in FirstPages : told = groupChannelsByType(some)
      /\ c.op = "dashboard" => told \in DayUsage /\ \A x \in told : x.day <= today
  <2>1. CASE c.op = "providers"
    BY <1>2, <2>1 DEF PageAnswers
  <2>2. CASE c.op = "channels"
    BY <1>2, <2>2 DEF PageAnswers
  <2>3. CASE c.op = "dashboard"
    BY <1>2, <2>3 DEF PageAnswers
  <2> QED BY <2>1, <2>2, <2>3
<1>9. IsShown(d)
  BY <1>5, <1>7, <1>8 DEF IsShown
<1>10. today' \in FirstDay .. LastDay /\ today <= today'
  BY <1>1 DEF PagesAssumption, ShownInv, UsageInv
<1>11. AnswersInv'
  <2> SUFFICES ASSUME NEW e \in calls' PROVE IsShown(e)'
    BY DEF AnswersInv
  <2>1. IsShown(e)
    BY <1>6, <1>9 DEF ShownInv, AnswersInv
  <2> QED BY <1>1, <1>10, <2>1, ShownStays
<1>12. ProvidersInv'
  BY <1>1 DEF ShownInv, ProvidersInv, FirstPages
<1>13. UsageInv'
  BY <1>1 DEF ShownInv, UsageInv
<1> QED BY <1>11, <1>12, <1>13 DEF ShownInv

\* The dashboard is drawn again.
LEMMA RendersKeeps ==
    ASSUME PagesAssumption, UsageInv, Renders, UNCHANGED <<usage, today, summaryData, cardDay>>,
           rangeDays' \in RANGE_OPTIONS
    PROVE  UsageInv'
<1>1. chartDay' = today /\ missed' \subseteq {"lines", "bars"}
  BY DEF Renders
<1>2. /\ cardDay \in Nat /\ chartDay \in Nat /\ today \in FirstDay .. LastDay
      /\ cardDay <= chartDay /\ chartDay <= today /\ today \in Nat
  BY DEF UsageInv, PagesAssumption
<1>3. \A x \in usage : x.day <= today
  <2> SUFFICES ASSUME NEW x \in usage PROVE x.day <= today
    OBVIOUS
  <2>1. x.day \in Nat /\ x.day <= chartDay
    BY DEF UsageInv, PagesAssumption
  <2> QED BY <1>2, <2>1
<1> QED BY <1>1, <1>2, <1>3 DEF UsageInv

LEMMA ShowsKeeps ==
    ASSUME PagesAssumption, UsageInv, NEW items \in DayUsage \cup {{}},
           \A x \in items : x.day <= today, ShowUsage(items), UNCHANGED <<today, rangeDays>>
    PROVE  UsageInv'
<1>1. /\ usage' = items /\ summaryData' = calculateSummary(items, today)
      /\ cardDay' = today /\ chartDay' = today /\ missed' \subseteq {"lines", "bars"}
  BY DEF ShowUsage, Renders
<1>2. today \in FirstDay .. LastDay /\ today \in Int
  BY DEF UsageInv, PagesAssumption
<1>3. calculateSummary(usage, cardDay)' = calculateSummary(items, today)
  BY <1>1 DEF calculateSummary, RequestsOf, TokensOf
<1> QED BY <1>1, <1>2, <1>3 DEF UsageInv

LEMMA MidnightKeeps ==
    ASSUME PagesAssumption, UsageInv, Midnight PROVE UsageInv' /\ today <= today'
<1>1. /\ UNCHANGED <<usage, rangeDays, summaryData, cardDay, chartDay, missed>>
      /\ today < LastDay /\ today' = today + 1
  BY DEF Midnight
<1>2. today \in FirstDay .. LastDay /\ FirstDay \in Nat /\ LastDay \in Nat /\ chartDay \in Nat
  BY DEF UsageInv, PagesAssumption
<1>3. today' \in FirstDay .. LastDay /\ chartDay <= today' /\ today <= today'
  BY <1>1, <1>2 DEF UsageInv
<1> QED BY <1>1, <1>3 DEF UsageInv

LEMMA ShownStep ==
    ASSUME PagesAssumption, PagesInv, ShownInv, [PagesNext]_pagesVars PROVE ShownInv'
<1>1. CASE UNCHANGED pagesVars
  <2>1. /\ UNCHANGED <<conns, providers, usage, rangeDays, today, summaryData, cardDay, chartDay>>
        /\ UNCHANGED <<missed, calls>>
    BY <1>1 DEF pagesVars, callVars, providerVars, usageVars
  <2> QED BY <2>1 DEF ShownInv, AnswersInv, IsShown, ProvidersInv, UsageInv, FirstPages
<1>2. CASE \E c \in calls : ServerAnswersPage(c)
  BY <1>2, TellsWhatIsShown
<1>3. CASE PagesNext /\ ~\E c \in calls : ServerAnswersPage(c)
  <2>1. conns' = conns
    BY <1>3 DEF PagesNext, TypeCode, topUp, handleLimitChange, resetToDefault, saveLimits, Poll,
       handleAccordionClick, setRangeDays, LanguageChanges, Midnight, WorldMoves, Revisit,
       PageReturns, PageBreaks, ToppedUp, getUserQuota, LimitsLoad, LimitsSaved, fetchHealth,
       fetchProviders, displayHomePageContent, displayAbout, fetchDashboardData, providerVars
  <2>2. ProvidersInv'
    <3>1. CASE \E c \in calls : fetchProviders(c)
      <4>1. PICK c \in calls : fetchProviders(c)
        BY <3>1
      <4>2. providers' = (IF c.answer.kind = "ok" THEN <<c.answer.data>> ELSE providers)
            /\ c.op \in {"providers", "channels"} /\ IsShown(c)
        BY <4>1 DEF fetchProviders, ShownInv, AnswersInv
      <4> QED BY <2>1, <4>2 DEF ShownInv, ProvidersInv, IsShown, FirstPages
    <3>2. CASE ~\E c \in calls : fetchProviders(c)
      <4>1. providers' = providers
        BY <1>3, <3>2 DEF PagesNext, TypeCode, topUp, handleLimitChange, resetToDefault,
           saveLimits, Poll, handleAccordionClick, setRangeDays, LanguageChanges, Midnight,
           WorldMoves, Revisit, PageReturns, PageBreaks, ToppedUp, getUserQuota, LimitsLoad,
           LimitsSaved, fetchHealth, displayHomePageContent, displayAbout, fetchDashboardData,
           providerVars
      <4> QED BY <2>1, <4>1 DEF ShownInv, ProvidersInv, FirstPages
    <3> QED BY <3>1, <3>2
  <2>3. UsageInv' /\ today <= today'
    <3>1. UsageInv /\ today \in Int
      BY DEF ShownInv, UsageInv, PagesAssumption
    <3>2. CASE UNCHANGED usageVars
      BY <3>1, <3>2 DEF usageVars, UsageInv
    <3>3. CASE Midnight
      BY <3>1, <3>3, MidnightKeeps
    <3>4. CASE setRangeDays \/ LanguageChanges
      BY <3>1, <3>4, RendersKeeps DEF setRangeDays, LanguageChanges, UsageInv
    <3>5. ASSUME NEW c \in calls, fetchDashboardData(c) PROVE UsageInv' /\ today <= today'
      <4>1. IsShown(c) /\ c.op = "dashboard" /\ UNCHANGED <<today, rangeDays>>
        BY <3>5 DEF ShownInv, AnswersInv, fetchDashboardData
      <4>2. CASE c.answer.kind = "ok" /\ ShowUsage(c.answer.data)
        BY <3>1, <4>1, <4>2, ShowsKeeps DEF IsShown
      <4>3. CASE UNCHANGED <<usage, summaryData, cardDay, chartDay, missed>>
        BY <3>1, <4>1, <4>3 DEF UsageInv
      <4> QED BY <3>5, <4>2, <4>3 DEF fetchDashboardData
    <3>6. ASSUME NEW c \in calls, PageBreaks(c) PROVE UsageInv' /\ today <= today'
      <4>1. UNCHANGED <<today, rangeDays>>
        BY <3>6 DEF PageBreaks
      <4>2. CASE ShowUsage({})
        BY <3>1, <4>1, <4>2, ShowsKeeps
      <4>3. CASE UNCHANGED <<usage, summaryData, cardDay, chartDay, missed>>
        BY <3>1, <4>1, <4>3 DEF UsageInv
      <4> QED BY <3>6, <4>2, <4>3 DEF PageBreaks
    <3> QED BY <1>3, <3>2, <3>3, <3>4, <3>5, <3>6 DEF PagesNext, TypeCode, topUp,
            handleLimitChange, resetToDefault, saveLimits, Poll, handleAccordionClick,
            WorldMoves, Revisit, PageReturns, ToppedUp, getUserQuota, LimitsLoad, LimitsSaved,
            fetchHealth, fetchProviders, displayHomePageContent, displayAbout
  <2>4. today' \in FirstDay .. LastDay
    BY <2>3 DEF UsageInv
  <2>5. AnswersInv'
    BY <1>3, <2>1, <2>3, <2>4, NothingTold, AnswersStay
  <2> QED BY <2>2, <2>3, <2>5 DEF ShownInv
<1> QED BY <1>1, <1>2, <1>3

LEMMA ShownInvariant == PagesSpec => [](PagesInv /\ SavesInv /\ ShownInv)
<1>1. PagesAssumption /\ PagesInit => SavesInv /\ ShownInv
  <2> SUFFICES ASSUME PagesAssumption, PagesInit PROVE SavesInv /\ ShownInv
    OBVIOUS
  <2>1. calls = {Mounts(page)} /\ Mounts(page).answer.kind = "none"
    BY DEF PagesInit, Mounts
  <2>2. SavesInv
    <3>1. page = "limits" => Mounts(page).op = "groups"
      BY DEF Mounts, FirstCall
    <3>2. page = "limits" => Saves = {}
      BY <2>1, <3>1 DEF Saves
    <3> QED BY <3>2 DEF SavesInv, PagesInit
  <2>3. AnswersInv
    BY <2>1 DEF AnswersInv, IsShown
  <2>4. ProvidersInv
    BY DEF ProvidersInv, PagesInit
  <2>5. FirstDay \in FirstDay .. LastDay /\ FirstDay <= FirstDay
    BY DEF PagesAssumption
  <2>6. UsageInv
    BY <2>5 DEF UsageInv, PagesInit
  <2> QED BY <2>2, <2>3, <2>4, <2>6 DEF ShownInv
<1>2. PagesInv /\ SavesInv /\ ShownInv /\ [PagesNext]_pagesVars => SavesInv' /\ ShownInv'
  BY SavesStep, ShownStep, PagesAssumption
<1> QED BY <1>1, <1>2, PagesInvariant, PagesAssumption, PTL DEF PagesSpec

\* Named types are named alike: by the same types in both maps.
LEMMA NamesAlike ==
    ASSUME NEW type, NEW name \in {"OpenAI", "Qwen"}
    PROVE  NameOfType(typeNameMap, type, <<"Type", type>>) = <<name>>
               <=> NameOfType(ProviderTypeMap, type, <<"other">>) = <<name>>
<1>1. /\ <<"Type", type>> # <<name>> /\ <<"other">> # <<name>>
      /\ \A n : <<n>> = <<name>> <=> n = name
  OBVIOUS
<1>2. /\ DOMAIN typeNameMap = {1, 17, 49} /\ DOMAIN ProviderTypeMap = {1, 3, 17, 49}
      /\ \A t \in {1, 17, 49} : ProviderTypeMap[t] = typeNameMap[t]
      /\ ProviderTypeMap[3] = "Azure"
  BY DEF typeNameMap, ProviderTypeMap
<1>3. CASE type \in {1, 17, 49}
  BY <1>1, <1>2, <1>3 DEF NameOfType
<1>4. CASE type = 3
  BY <1>1, <1>2, <1>4 DEF NameOfType
<1>5. CASE type \notin {1, 3, 17, 49}
  BY <1>1, <1>2, <1>5 DEF NameOfType
<1> QED BY <1>3, <1>4, <1>5

LEMMA FilledModels ==
    ASSUME NEW mine
    PROVE  (UNION {c.models : c \in mine}) \ {""} = UNION {c.models \ {""} : c \in mine}
<1> DEFINE models == {c.models : c \in mine}
           filled == {c.models \ {""} : c \in mine}
<1>1. ASSUME NEW m \in UNION models, m # "" PROVE m \in UNION filled
  <2>1. PICK c \in mine : m \in c.models
    OBVIOUS
  <2>2. m \in c.models \ {""} /\ c.models \ {""} \in filled
    BY <1>1, <2>1
  <2> HIDE DEF filled
  <2> QED BY <2>2
<1>2. ASSUME NEW m \in UNION filled PROVE m \in UNION models /\ m # ""
  <2>1. PICK c \in mine : m \in c.models \ {""}
    OBVIOUS
  <2>2. m \in c.models /\ c.models \in models
    BY <2>1
  <2> HIDE DEF models
  <2> QED BY <2>1, <2>2
<1> HIDE DEF models, filled
<1>3. (UNION models) \ {""} = UNION filled
  BY <1>1, <1>2
<1> QED BY <1>3 DEF models, filled

\* What some of the channels used up is not more than what all of them did.
LEMMA PartUsesLess ==
    ASSUME NEW theirs, IsFiniteSet(theirs), \A c \in theirs : c.used \in Nat,
           NEW mine \in SUBSET theirs
    PROVE  /\ SumFunctionOnSet([c \in mine |-> c.used], mine)
                <= SumFunctionOnSet([c \in theirs |-> c.used], theirs)
<1>1. PICK f : f = [c \in theirs |-> c.used]
  OBVIOUS
<1>2. PICK g : g = [c \in mine |-> c.used]
  OBVIOUS
<1>3. \A c \in theirs : f[c] \in Nat
  BY <1>1
<1>4. IsFiniteSet(mine) /\ IsFiniteSet(theirs \ mine)
  BY FS_Subset
<1>5. SumFunctionOnSet(g, mine) = SumFunctionOnSet(f, mine)
  <2>1. \A c \in mine : g[c] = f[c]
    BY <1>1, <1>2
  <2> QED BY <1>4, <2>1, SumOfEquals
<1>6. SumFunctionOnSet(f, theirs \ mine) \in Nat /\ SumFunctionOnSet(f, mine) \in Nat
  <2>1. (\A c \in theirs \ mine : f[c] \in Nat) /\ (\A c \in mine : f[c] \in Nat)
    BY <1>3
  <2> QED BY <1>4, <2>1, SumOfNaturals
<1>7. SumFunctionOnSet(f, theirs) = SumFunctionOnSet(f, theirs \ mine) + SumFunctionOnSet(f, mine)
  <2>1. \A c \in theirs : f[c] \in Int
    BY <1>3
  <2> QED BY <2>1, SumSplits
<1>8. SumFunctionOnSet(f, mine) <= SumFunctionOnSet(f, theirs)
  BY <1>6, <1>7
<1> QED BY <1>1, <1>2, <1>5, <1>8

\* What a provider has, of the channels that are its own.
UsedBy(S) == SumFunctionOnSet([c \in S |-> c.used], S)
ModelsOf(S) == UNION {c.models : c \in S}
FilledOf(S) == UNION {c.models \ {""} : c \in S}
PageChannels(S) == {[id |-> c.id, type_name |-> PageName(c)] : c \in S}
BackendChannels(S) == {[id |-> c.id, type_name |-> BackendTypeName(c)] : c \in S}
SomeEnabled(S) == \E c \in S : c.status = 1

OwnOf(all, p) == {c \in all : PageName(c) = p}
TheirsOf(all, p) == {c \in all : BackendName(c) = p}

LEMMA OfFields ==
    ASSUME NEW q, NEW channels, NEW models, NEW enabled, NEW quota,
           q = [channels |-> channels, all_models |-> models, enabled |-> enabled,
                total_used_quota |-> quota]
    PROVE  /\ q.channels = channels /\ q.all_models = models
           /\ q.enabled = enabled /\ q.total_used_quota = quota
OBVIOUS

LEMMA PageGroup ==
    ASSUME NEW all, NEW p \in DOMAIN groupChannelsByType(all)
    PROVE  /\ OwnOf(all, p) # {}
           /\ groupChannelsByType(all)[p].channels = PageChannels(OwnOf(all, p))
           /\ groupChannelsByType(all)[p].all_models = ModelsOf(OwnOf(all, p))
           /\ groupChannelsByType(all)[p].enabled = SomeEnabled(OwnOf(all, p))
           /\ groupChannelsByType(all)[p].total_used_quota = UsedBy(OwnOf(all, p))
<1>1. p \in {PageName(c) : c \in all}
  BY DEF groupChannelsByType, Grouped
<1>2. PICK mine : mine = {c \in all : PageName(c) = p}
  OBVIOUS
<1>3. groupChannelsByType(all)[p]
        = [channels |-> {[id |-> c.id, type_name |-> PageName(c)] : c \in mine},
           all_models |-> UNION {c.models : c \in mine},
           enabled |-> \E c \in mine : c.status = 1,
           total_used_quota |-> SumFunctionOnSet([c \in mine |-> c.used], mine)]
  BY <1>1, <1>2 DEF groupChannelsByType, Grouped
<1>4. groupChannelsByType(all)[p]
        = [channels |-> PageChannels(mine), all_models |-> ModelsOf(mine),
           enabled |-> SomeEnabled(mine), total_used_quota |-> UsedBy(mine)]
  BY <1>3 DEF PageChannels, ModelsOf, SomeEnabled, UsedBy
<1>5. /\ groupChannelsByType(all)[p].channels = PageChannels(mine)
      /\ groupChannelsByType(all)[p].all_models = ModelsOf(mine)
      /\ groupChannelsByType(all)[p].enabled = SomeEnabled(mine)
      /\ groupChannelsByType(all)[p].total_used_quota = UsedBy(mine)
  BY <1>4, OfFields
<1>6. OwnOf(all, p) = mine /\ mine # {}
  BY <1>1, <1>2 DEF OwnOf
<1> QED BY <1>5, <1>6

LEMMA NamedByBackend ==
    ASSUME NEW all, NEW p, TheirsOf(all, p) # {}
    PROVE  p \in DOMAIN GetProviders(all)
<1>1. p \in {BackendName(c) : c \in all}
  BY DEF TheirsOf
<1> QED BY <1>1 DEF GetProviders, Grouped

LEMMA BackendGroup ==
    ASSUME NEW all, NEW p \in DOMAIN GetProviders(all)
    PROVE  /\ GetProviders(all)[p].channels = BackendChannels(TheirsOf(all, p))
           /\ GetProviders(all)[p].all_models = FilledOf(TheirsOf(all, p))
           /\ GetProviders(all)[p].enabled = SomeEnabled(TheirsOf(all, p))
           /\ GetProviders(all)[p].total_used_quota = UsedBy(TheirsOf(all, p))
<1>1. p \in {BackendName(c) : c \in all}
  BY DEF GetProviders, Grouped
<1>2. PICK theirs : theirs = {c \in all : BackendName(c) = p}
  OBVIOUS
<1>3. GetProviders(all)[p]
        = [channels |-> {[id |-> c.id, type_name |-> BackendTypeName(c)] : c \in theirs},
           all_models |-> UNION {c.models \ {""} : c \in theirs},
           enabled |-> \E c \in theirs : c.status = 1,
           total_used_quota |-> SumFunctionOnSet([c \in theirs |-> c.used], theirs)]
  BY <1>1, <1>2 DEF GetProviders, Grouped
<1>4. GetProviders(all)[p]
        = [channels |-> BackendChannels(theirs), all_models |-> FilledOf(theirs),
           enabled |-> SomeEnabled(theirs), total_used_quota |-> UsedBy(theirs)]
  BY <1>3 DEF BackendChannels, FilledOf, SomeEnabled, UsedBy
<1>5. /\ GetProviders(all)[p].channels = BackendChannels(theirs)
      /\ GetProviders(all)[p].all_models = FilledOf(theirs)
      /\ GetProviders(all)[p].enabled = SomeEnabled(theirs)
      /\ GetProviders(all)[p].total_used_quota = UsedBy(theirs)
  BY <1>4, OfFields
<1>6. TheirsOf(all, p) = theirs
  BY <1>2 DEF TheirsOf
<1> QED BY <1>5, <1>6

LEMMA IdsOfGroups ==
    ASSUME NEW S
    PROVE  /\ {channel.id : channel \in PageChannels(S)} = {c.id : c \in S}
           /\ {channel.id : channel \in BackendChannels(S)} = {c.id : c \in S}
<1>1. \A c \in S : \E channel \in PageChannels(S) : channel.id = c.id
  <2> SUFFICES ASSUME NEW c \in S PROVE \E channel \in PageChannels(S) : channel.id = c.id
    OBVIOUS
  <2>1. PICK channel : channel = [id |-> c.id, type_name |-> PageName(c)]
    OBVIOUS
  <2>2. channel \in PageChannels(S) /\ channel.id = c.id
    BY <2>1 DEF PageChannels
  <2> QED BY <2>2
<1>2. \A channel \in PageChannels(S) : \E c \in S : channel.id = c.id
  BY DEF PageChannels
<1>3. \A c \in S : \E channel \in BackendChannels(S) : channel.id = c.id
  <2> SUFFICES ASSUME NEW c \in S PROVE \E channel \in BackendChannels(S) : channel.id = c.id
    OBVIOUS
  <2>1. PICK channel : channel = [id |-> c.id, type_name |-> BackendTypeName(c)]
    OBVIOUS
  <2>2. channel \in BackendChannels(S) /\ channel.id = c.id
    BY <2>1 DEF BackendChannels
  <2> QED BY <2>2
<1>4. \A channel \in BackendChannels(S) : \E c \in S : channel.id = c.id
  BY DEF BackendChannels
<1> QED BY <1>1, <1>2, <1>3, <1>4

\* What the page shows of a provider, as against what the backend says of it.
Within(ours, backends) ==
    /\ Ids(ours) \subseteq Ids(backends)
    /\ ours.all_models \ {""} \subseteq backends.all_models
    /\ ours.enabled => backends.enabled
    /\ ours.total_used_quota <= backends.total_used_quota

SameProvider(ours, backends, p) ==
    /\ Ids(ours) = Ids(backends)
    /\ p # <<"Qwen">> => ours.channels = backends.channels
    /\ ours.all_models \ {""} = backends.all_models
    /\ ours.enabled = backends.enabled
    /\ ours.total_used_quota = backends.total_used_quota

\* A page of the channels grouped: of each provider that both name, a part of what the backend says.
LEMMA PageOfGroups ==
    ASSUME NEW all, IsFiniteSet(all), \A c \in all : c.used \in Nat, NEW some \in SUBSET all,
           NEW name \in {"OpenAI", "Qwen"}, NEW p, p = <<name>>,
           p \in DOMAIN groupChannelsByType(some)
    PROVE  /\ p \in DOMAIN GetProviders(all)
           /\ Within(groupChannelsByType(some)[p], GetProviders(all)[p])
           /\ some = all => SameProvider(groupChannelsByType(some)[p], GetProviders(all)[p], p)
<1>1. \A c : PageName(c) = p <=> BackendName(c) = p
  BY NamesAlike DEF PageName, BackendName
<1>2. PICK mine : mine = OwnOf(some, p)
  OBVIOUS
<1>3. PICK theirs : theirs = TheirsOf(all, p)
  OBVIOUS
<1>4. mine \subseteq theirs /\ (some = all => mine = theirs)
  BY <1>1, <1>2, <1>3 DEF OwnOf, TheirsOf
<1>5. theirs # {}
  BY <1>2, <1>4, PageGroup
<1>6. p \in DOMAIN GetProviders(all)
  BY <1>3, <1>5, NamedByBackend
<1>7. PICK ours : ours = groupChannelsByType(some)[p]
  OBVIOUS
<1>8. PICK backends : backends = GetProviders(all)[p]
  OBVIOUS
<1>9. /\ ours.channels = PageChannels(mine) /\ ours.all_models = ModelsOf(mine)
      /\ ours.enabled = SomeEnabled(mine) /\ ours.total_used_quota = UsedBy(mine)
  BY <1>2, <1>7, PageGroup
<1>10. /\ backends.channels = BackendChannels(theirs) /\ backends.all_models = FilledOf(theirs)
       /\ backends.enabled = SomeEnabled(theirs) /\ backends.total_used_quota = UsedBy(theirs)
  BY <1>3, <1>6, <1>8, BackendGroup
<1>11. UsedBy(mine) <= UsedBy(theirs)
  <2>1. IsFiniteSet(theirs) /\ \A c \in theirs : c.used \in Nat
    BY <1>3, FS_Subset DEF TheirsOf
  <2> QED BY <1>4, <2>1, PartUsesLess DEF UsedBy
<1>12. ModelsOf(mine) \ {""} = FilledOf(mine) /\ FilledOf(mine) \subseteq FilledOf(theirs)
  <2>1. FilledOf(mine) \subseteq FilledOf(theirs)
    BY <1>4 DEF FilledOf
  <2> QED BY <2>1, FilledModels DEF ModelsOf, FilledOf
<1>13. SomeEnabled(mine) => SomeEnabled(theirs)
  BY <1>4 DEF SomeEnabled
<1>14. Ids(ours) = {c.id : c \in mine} /\ Ids(backends) = {c.id : c \in theirs}
  BY <1>9, <1>10, IdsOfGroups DEF Ids
<1>15. p # <<"Qwen">> => PageChannels(theirs) = BackendChannels(theirs)
  <2>1. ASSUME p # <<"Qwen">>, NEW c \in theirs PROVE PageName(c) = BackendTypeName(c)
    <3>1. BackendName(c) = p /\ PageName(c) = p
      BY <1>1, <1>3 DEF TheirsOf
    <3>2. c.type \notin {17, 49}
      BY <2>1, <3>1 DEF PageName, NameOfType, typeNameMap
    <3> QED BY <3>1, <3>2 DEF BackendTypeName
  <2> QED BY <2>1 DEF PageChannels, BackendChannels
<1>16. Within(ours, backends)
  <2>1. Ids(ours) \subseteq Ids(backends)
    BY <1>4, <1>14
  <2> QED BY <1>9, <1>10, <1>11, <1>12, <1>13, <2>1 DEF Within
<1>17. some = all => SameProvider(ours, backends, p)
  BY <1>4, <1>9, <1>10, <1>12, <1>14, <1>15 DEF SameProvider
<1> QED BY <1>6, <1>7, <1>8, <1>16, <1>17

\* The backend's own answer has no blanks.
LEMMA BackendsOwn ==
    ASSUME NEW all, IsFiniteSet(all), \A c \in all : c.used \in Nat,
           NEW p \in DOMAIN GetProviders(all)
    PROVE  /\ Within(GetProviders(all)[p], GetProviders(all)[p])
           /\ SameProvider(GetProviders(all)[p], GetProviders(all)[p], p)
<1>1. PICK theirs : theirs = TheirsOf(all, p)
  OBVIOUS
<1>2. PICK backends : backends = GetProviders(all)[p]
  OBVIOUS
<1>3. backends.all_models = FilledOf(theirs) /\ backends.total_used_quota = UsedBy(theirs)
  BY <1>1, <1>2, BackendGroup
<1>4. UsedBy(theirs) <= UsedBy(theirs)
  <2>1. IsFiniteSet(theirs) /\ \A c \in theirs : c.used \in Nat
    BY <1>1, FS_Subset DEF TheirsOf
  <2> QED BY <2>1, PartUsesLess DEF UsedBy
<1>5. FilledOf(theirs) \ {""} = FilledOf(theirs)
  BY DEF FilledOf
<1> QED BY <1>2, <1>3, <1>4, <1>5 DEF Within, SameProvider

LEMMA GroupsAlike == ASSUME PagesAssumption, ProvidersInv PROVE FallbackGroupsAlike
<1>1. IsFiniteSet(conns) /\ \A c \in conns : c.used \in Nat
  <2>1. CASE conns = {}
    BY <2>1, FS_EmptySet
  <2>2. CASE conns \in Conn
    BY <2>2 DEF PagesAssumption
  <2> QED BY <2>1, <2>2 DEF ProvidersInv
<1>2. ASSUME providers # <<>>, NEW name \in Range(typeNameMap), NEW p, p = <<name>>,
             p \in DOMAIN providers[1]
      PROVE  /\ p \in DOMAIN GetProviders(conns)
             /\ Within(providers[1][p], GetProviders(conns)[p])
             /\ Cardinality(conns) <= ItemsPerPage =>
                    SameProvider(providers[1][p], GetProviders(conns)[p], p)
  <2>1. name \in {"OpenAI", "Qwen"}
    BY DEF Range, typeNameMap
  <2>2. CASE providers[1] = GetProviders(conns)
    BY <1>1, <1>2, <2>2, BackendsOwn
  <2>3. CASE \E some \in FirstPages : providers[1] = groupChannelsByType(some)
    <3>1. PICK some \in FirstPages : providers[1] = groupChannelsByType(some)
      BY <2>3
    <3>2. some \in SUBSET conns /\ (Cardinality(conns) <= ItemsPerPage => some = conns)
      BY DEF FirstPages
    <3> QED BY <1>1, <1>2, <2>1, <3>1, <3>2, PageOfGroups
  <2> QED BY <1>2, <2>2, <2>3 DEF ProvidersInv
<1> QED BY <1>2 DEF FallbackGroupsAlike, Within, SameProvider

----------------------------------------------------------------------------

\* What is used, out of a set of usages.
LEMMA PartsOfUsage ==
    ASSUME NEW S, NEW T \in SUBSET S
    PROVE  LET ofRequests == [x \in S |-> x.requests]
               ofTokens == [x \in S |-> x.tokens]
           IN  IsFiniteSet(S) => /\ RequestsOf(T) = SumFunctionOnSet(ofRequests, T)
                                 /\ TokensOf(T) = SumFunctionOnSet(ofTokens, T)
<1> SUFFICES ASSUME IsFiniteSet(S)
             PROVE  /\ RequestsOf(T) = SumFunctionOnSet([x \in S |-> x.requests], T)
                    /\ TokensOf(T) = SumFunctionOnSet([x \in S |-> x.tokens], T)
  OBVIOUS
<1>1. IsFiniteSet(T)
  BY FS_Subset
<1>2. PICK f : f = [x \in S |-> x.requests]
  OBVIOUS
<1>3. PICK g : g = [x \in T |-> x.requests]
  OBVIOUS
<1>4. \A x \in T : g[x] = f[x]
  BY <1>2, <1>3
<1>5. SumFunctionOnSet(g, T) = SumFunctionOnSet(f, T)
  BY <1>1, <1>4, SumOfEquals
<1>6. PICK h : h = [x \in S |-> x.tokens]
  OBVIOUS
<1>7. PICK k : k = [x \in T |-> x.tokens]
  OBVIOUS
<1>8. \A x \in T : k[x] = h[x]
  BY <1>6, <1>7
<1>9. SumFunctionOnSet(k, T) = SumFunctionOnSet(h, T)
  BY <1>1, <1>8, SumOfEquals
<1> QED BY <1>2, <1>3, <1>5, <1>6, <1>7, <1>9 DEF RequestsOf, TokensOf

LEMMA UsageFacts ==
    ASSUME PagesAssumption, UsageInv
    PROVE  /\ IsFiniteSet(usage)
           /\ \A x \in usage : x.day \in 0 .. chartDay /\ x.requests \in Nat /\ x.tokens \in Nat
           /\ \A x, y \in usage : x.day = y.day /\ x.model = y.model => x = y
           /\ chartDay \in Nat /\ rangeDays \in 1 .. chartDay
           /\ cardDay \in 0 .. chartDay
<1>1. /\ chartDay \in Nat /\ rangeDays \in 1 .. chartDay
      /\ cardDay \in 0 .. chartDay
  BY DEF PagesAssumption, UsageInv
<1>2. CASE usage \in DayUsage
  BY <1>1, <1>2 DEF PagesAssumption, UsageInv
<1>3. CASE usage = {}
  BY <1>1, <1>3, FS_EmptySet
<1> QED BY <1>1, <1>2, <1>3 DEF UsageInv

\* The items of the pie's days are those of the lines' and what these drop.
LEMMA FilteredUsage ==
    ASSUME PagesAssumption, UsageInv
    PROVE  LET dropped == {x \in usage : \/ x.day = chartDay - rangeDays
                                         \/ x.day = chartDay /\ "lines" \in missed}
           IN  /\ getFilteredData \subseteq usage
               /\ IsFiniteSet(getFilteredData)
               /\ IsFiniteSet(Days("lines")) /\ IsFiniteSet(Days("bars"))
               /\ dropped \subseteq getFilteredData
               /\ getFilteredData \ dropped = {x \in getFilteredData : x.day \in Days("lines")}
               /\ cardDay \in Days("lines") =>
                    {x \in getFilteredData : x.day = cardDay} = {x \in usage : x.day = cardDay}
<1>1. /\ IsFiniteSet(usage) /\ \A x \in usage : x.day \in 0 .. chartDay
      /\ chartDay \in Nat /\ rangeDays \in 1 .. chartDay /\ cardDay \in 0 .. chartDay
  BY UsageFacts
<1>2. getFilteredData \subseteq usage
  BY DEF getFilteredData
<1>3. IsFiniteSet(getFilteredData)
  BY <1>1, <1>2, FS_Subset
<1>4. IsFiniteSet(Days("lines")) /\ IsFiniteSet(Days("bars"))
  <2>1. chartDay - (rangeDays - 1) \in Int /\ chartDay \in Int /\ chartDay - 1 \in Int
    BY <1>1
  <2> QED BY <2>1, FS_Interval DEF Days
<1>5. PICK dropped : dropped = {x \in usage : \/ x.day = chartDay - rangeDays
                                              \/ x.day = chartDay /\ "lines" \in missed}
  OBVIOUS
<1>6. dropped \subseteq getFilteredData
  BY <1>1, <1>5 DEF getFilteredData
<1>7. getFilteredData \ dropped = {x \in getFilteredData : x.day \in Days("lines")}
  <2> SUFFICES ASSUME NEW x \in getFilteredData
               PROVE  x \notin dropped <=> x.day \in Days("lines")
    OBVIOUS
  <2>1. x \in usage /\ x.day \in 0 .. chartDay /\ x.day >= chartDay - rangeDays
    BY <1>1 DEF getFilteredData
  <2>2. CASE "lines" \in missed
    BY <1>1, <1>5, <2>1, <2>2 DEF Days
  <2>3. CASE "lines" \notin missed
    BY <1>1, <1>5, <2>1, <2>3 DEF Days
  <2> QED BY <2>2, <2>3
<1>8. cardDay \in Days("lines") =>
         {x \in getFilteredData : x.day = cardDay} = {x \in usage : x.day = cardDay}
  <2>1. cardDay \in Days("lines") => cardDay >= chartDay - rangeDays
    BY <1>1 DEF Days
  <2> QED BY <2>1 DEF getFilteredData
<1> QED BY <1>2, <1>3, <1>4, <1>5, <1>6, <1>7, <1>8

\* The pie, model by model, has all the requests.
LEMMA PieAddsUp ==
    ASSUME PagesAssumption, UsageInv
    PROVE  SumFunction(processModelPieData)
             = SumFunctionOnSet([x \in getFilteredData |-> x.requests], getFilteredData)
<1>1. PICK F : F = getFilteredData
  OBVIOUS
<1>2. PICK f : f = [x \in F |-> x.requests]
  OBVIOUS
<1>3. PICK key : key = [x \in F |-> x.model]
  OBVIOUS
<1>4. PICK D : D = {key[x] : x \in F}
  OBVIOUS
<1>5. PICK pie : pie = processModelPieData
  OBVIOUS
<1>6. IsFiniteSet(F) /\ IsFiniteSet(D) /\ F \subseteq usage
  BY <1>1, <1>4, FilteredUsage, FiniteImage
<1>7. \A x \in F : key[x] \in D /\ f[x] \in Int
  <2>1. \A x \in F : x.requests \in Nat
    BY <1>6, UsageFacts
  <2> QED BY <1>2, <1>4, <2>1
<1>8. {x.model : x \in F} = D
  BY <1>3, <1>4
<1>9. \A d \in D : pie[d] = SumFunctionOnSet(f, OfKey(F, key, d))
  <2> SUFFICES ASSUME NEW d \in D PROVE pie[d] = SumFunctionOnSet(f, OfKey(F, key, d))
    OBVIOUS
  <2>1. PICK T : T = OfKey(F, key, d)
    OBVIOUS
  <2>2. T = {x \in F : x.model = d}
    BY <1>3, <2>1 DEF OfKey
  <2>3. pie[d] = RequestsOf(T)
    BY <1>1, <1>5, <1>8, <2>2 DEF processModelPieData
  <2>4. T \in SUBSET F
    BY <2>2
  <2>5. RequestsOf(T) = SumFunctionOnSet(f, T)
    BY <1>2, <1>6, <2>4, PartsOfUsage
  <2> QED BY <2>1, <2>3, <2>5
<1>10. SumFunctionOnSet(pie, D) = SumFunctionOnSet(f, F)
  BY <1>6, <1>7, <1>9, SumByKey
<1>11. DOMAIN pie = D
  BY <1>1, <1>5, <1>8 DEF processModelPieData
<1> QED BY <1>1, <1>2, <1>5, <1>10, <1>11 DEF SumFunction

\* The lines, day by day, have the requests of their days.
LEMMA LinesAddUp ==
    ASSUME PagesAssumption, UsageInv
    PROVE  SumFunction([d \in Days("lines") |-> processTimeSeriesData[d].requests])
             = SumFunctionOnSet([x \in getFilteredData |-> x.requests],
                                {x \in getFilteredData : x.day \in Days("lines")})
<1>1. PICK F : F = getFilteredData
  OBVIOUS
<1>2. PICK f : f = [x \in F |-> x.requests]
  OBVIOUS
<1>3. PICK key : key = [x \in F |-> x.day]
  OBVIOUS
<1>4. PICK S : S = {x \in F : x.day \in Days("lines")}
  OBVIOUS
<1>5. PICK sums : sums = [d \in Days("lines") |-> processTimeSeriesData[d].requests]
  OBVIOUS
<1>6. IsFiniteSet(F) /\ IsFiniteSet(Days("lines")) /\ F \subseteq usage /\ S \in SUBSET F
  BY <1>1, <1>4, FilteredUsage
<1>7. IsFiniteSet(S)
  BY <1>6, FS_Subset
<1>8. \A x \in S : key[x] \in Days("lines") /\ f[x] \in Int
  <2>1. \A x \in F : x.requests \in Nat
    BY <1>6, UsageFacts
  <2> QED BY <1>2, <1>3, <1>4, <2>1
<1>9. \A d \in Days("lines") : sums[d] = SumFunctionOnSet(f, OfKey(S, key, d))
  <2> SUFFICES ASSUME NEW d \in Days("lines") PROVE sums[d] = SumFunctionOnSet(f, OfKey(S, key, d))
    OBVIOUS
  <2>1. PICK T : T = OfKey(S, key, d)
    OBVIOUS
  <2>2. T = {x \in F : x.day = d}
    BY <1>3, <1>4, <2>1 DEF OfKey
  <2>3. sums[d] = RequestsOf(T)
    BY <1>1, <1>5, <2>2 DEF processTimeSeriesData
  <2>4. T \in SUBSET F
    BY <2>2
  <2>5. RequestsOf(T) = SumFunctionOnSet(f, T)
    BY <1>2, <1>6, <2>4, PartsOfUsage
  <2> QED BY <2>1, <2>3, <2>5
<1>10. SumFunctionOnSet(sums, Days("lines")) = SumFunctionOnSet(f, S)
  BY <1>6, <1>7, <1>8, <1>9, SumByKey
<1>11. DOMAIN sums = Days("lines")
  BY <1>5
<1> QED BY <1>1, <1>2, <1>4, <1>5, <1>10, <1>11 DEF SumFunction

\* The bars of a day, model by model, have its tokens, for a day and a model have one item.
LEMMA BarsAddUp ==
    ASSUME PagesAssumption, UsageInv, NEW d \in Days("bars") \cap Days("lines")
    PROVE  SumFunction(processModelBarData[d]) = processTimeSeriesData[d].tokens
<1>1. PICK F : F = getFilteredData
  OBVIOUS
<1>2. PICK S : S = {x \in F : x.day = d}
  OBVIOUS
<1>3. PICK f : f = [x \in S |-> x.tokens]
  OBVIOUS
<1>4. PICK key : key = [x \in F |-> x.model]
  OBVIOUS
<1>5. PICK D : D = {key[x] : x \in F}
  OBVIOUS
<1>6. PICK bars : bars = processModelBarData[d]
  OBVIOUS
<1>7. IsFiniteSet(F) /\ IsFiniteSet(D) /\ F \subseteq usage /\ S \in SUBSET F
  BY <1>1, <1>2, <1>5, FilteredUsage, FiniteImage
<1>8. IsFiniteSet(S)
  BY <1>7, FS_Subset
<1>9. \A x \in S : x.tokens \in Nat /\ f[x] = x.tokens /\ key[x] = x.model
  <2>1. \A x \in F : x.tokens \in Nat
    BY <1>7, UsageFacts
  <2> QED BY <1>2, <1>3, <1>4, <2>1
<1>10. {x.model : x \in F} = D
  BY <1>4, <1>5
<1>11. bars = [m \in D |-> BarOf({x \in F : x.day = d /\ x.model = m})]
  BY <1>1, <1>6, <1>10 DEF processModelBarData
<1>12. \A m \in D : bars[m] = SumFunctionOnSet(f, OfKey(S, key, m))
  <2> SUFFICES ASSUME NEW m \in D PROVE bars[m] = SumFunctionOnSet(f, OfKey(S, key, m))
    OBVIOUS
  <2>1. PICK T : T = OfKey(S, key, m)
    OBVIOUS
  <2>2. T = {x \in F : x.day = d /\ x.model = m} /\ T \subseteq S
    BY <1>2, <1>4, <2>1 DEF OfKey
  <2>3. bars[m] = BarOf(T)
    BY <1>11, <2>2
  <2>4. CASE T = {}
    BY <2>1, <2>3, <2>4, SumOfNothing DEF BarOf
  <2>5. ASSUME NEW y \in T PROVE bars[m] = SumFunctionOnSet(f, T)
    <3>1. \A x \in T : x = y
      BY <1>7, <2>2, UsageFacts
    <3>2. T = {y} /\ T \ {y} = {}
      BY <3>1
    <3>3. bars[m] = y.tokens
      BY <2>3, <3>2 DEF BarOf
    <3>4. IsFiniteSet(T) /\ \A x \in T : f[x] \in Int
      BY <1>8, <1>9, <2>2, FS_Subset
    <3>5. SumFunctionOnSet(f, T) = f[y] + SumFunctionOnSet(f, T \ {y})
      BY <3>4, SumTakesOut
    <3>6. SumFunctionOnSet(f, T \ {y}) = 0
      BY <3>2, SumOfNothing
    <3>7. f[y] = y.tokens /\ y.tokens \in Nat
      BY <1>9, <2>2
    <3> QED BY <3>3, <3>5, <3>6, <3>7
  <2> QED BY <2>1, <2>4, <2>5
<1>13. \A x \in S : key[x] \in D /\ f[x] \in Int
  BY <1>5, <1>7, <1>9
<1>14. SumFunctionOnSet(bars, D) = SumFunctionOnSet(f, S)
  BY <1>7, <1>8, <1>12, <1>13, SumByKey
<1>15. DOMAIN bars = D
  BY <1>11
<1>16. processTimeSeriesData[d].tokens = TokensOf(S)
  BY <1>1, <1>2 DEF processTimeSeriesData
<1>17. TokensOf(S) = SumFunctionOnSet(f, S)
  BY <1>3 DEF TokensOf
<1> QED BY <1>6, <1>14, <1>15, <1>16, <1>17 DEF SumFunction

LEMMA AddsUp == ASSUME PagesAssumption, UsageInv PROVE DashboardAddsUp
<1>1. PICK F : F = getFilteredData
  OBVIOUS
<1>2. PICK f : f = [x \in F |-> x.requests]
  OBVIOUS
<1>3. PICK dropped : dropped = {x \in usage : \/ x.day = chartDay - rangeDays
                                              \/ x.day = chartDay /\ "lines" \in missed}
  OBVIOUS
<1>4. PICK series : series = processTimeSeriesData
  OBVIOUS
<1>5. DOMAIN series = Days("lines") /\ DOMAIN processModelBarData = Days("bars")
  BY <1>4 DEF processTimeSeriesData, processModelBarData
<1>6. cardDay \in DOMAIN series => /\ series[cardDay].requests = summaryData.todayRequests
                                   /\ series[cardDay].tokens = summaryData.todayTokens
  <2> SUFFICES ASSUME cardDay \in DOMAIN series
               PROVE  /\ series[cardDay].requests = summaryData.todayRequests
                      /\ series[cardDay].tokens = summaryData.todayTokens
    OBVIOUS
  <2>1. PICK todays : todays = {x \in usage : x.day = cardDay}
    OBVIOUS
  <2>2. todays = {x \in getFilteredData : x.day = cardDay}
    BY <1>5, <2>1, FilteredUsage
  <2>3. series[cardDay].requests = RequestsOf(todays) /\ series[cardDay].tokens = TokensOf(todays)
    BY <1>4, <1>5, <2>2 DEF processTimeSeriesData
  <2>4. /\ summaryData.todayRequests = RequestsOf(todays)
        /\ summaryData.todayTokens = TokensOf(todays)
    BY <2>1 DEF UsageInv, calculateSummary
  <2> QED BY <2>3, <2>4
<1>7. \A x \in F : f[x] \in Nat
  <2>1. \A x \in F : x.requests \in Nat
    BY <1>1, FilteredUsage, UsageFacts
  <2> QED BY <1>2, <2>1
<1>8. SumFunction(processModelPieData) = SumFunctionOnSet(f, F)
  BY <1>1, <1>2, PieAddsUp
<1>9. SumFunction(processModelPieData)
        = SumFunction([d \in DOMAIN series |-> series[d].requests]) + RequestsOf(dropped)
  <2>1. PICK S : S = {x \in F : x.day \in Days("lines")}
    OBVIOUS
  <2>2. IsFiniteSet(F) /\ dropped \in SUBSET F /\ F \ dropped = S
    BY <1>1, <1>3, <2>1, FilteredUsage
  <2>3. \A x \in F : f[x] \in Int
    BY <1>7
  <2>4. SumFunctionOnSet(f, F) = SumFunctionOnSet(f, F \ dropped) + SumFunctionOnSet(f, dropped)
    BY <2>2, <2>3, SumSplits
  <2>5. RequestsOf(dropped) = SumFunctionOnSet(f, dropped)
    BY <1>2, <2>2, PartsOfUsage
  <2>6. SumFunction([d \in DOMAIN series |-> series[d].requests]) = SumFunctionOnSet(f, S)
    BY <1>1, <1>2, <1>4, <1>5, <2>1, LinesAddUp
  <2> QED BY <1>8, <2>2, <2>4, <2>5, <2>6
<1>10. SumFunction(processModelPieData) <= summaryData.totalRequests
  <2>1. PICK g : g = [x \in usage |-> x.requests]
    OBVIOUS
  <2>2. IsFiniteSet(usage) /\ F \in SUBSET usage /\ IsFiniteSet(F) /\ IsFiniteSet(usage \ F)
    BY <1>1, UsageFacts, FilteredUsage, FS_Subset
  <2>3. \A x \in usage : g[x] \in Nat
    BY <2>1, UsageFacts
  <2>4. SumFunctionOnSet(g, F) = SumFunctionOnSet(f, F)
    <3>1. \A x \in F : g[x] = f[x]
      BY <1>2, <2>1, <2>2
    <3> QED BY <2>2, <3>1, SumOfEquals
  <2>5. SumFunctionOnSet(g, usage) = SumFunctionOnSet(g, usage \ F) + SumFunctionOnSet(g, F)
    <3>1. \A x \in usage : g[x] \in Int
      BY <2>3
    <3> QED BY <2>2, <3>1, SumSplits
  <2>6. SumFunctionOnSet(g, usage \ F) \in Nat /\ SumFunctionOnSet(g, F) \in Nat
    <3>1. (\A x \in usage \ F : g[x] \in Nat) /\ (\A x \in F : g[x] \in Nat)
      BY <2>2, <2>3
    <3> QED BY <2>2, <3>1, SumOfNaturals
  <2>7. summaryData.totalRequests = SumFunctionOnSet(g, usage)
    BY <2>1 DEF UsageInv, calculateSummary, RequestsOf
  <2> QED BY <1>8, <2>4, <2>5, <2>6, <2>7
<1>11. \A d \in DOMAIN processModelBarData \cap DOMAIN series :
          SumFunction(processModelBarData[d]) = series[d].tokens
  BY <1>4, <1>5, BarsAddUp
<1> QED BY <1>3, <1>4, <1>6, <1>9, <1>10, <1>11 DEF DashboardAddsUp

\* For any channels, samples, usages and ranges, any passing of the days, and answers in any order,
\* lost or refused: the quota shown is the server's but for what was used since; limits that are
\* stored are not blank, and the server has them unless saves overlapped or the last one failed; the
\* health shown is of the newest poll and weighed as the backend weighs it; channels are grouped as
\* the backend groups them, as far as they are on the page that the fallback is given; and the
\* cards, lines, pie and bars of the dashboard, of whatever days, tell of the same usage (TopUp,
\* RateLimit, ChannelHealth, Channel and Dashboard).
THEOREM PagesShowWhatTheBackendSaid == PagesSpec => []PagesShowTheBackend
<1>1. ASSUME PagesInv, SavesInv PROVE TopUpShowsTheQuota /\ LimitsAreKept
  <2>1. storedLimits # <<>> /\ DOMAIN storedLimits[1] = {} => crossed
    BY <1>1 DEF PagesInv, LimitsInv
  <2>2. page = "limits" /\ Saves = {} /\ ~diverged => serverLimits = storedLimits
    BY <1>1 DEF SavesInv
  <2>3. TopUpShowsTheQuota
    BY <1>1 DEF PagesInv, TopUpInv, TopUpShowsTheQuota
  <2> QED BY <2>1, <2>2, <2>3 DEF LimitsAreKept
<1>2. ASSUME PagesAssumption, PagesInv PROVE HealthIsTheNewest
  <2>1. health.requests < 5 => health.score = 100
    BY <1>2 DEF PagesAssumption, PagesInv, HealthInv
  <2>2. ShownMultiplier(health) = GetHealthMultiplier(health)
    BY <2>1 DEF ShownMultiplier, GetHealthMultiplier
  <2>3. page = "health" /\ calls = {} /\ ~crossed => healthPoll = newestPoll
    BY <1>2 DEF PagesInv, HealthInv
  <2> QED BY <2>2, <2>3 DEF HealthIsTheNewest
<1>3. PagesInv /\ SavesInv /\ ShownInv => PagesShowTheBackend
  BY <1>1, <1>2, PagesAssumption, GroupsAlike, AddsUp DEF ShownInv, PagesShowTheBackend
<1> QED BY <1>3, ShownInvariant, PTL

-----------------------------------------------------------------------------
(* Personal settings: the token shown is the valid one.                    *)

AccountKinds ==
    /\ accountSent \in 0 .. MaxAccountCalls
    /\ validToken \in 0 .. accountSent /\ systemToken \in 0 .. accountSent
    /\ weChatBound \in BOOLEAN /\ affLink \in BOOLEAN /\ weChatCode \in BOOLEAN
    /\ weChatModal \in BOOLEAN /\ outrun \in BOOLEAN /\ accountLost \in BOOLEAN
    /\ accountCalls \subseteq
          [op : {"token", "aff", "wechat"}, n : 1 .. accountSent,
           answer : {"none", "success", "failure"}]

\* Requests have numbers of their own, and that of the token that is valid was one for a token.
CallsApart ==
    /\ \A c, d \in accountCalls : c.n = d.n => c = d
    /\ \A c \in accountCalls : c.n = validToken => c.op = "token" /\ c.answer = "success"

\* The answer with the valid token is still to come.
ValidToCome == \E c \in accountCalls : c.n = validToken

TokenInv ==
    /\ systemToken = 0 \/ ~affLink
    /\ ~outrun /\ ~accountLost => systemToken \in {0, validToken} \/ ValidToCome

AccountInv == AccountKinds /\ CallsApart /\ TokenInv

LEMMA AskAccountInv ==
    ASSUME AccountAssumption, AccountInv, NEW op \in {"token", "aff", "wechat"}, AskAccount(op)
    PROVE  AccountInv'
<1>1. /\ accountSent \in Nat /\ accountSent' = accountSent + 1 /\ accountSent < MaxAccountCalls
      /\ validToken \in Int /\ validToken <= accountSent
      /\ \A c \in accountCalls : c.n \in Int /\ c.n <= accountSent
      /\ UNCHANGED <<onBackend, onPage, outrun, accountLost>>
  BY DEF AskAccount, AccountInv, AccountKinds, AccountAssumption
<1>2. PICK new : /\ new = [op |-> op, n |-> accountSent + 1, answer |-> "none"]
                 /\ accountCalls' = accountCalls \cup {new}
  BY DEF AskAccount
<1>3. AccountKinds'
  BY <1>1, <1>2 DEF AccountInv, AccountKinds, AccountAssumption, onBackend, onPage
<1>4. CallsApart'
  BY <1>1, <1>2 DEF AccountInv, CallsApart, onBackend
<1>5. TokenInv'
  BY <1>1, <1>2 DEF AccountInv, TokenInv, ValidToCome, onBackend, onPage
<1> QED BY <1>3, <1>4, <1>5 DEF AccountInv

LEMMA BackendAnswersInv ==
    ASSUME AccountAssumption, AccountInv, NEW c \in accountCalls, BackendAnswers(c)
    PROVE  AccountInv'
<1>1. PICK answer \in {"success", "failure"} :
        /\ accountCalls' = Other(c) \cup {[c EXCEPT !.answer = answer]}
        /\ validToken' = IF answer = "success" /\ c.op = "token" THEN c.n ELSE validToken
        /\ weChatBound' = (weChatBound \/ (answer = "success" /\ c.op = "wechat"))
  BY DEF BackendAnswers
<1>2. UNCHANGED <<onPage, accountSent, outrun, accountLost>> /\ c.answer = "none"
  BY DEF BackendAnswers
<1>3. PICK new : new = [c EXCEPT !.answer = answer]
  OBVIOUS
<1>4. /\ new \in [op : {"token", "aff", "wechat"}, n : 1 .. accountSent,
                  answer : {"none", "success", "failure"}]
      /\ new.op = c.op /\ new.n = c.n /\ new.answer = answer
      /\ c.n \in 1 .. accountSent /\ c.n # validToken
      /\ accountCalls' = Other(c) \cup {new}
  BY <1>1, <1>2, <1>3 DEF AccountInv, AccountKinds, CallsApart
<1>5. AccountKinds'
  BY <1>1, <1>2, <1>4 DEF AccountInv, AccountKinds, onPage, Other
<1>6. CallsApart'
  BY <1>1, <1>4 DEF AccountInv, CallsApart, Other
<1>7. ValidToCome => ValidToCome'
  BY <1>1, <1>4 DEF ValidToCome, Other
<1>8. TokenInv'
  <2>1. CASE validToken' = validToken
    BY <1>2, <1>7, <2>1 DEF AccountInv, TokenInv, onPage
  <2>2. CASE validToken' = c.n
    BY <1>2, <1>4, <2>2 DEF AccountInv, TokenInv, ValidToCome, onPage
  <2> QED BY <1>1, <2>1, <2>2
<1> QED BY <1>5, <1>6, <1>8 DEF AccountInv

LEMMA AnsweredInv ==
    ASSUME AccountAssumption, AccountInv, NEW c \in accountCalls, AccountAnswered(c)
    PROVE  AccountInv'
<1>1. accountCalls' = Other(c) /\ UNCHANGED <<onBackend, accountSent, accountLost>>
  BY DEF AccountAnswered
<1>2. CallsApart'
  BY <1>1 DEF AccountInv, CallsApart, Other, onBackend
<1>3. /\ ValidToCome' \/ c.n = validToken \/ ~ValidToCome
      /\ c.n \in 1 .. accountSent
  BY <1>1 DEF ValidToCome, Other, AccountInv, AccountKinds, onBackend
<1>4. CASE generateAccessToken(c)
  <2>1. AccountKinds'
    <3>1. outrun' \in BOOLEAN
      BY <1>4, Zenon DEF generateAccessToken
    <3>2. /\ systemToken' = c.n /\ affLink' = FALSE
          /\ UNCHANGED <<weChatCode, weChatModal>>
      BY <1>4 DEF generateAccessToken
    <3>3. /\ c.n \in 0 .. accountSent /\ accountSent' = accountSent
          /\ accountCalls' \subseteq accountCalls
      BY <1>1, <1>3 DEF Other, AccountInv, AccountKinds
    <3>4. systemToken' \in 0 .. accountSent' /\ affLink' \in BOOLEAN
      BY <3>2, <3>3
    <3> QED BY <1>1, <3>1, <3>2, <3>3, <3>4 DEF AccountInv, AccountKinds, onBackend
  <2>2. ~Outran(c) /\ c.n # validToken => ValidToCome'
    BY <1>1 DEF Outran, ValidToCome, Other, onBackend
  <2>3. TokenInv'
    <3>1. ~outrun' => ~Outran(c)
      BY <1>4, Zenon DEF generateAccessToken
    <3>2. systemToken' = c.n /\ affLink' = FALSE /\ validToken' = validToken
      BY <1>1, <1>4 DEF generateAccessToken, onBackend
    <3> QED BY <2>2, <3>1, <3>2 DEF TokenInv
  <2> QED BY <1>2, <2>1, <2>3 DEF AccountInv
<1>5. CASE getAffLink(c)
  <2>1. AccountKinds'
    BY <1>1, <1>5 DEF getAffLink, AccountInv, AccountKinds, Other, onBackend
  <2>2. TokenInv'
    BY <1>1, <1>5 DEF getAffLink, AccountInv, TokenInv
  <2> QED BY <1>2, <2>1, <2>2 DEF AccountInv
<1>6. CASE bindWeChat(c) \/ (c.answer = "failure" /\ UNCHANGED <<onPage, outrun>>)
  <2>1. /\ UNCHANGED <<systemToken, affLink, weChatCode, outrun>>
        /\ weChatModal' \in BOOLEAN /\ c.n # validToken
    BY <1>6 DEF bindWeChat, onPage, AccountInv, AccountKinds, CallsApart
  <2>2. AccountKinds'
    BY <1>1, <2>1 DEF AccountInv, AccountKinds, Other, onBackend
  <2>3. TokenInv'
    BY <1>1, <1>3, <2>1 DEF AccountInv, TokenInv, onBackend
  <2> QED BY <1>2, <2>2, <2>3 DEF AccountInv
<1> QED BY <1>4, <1>5, <1>6 DEF AccountAnswered

LEMMA AccountStep ==
    ASSUME AccountAssumption, AccountInv, [AccountNext]_accountVars
    PROVE  AccountInv'
<1>1. ASSUME NEW op \in {"token", "aff", "wechat"}, AskAccount(op) PROVE AccountInv'
  BY <1>1, AskAccountInv
<1>2. CASE OpenWeChat \/ CloseWeChat \/ TypeWeChatCode \/ UNCHANGED accountVars
  <2>1. /\ UNCHANGED <<onBackend, systemToken, affLink, accountCalls, accountSent, outrun,
                       accountLost>>
        /\ weChatModal' \in BOOLEAN /\ weChatCode' \in BOOLEAN
    BY <1>2 DEF OpenWeChat, CloseWeChat, TypeWeChatCode, accountVars, AccountInv, AccountKinds,
       onBackend
  <2> QED BY <2>1 DEF AccountInv, AccountKinds, CallsApart, TokenInv, ValidToCome, onBackend
<1>3. ASSUME NEW c \in accountCalls, BackendAnswers(c) PROVE AccountInv'
  BY <1>3, BackendAnswersInv
<1>4. ASSUME NEW c \in accountCalls, AccountAnswered(c) PROVE AccountInv'
  BY <1>4, AnsweredInv
<1>5. ASSUME NEW c \in accountCalls, AccountCallLost(c) PROVE AccountInv'
  BY <1>5 DEF AccountCallLost, AccountInv, AccountKinds, CallsApart, TokenInv, Other, onBackend,
     onPage
<1> QED BY <1>1, <1>2, <1>3, <1>4, <1>5 DEF AccountNext, ClickGeneral, ClickBind

LEMMA AccountStarts == ASSUME AccountAssumption, AccountInit PROVE AccountInv
<1>1. 0 \in 0 .. MaxAccountCalls /\ 0 \in 0 .. 0
  BY DEF AccountAssumption
<1>2. AccountKinds
  BY <1>1 DEF AccountInit, AccountKinds
<1>3. CallsApart /\ TokenInv
  BY DEF AccountInit, CallsApart, TokenInv
<1> QED BY <1>2, <1>3 DEF AccountInv

LEMMA AccountInvariant == AccountSpec => []AccountInv
<1>1. AccountInit => AccountInv
  BY AccountStarts, AccountAssumption
<1>2. AccountInv /\ [AccountNext]_accountVars => AccountInv'
  BY AccountStep, AccountAssumption
<1> QED BY <1>1, <1>2, PTL DEF AccountSpec

\* However often its buttons are clicked and in whatever order the answers come, the page shows
\* the token or the link, never both, and the token is the valid one, unless a later one is still
\* to be shown, was answered before it or was lost (generateAccessToken, getAffLink).
THEOREM TokenShownIsValid == AccountSpec => []AccountIsShown
<1>1. AccountInv => AccountIsShown
  BY DEF AccountInv, AccountKinds, CallsApart, TokenInv, ValidToCome, AccountIsShown,
     ShownInputs, TokenCallAnswered
<1> QED BY <1>1, AccountInvariant, PTL

-----------------------------------------------------------------------------
(* Logs: the rows and the total are those asked for.                       *)

LogQueries ==
    [all : BOOLEAN, type : LogType,
     inputs : SUBSET {"token_name", "model_name", "start_timestamp", "end_timestamp",
                      "channel", "username"}]

LogsKinds ==
    /\ isAdminUser \in BOOLEAN /\ logType \in LogType /\ logInputs \subseteq LogFields
    /\ logs \in Seq(LogQueries) /\ logsAsked \in LogQueries
    /\ \A c \in RowCalls :
        /\ c.query \in LogQueries /\ c.closed \in Seq(LogQueries)
        /\ c.page = 1 \/ c.page = Len(c.closed) + 1

AllOf(array, query) == \A i \in 1 .. Len(array) : array[i] = query

\* No refresh overlapped another request for rows, no page was of another query and none failed.
Straight == ~logsCrossed /\ ~logsMixed /\ ~logRefused

\* The rows are of the last refresh, or one request is under way that makes them so.
RowsInv ==
    Straight =>
        \/ RowCalls = {} /\ AllOf(logs, logsAsked)
        \/ \E c : /\ RowCalls = {c} /\ c.query = logsAsked
                  /\ c.page # 1 => AllOf(c.closed, logsAsked)

\* The totals asked for are of the form as it is, and so is the one shown.
TotalInv ==
    /\ ~logsChanged => \A c \in StatCalls : c.query = LogQuery(logType, logInputs)
    /\ showStat /\ ~logsChanged /\ ~logRefused => stat = LogQuery(logType, logInputs)
    /\ TotalIsShown

LogsInv == LogsKinds /\ RowsInv /\ TotalInv /\ TypeWasAsked

\* The page, after which the form and the calls are as they were.

LEMMA LogQueryKind ==
    ASSUME LogsKinds, NEW type \in LogType
    PROVE  /\ LogQuery(type, logInputs) \in LogQueries
           /\ LogQuery(type, logInputs).type = type
BY DEF LogsKinds, LogQuery, LogQueries, LogFields

\* A request for rows, after which it is one more.
LEMMA RowsAsked ==
    ASSUME NEW c, c.op = "load", AskLogs(c)
    PROVE  RowCalls' = RowCalls \cup {c} /\ StatCalls' = StatCalls
BY DEF AskLogs, RowCalls, StatCalls

LEMMA RefreshInv ==
    ASSUME LogsInv, NEW type \in LogType, RefreshRows(type, logInputs), logType' = type,
           UNCHANGED <<isAdminUser, logInputs, logs, showStat, stat, logsMixed, logRefused>>,
           \/ logsChanged' = logsChanged /\ type = logType
           \/ logsChanged' = (logsChanged \/ showStat \/ StatCalls # {})
    PROVE  LogsInv'
<1>1. PICK query : query = LogQuery(type, logInputs)
  OBVIOUS
<1>2. PICK c : c = [op |-> "load", n |-> logSent + 1, query |-> query, page |-> 1,
                    closed |-> logs]
  OBVIOUS
<1>3. /\ c.op = "load" /\ c.query = query /\ c.page = 1 /\ c.closed = logs
      /\ query \in LogQueries /\ query.type = type
  BY <1>1, <1>2, LogQueryKind DEF LogsInv
<1>4. RowCalls' = RowCalls \cup {c} /\ StatCalls' = StatCalls
  BY <1>1, <1>2, RowsAsked DEF RefreshRows
<1>5. logsAsked' = query
  BY <1>1 DEF RefreshRows
<1>6. LogsKinds'
  BY <1>3, <1>4, <1>5 DEF LogsInv, LogsKinds, LogFields
<1>7. RowsInv'
  <2>1. ~logsCrossed' => RowCalls = {} /\ ~logsCrossed
    BY Zenon DEF RefreshRows
  <2> QED BY <1>3, <1>4, <1>5, <2>1 DEF RowsInv, Straight
<1>8. TotalInv'
  <2>1. ~logsChanged' =>
            ~logsChanged /\ (type = logType \/ (~showStat /\ StatCalls = {}))
    BY Zenon
  <2>2. LogQuery(logType, logInputs)' = LogQuery(type, logInputs)
    BY DEF LogQuery
  <2> QED BY <1>4, <2>1, <2>2 DEF LogsInv, TotalInv, TotalIsShown
<1>9. TypeWasAsked'
  BY <1>3, <1>5 DEF TypeWasAsked
<1> QED BY <1>6, <1>7, <1>8, <1>9 DEF LogsInv

LEMMA PageInv ==
    ASSUME LogsInv, LogsPage
    PROVE  LogsInv'
<1>1. UNCHANGED <<isAdminUser, logInputs, logType, logs, showStat, stat, logsAsked, logsCrossed,
                  logRefused, logsChanged>>
  BY DEF LogsPage
<1>2. CASE UNCHANGED <<logCalls, logsMixed>>
  BY <1>1, <1>2 DEF LogsInv, LogsKinds, RowsInv, Straight, TotalInv, TotalIsShown,
     TypeWasAsked, RowCalls, StatCalls, LogQuery, LogFields
<1>3. PICK query : query = LogQuery(logType, logInputs)
  OBVIOUS
<1>4. PICK c : c = [op |-> "load", n |-> logSent + 1, query |-> query, page |-> Len(logs) + 1,
                    closed |-> logs]
  OBVIOUS
<1>5. CASE AskLogs(c) /\ logsMixed' = (logsMixed \/ query # logsAsked \/ RowCalls # {})
  <2>1. /\ c.op = "load" /\ c.query = query /\ c.page = Len(logs) + 1 /\ c.closed = logs
        /\ query \in LogQueries
    BY <1>3, <1>4, LogQueryKind DEF LogsInv, LogsKinds
  <2>2. RowCalls' = RowCalls \cup {c} /\ StatCalls' = StatCalls
    BY <1>5, <2>1, RowsAsked
  <2>3. ~logsMixed' => ~logsMixed /\ query = logsAsked /\ RowCalls = {}
    BY <1>5, Zenon
  <2>4. LogsKinds'
    BY <1>1, <2>1, <2>2 DEF LogsInv, LogsKinds, LogFields
  <2>5. RowsInv'
    BY <1>1, <2>1, <2>2, <2>3 DEF LogsInv, RowsInv, Straight
  <2>6. TotalInv' /\ TypeWasAsked'
    BY <1>1, <2>2 DEF LogsInv, TotalInv, TotalIsShown, TypeWasAsked, LogQuery
  <2> QED BY <2>4, <2>5, <2>6 DEF LogsInv
<1> QED BY <1>2, <1>3, <1>4, <1>5 DEF LogsPage, onPaginationChange

LEMMA EditInv ==
    ASSUME LogsInv, handleInputChange
    PROVE  LogsInv'
<1>1. /\ UNCHANGED <<isAdminUser, logType, logs, showStat, stat, logCalls, logsAsked,
                     logsMixed, logsCrossed, logRefused>>
      /\ logInputs' \subseteq LogFields
  BY DEF handleInputChange, LogsInv, LogsKinds
<1>2. ~logsChanged' => ~showStat /\ StatCalls = {}
  BY Zenon DEF handleInputChange
<1>3. LogsKinds' /\ RowsInv' /\ TypeWasAsked'
  BY <1>1 DEF LogsInv, LogsKinds, RowsInv, Straight, TypeWasAsked, RowCalls, LogFields
<1>4. StatCalls' = StatCalls /\ TotalIsShown'
  BY <1>1 DEF LogsInv, TotalInv, TotalIsShown, StatCalls
<1>5. TotalInv'
  BY <1>1, <1>2, <1>4 DEF TotalInv
<1> QED BY <1>3, <1>5 DEF LogsInv

LEMMA EyeInv ==
    ASSUME LogsInv, handleEyeClick
    PROVE  LogsInv'
<1>1. PICK c : c = [op |-> "stat", n |-> logSent + 1, query |-> LogQuery(logType, logInputs)]
  OBVIOUS
<1>2. /\ logCalls' = logCalls \cup {c} /\ ~showStat
      /\ UNCHANGED <<isAdminUser, logInputs, logType, logs, showStat, stat, logsAsked, logsMixed,
                     logsCrossed, logRefused, logsChanged>>
  BY <1>1 DEF handleEyeClick, AskLogs, StatQuery, LogQuery
<1>3. c.op = "stat" /\ c.query = LogQuery(logType, logInputs)
  BY <1>1
<1>4. RowCalls' = RowCalls /\ StatCalls' = StatCalls \cup {c}
  BY <1>2, <1>3 DEF RowCalls, StatCalls
<1>5. LogsKinds' /\ RowsInv' /\ TypeWasAsked'
  BY <1>2, <1>4 DEF LogsInv, LogsKinds, RowsInv, Straight, TypeWasAsked, LogFields
<1>6. TotalInv'
  BY <1>2, <1>3, <1>4 DEF LogsInv, TotalInv, TotalIsShown, LogQuery
<1> QED BY <1>5, <1>6 DEF LogsInv

LEMMA AllOfPage ==
    ASSUME NEW S, NEW query \in S, NEW closed \in Seq(S), AllOf(closed, query), NEW n,
           n = Len(closed) + 1
    PROVE  /\ SubSeq(closed, 1, n - 1) \o <<query>> \in Seq(S)
           /\ AllOf(SubSeq(closed, 1, n - 1) \o <<query>>, query)
<1>1. n - 1 = Len(closed) /\ Len(closed) \in Nat
  OBVIOUS
<1> DEFINE head == SubSeq(closed, 1, Len(closed))
<1>2. /\ head \in Seq(S) /\ Len(head) = Len(closed)
      /\ \A i \in 1 .. Len(closed) : head[i] = closed[i]
  BY <1>1
<1> HIDE DEF head
<1>3. \A i \in 1 .. Len(head) : head[i] = query
  BY <1>2 DEF AllOf
<1>4. /\ head \o <<query>> \in Seq(S) /\ Len(head \o <<query>>) = Len(head) + 1
      /\ \A i \in 1 .. Len(head) + 1 : (head \o <<query>>)[i] = query
  BY <1>2, <1>3
<1>5. AllOf(head \o <<query>>, query)
  BY <1>4 DEF AllOf
<1> QED BY <1>1, <1>4, <1>5 DEF head

LEMMA RowsAnsweredInv ==
    ASSUME LogsInv, NEW c \in logCalls, RowsAnswered(c), logCalls' = logCalls \ {c},
           UNCHANGED <<isAdminUser, logInputs, logType, logsAsked, logsMixed, logsCrossed,
                       logsChanged>>
    PROVE  LogsInv'
<1>1. /\ c \in RowCalls /\ RowCalls' = RowCalls \ {c} /\ StatCalls' = StatCalls
      /\ UNCHANGED <<showStat, stat>>
  BY DEF RowsAnswered, RowCalls, StatCalls
<1>2. TypeWasAsked'
  BY DEF LogsInv, TypeWasAsked
<1>3. logRefused' = logRefused \/ logRefused' = TRUE
  BY DEF RowsAnswered
<1>4. TotalInv'
  BY <1>1, <1>3 DEF LogsInv, TotalInv, TotalIsShown, LogQuery
<1>5. /\ c.query \in LogQueries /\ c.closed \in Seq(LogQueries) /\ logs \in Seq(LogQueries)
      /\ c.page = 1 \/ c.page = Len(c.closed) + 1
      /\ \A d \in RowCalls : /\ d.query \in LogQueries /\ d.closed \in Seq(LogQueries)
                             /\ d.page = 1 \/ d.page = Len(d.closed) + 1
  BY <1>1 DEF LogsInv, LogsKinds
<1>6. CASE logRefused' = TRUE /\ UNCHANGED logs
  BY <1>1, <1>2, <1>4, <1>5, <1>6 DEF LogsInv, LogsKinds, RowsInv, Straight, LogFields
<1>7. ASSUME UNCHANGED logRefused, NEW found \in BOOLEAN, logs' = WithPage(c, found)
      PROVE  LogsInv'
  <2>1. logs' \in Seq(LogQueries)
    BY SMTT(60), <1>5, <1>7 DEF WithPage
  <2>2. ASSUME Straight PROVE RowCalls' = {} /\ AllOf(logs', logsAsked)
    <3>1. /\ RowCalls = {c} /\ c.query = logsAsked
          /\ c.page # 1 => AllOf(c.closed, logsAsked)
      BY <1>1, <2>2 DEF LogsInv, RowsInv
    <3>2. CASE c.page = 1
      <4>1. logs' = <<c.query>> \/ logs' = <<>>
        BY <1>7, <3>2 DEF WithPage
      <4> QED BY <1>1, <3>1, <4>1 DEF AllOf
    <3>3. CASE c.page # 1 /\ found
      <4>1. logs' = SubSeq(c.closed, 1, c.page - 1) \o <<c.query>>
        BY <1>7, <3>3 DEF WithPage
      <4>2. AllOf(c.closed, c.query) /\ c.page = Len(c.closed) + 1
        BY <1>5, <3>1, <3>3
      <4>3. AllOf(SubSeq(c.closed, 1, c.page - 1) \o <<c.query>>, c.query)
        BY <1>5, <4>2, AllOfPage
      <4> QED BY <1>1, <3>1, <4>1, <4>3
    <3>4. CASE c.page # 1 /\ ~found
      <4>1. logs' = c.closed
        BY <1>7, <3>4 DEF WithPage
      <4> QED BY <1>1, <3>1, <3>4, <4>1
    <3>5. AllOf(logs', logsAsked)
      BY <3>2, <3>3, <3>4
    <3> QED BY <1>1, <3>1, <3>5
  <2>3. LogsKinds'
    BY <1>1, <1>5, <2>1 DEF LogsInv, LogsKinds, LogFields
  <2>4. RowsInv'
    BY <1>7, <2>2 DEF RowsInv, Straight
  <2> QED BY <1>2, <1>4, <2>3, <2>4 DEF LogsInv
<1> QED BY <1>6, <1>7 DEF RowsAnswered

LEMMA StatAnsweredInv ==
    ASSUME LogsInv, NEW c \in logCalls, StatAnswered(c), logCalls' = logCalls \ {c},
           UNCHANGED <<isAdminUser, logInputs, logType, logsAsked, logsMixed, logsCrossed,
                       logsChanged>>
    PROVE  LogsInv'
<1>1. /\ c \in StatCalls /\ RowCalls' = RowCalls /\ StatCalls' = StatCalls \ {c}
      /\ UNCHANGED logs /\ showStat' = TRUE
  BY DEF StatAnswered, RowCalls, StatCalls
<1>2. \/ stat' = c.query /\ logRefused' = logRefused
      \/ logRefused' = TRUE
  BY DEF StatAnswered
<1>3. LogsKinds' /\ TypeWasAsked'
  BY <1>1 DEF LogsInv, LogsKinds, TypeWasAsked, LogFields
<1>4. RowsInv'
  BY <1>1, <1>2 DEF LogsInv, RowsInv, Straight
<1>5. TotalInv'
  BY <1>1, <1>2 DEF LogsInv, TotalInv, TotalIsShown, LogQuery
<1> QED BY <1>3, <1>4, <1>5 DEF LogsInv

LEMMA LogsStep ==
    ASSUME LogsInv, [LogsNext]_logsVars
    PROVE  LogsInv'
<1>1. CASE handleInputChange
  BY <1>1, EditInv
<1>2. CASE SubmitLogs
  <2>1. RefreshRows(logType, logInputs) /\ logType \in LogType
    BY <1>2 DEF SubmitLogs, LogsInv, LogsKinds
  <2>2. UNCHANGED <<isAdminUser, logInputs, logType, logs, showStat, stat, logsMixed, logRefused,
                    logsChanged>>
    BY <1>2 DEF SubmitLogs
  <2> QED BY <2>1, <2>2, RefreshInv
<1>3. CASE ChooseLogType
  <2>1. PICK type \in LogType : logType' = type /\ RefreshRows(type, logInputs)
    BY <1>3 DEF ChooseLogType
  <2>2. /\ UNCHANGED <<isAdminUser, logInputs, logs, showStat, stat, logsMixed, logRefused>>
        /\ logsChanged' = (logsChanged \/ showStat \/ StatCalls # {})
    BY <1>3, Zenon DEF ChooseLogType
  <2> QED BY <2>1, <2>2, RefreshInv
<1>4. CASE LogsPage
  BY <1>4, PageInv
<1>5. CASE handleEyeClick
  BY <1>5, EyeInv
<1>6. CASE openDetailModal \/ CloseDetail \/ UNCHANGED logsVars
  <2>1. UNCHANGED <<isAdminUser, logInputs, logType, logs, showStat, stat, logCalls, logsAsked,
                    logsMixed, logsCrossed, logRefused, logsChanged>>
    BY <1>6 DEF openDetailModal, CloseDetail, logsVars
  <2> QED BY <2>1 DEF LogsInv, LogsKinds, RowsInv, Straight, TotalInv, TotalIsShown,
          TypeWasAsked, RowCalls, StatCalls, LogQuery, LogFields
<1>7. CASE LogsAnswered
  <2>1. UNCHANGED <<isAdminUser, logInputs, logType, logsAsked, logsMixed, logsCrossed,
                    logsChanged>>
    BY <1>7 DEF LogsAnswered
  <2>2. PICK c \in logCalls : /\ RowsAnswered(c) \/ StatAnswered(c)
                              /\ logCalls' = logCalls \ {c}
    BY <1>7 DEF LogsAnswered
  <2> QED BY <2>1, <2>2, RowsAnsweredInv, StatAnsweredInv
<1>8. CASE LogsRejected
  <2>1. /\ UNCHANGED <<isAdminUser, logInputs, logType, logs, showStat, stat, logsAsked,
                       logsMixed, logsCrossed, logsChanged>>
        /\ RowCalls' \subseteq RowCalls /\ StatCalls' \subseteq StatCalls /\ logRefused' = TRUE
    BY <1>8 DEF LogsRejected, RowCalls, StatCalls
  <2> QED BY <2>1 DEF LogsInv, LogsKinds, RowsInv, Straight, TotalInv, TotalIsShown,
          TypeWasAsked, LogQuery, LogFields
<1> QED BY <1>1, <1>2, <1>3, <1>4, <1>5, <1>6, <1>7, <1>8 DEF LogsNext

LEMMA LogsStart == ASSUME LogsAssumption, LogsInit PROVE LogsInv
<1>1. PICK c : c = [op |-> "load", n |-> 1, query |-> logsAsked, page |-> 1, closed |-> <<>>]
  OBVIOUS
<1>2. RowCalls = {c} /\ StatCalls = {}
  BY <1>1 DEF LogsInit, RowCalls, StatCalls
<1>3. /\ c.query = logsAsked /\ c.page = 1 /\ c.closed = <<>>
      /\ logsAsked = [all |-> isAdminUser, type |-> 0, inputs |-> {}]
      /\ isAdminUser \in BOOLEAN
  BY <1>1 DEF LogsInit, LogQuery
<1>4. logsAsked \in LogQueries /\ logsAsked.type = 0
  BY <1>3 DEF LogQueries, LogsAssumption
<1>5. LogsKinds
  <2>1. <<>> \in Seq(LogQueries) /\ logs = <<>> /\ logType \in LogType /\ logInputs = {}
    BY DEF LogsInit, LogsAssumption
  <2>2. \A d \in RowCalls : /\ d.query \in LogQueries /\ d.closed \in Seq(LogQueries)
                            /\ d.page = 1
    BY <1>2, <1>3, <1>4, <2>1
  <2> QED BY <1>3, <1>4, <2>1, <2>2 DEF LogsKinds
<1>6. RowsInv
  BY <1>2, <1>3 DEF RowsInv
<1>7. TotalInv /\ TypeWasAsked
  BY <1>2, <1>4 DEF TotalInv, TotalIsShown, TypeWasAsked, LogsInit
<1> QED BY <1>5, <1>6, <1>7 DEF LogsInv

LEMMA LogsInvariant == LogsSpec => []LogsInv
<1>1. LogsInit => LogsInv
  BY LogsStart, LogsAssumption
<1>2. LogsInv /\ [LogsNext]_logsVars => LogsInv'
  BY LogsStep
<1> QED BY <1>1, <1>2, PTL DEF LogsSpec

\* For any types, edits and requests, and responses in any order: at rest the rows answer the last
\* refresh, a total that is shown is of the query in the form, and the type selected was asked
\* for, but for what a click or a failure in between is named to undo (refresh, getLogStat).
THEOREM RowsAndTotalAreAsked == LogsSpec => []LogsAnswerTheirQuery
<1>1. LogsInv => LogsAnswerTheirQuery
  <2> SUFFICES ASSUME LogsInv PROVE LogsAnswerTheirQuery
    OBVIOUS
  <2>1. RowsAnswerTheQuery
    BY DEF LogsInv, LogsKinds, RowsInv, Straight, AllOf, RowsAnswerTheQuery
  <2>2. TotalIsOfTheQuery /\ TotalIsShown
    BY DEF LogsInv, TotalInv, TotalIsOfTheQuery
  <2> QED BY <2>1, <2>2 DEF LogsInv, LogsAnswerTheirQuery
<1> QED BY <1>1, LogsInvariant, PTL

\* No answer takes a total away that is shown, in whatever order the clicks are answered
\* (handleEyeClick).
THEOREM TotalIsNotTakenAway == LogsSpec => TotalStaysShown
<1>1. [LogsNext]_logsVars => [showStat => showStat']_logsVars
  <2> SUFFICES ASSUME LogsNext, showStat PROVE showStat'
    OBVIOUS
  <2> QED BY DEF LogsNext, handleInputChange, SubmitLogs, ChooseLogType, LogsPage,
          handleEyeClick, openDetailModal, CloseDetail, LogsAnswered, RowsAnswered,
          StatAnswered, LogsRejected
<1> QED BY <1>1, PTL DEF LogsSpec, TotalStaysShown

-----------------------------------------------------------------------------
(* Types: what the variables of every part may hold.                       *)

----------------------------------------------------------------------------
(* Forms *)

\* The form's state, of a type that there is and with models that there are.
InputsOK(in) == in.type \in ChannelType /\ in.models \subseteq Model \cup Custom

LEMMA OptionsAreModels ==
    ASSUME NEW known, known \subseteq Model, NEW models, models \subseteq Model \cup Custom
    PROVE  FormOptions(known, models) \subseteq Model \cup Custom
BY DEF FormOptions

LEMMA BasicsAreModels ==
    ASSUME FormsAssumption, NEW type
    PROVE  BasicModels(type) \subseteq Model
BY DEF FormsAssumption, BasicModels

LEMMA LoadTypes ==
    ASSUME FormsTypeOK, FormsInv, RecordLoaded \/ LoadRejected \/ ModelsFetched
    PROVE  FormsTypeOK'
<1>1. InputsOK(inputs) /\ InputsOK(inputs') /\ config' \in Config
  <2>1. InputsOK(inputs) /\ config \in Config
    BY DEF FormsTypeOK, InputsOK
  <2>2. CASE UNCHANGED <<inputs, config>>
    BY <2>1, <2>2
  <2>3. CASE loadChannel
    <3>1. PICK ty \in ChannelType, ms \in {{}, Custom} :
              inputs' = [originInputs EXCEPT !.name = "n", !.type = ty, !.models = ms]
      BY <2>3 DEF loadChannel
    <3>2. inputs'.type = ty /\ inputs'.models = ms
      BY <3>1 DEF originInputs
    <3>3. config' \in Config
      BY <2>3 DEF loadChannel, Config
    <3> QED BY <2>1, <3>2, <3>3 DEF InputsOK
  <2>4. CASE loadToken
    <3>1. PICK ex \in {"never", "date"}, ms \in {{}, Custom} :
              inputs' = [originInputs EXCEPT !.name = "n", !.expires = ex, !.models = ms]
      BY <2>4 DEF loadToken
    <3>2. inputs'.type = "plain" /\ inputs'.models = ms
      BY <3>1 DEF originInputs
    <3> QED BY <2>1, <2>4, <3>2 DEF InputsOK, ChannelType, loadToken
  <2>5. CASE loadUser \/ loadRedemption
    <3>1. inputs'.type = "plain" /\ inputs'.models = {} /\ config' = config
      BY <2>5 DEF loadUser, loadRedemption, originInputs
    <3> QED BY <2>1, <3>1 DEF InputsOK, ChannelType
  <2> QED BY <2>2, <2>3, <2>4, <2>5 DEF RecordLoaded, LoadRejected, ModelsFetched
<1>2. knownModels' \subseteq Model
  BY DEF RecordLoaded, LoadRejected, ModelsFetched, FormsTypeOK
<1>3. modelOptions' \subseteq Model \cup Custom
  <2>1. CASE LoadRejected
    BY <2>1 DEF LoadRejected, FormsTypeOK
  <2>2. CASE RecordLoaded
    BY <1>1, <2>2, OptionsAreModels DEF RecordLoaded, FormsTypeOK, InputsOK
  <2>3. CASE ModelsFetched
    BY <1>1, <1>2, <2>3, OptionsAreModels DEF ModelsFetched, InputsOK
  <2> QED BY <2>1, <2>2, <2>3
<1>4. /\ form' = form /\ isEdit' = isEdit /\ submits' = submits /\ formCalls' = formCalls
      /\ awaited' \subseteq awaited
  BY DEF RecordLoaded, LoadRejected, ModelsFetched
<1>5. formLoading' \in BOOLEAN /\ record' \in {"unknown", "loaded", "failed"}
  <2>1. CASE RecordLoaded
    BY <2>1 DEF RecordLoaded
  <2>2. CASE LoadRejected
    BY <2>2 DEF LoadRejected
  <2>3. CASE ModelsFetched
    BY <2>3 DEF ModelsFetched, FormsTypeOK
  <2> QED BY <2>1, <2>2, <2>3
<1> QED BY <1>1, <1>2, <1>3, <1>4, <1>5 DEF FormsTypeOK, InputsOK

LEMMA EnterTypes ==
    ASSUME FormsTypeOK, NEW field, NEW in, Enter(field, in), InputsOK(in), config' \in Config
    PROVE  FormsTypeOK'
<1>1. modelOptions' \subseteq Model \cup Custom
  BY OptionsAreModels DEF Enter, FormsTypeOK, InputsOK
<1>2. InputsOK(inputs') /\ UNCHANGED <<form, isEdit, formLoading, knownModels, awaited,
                                       formCalls, submits, record>>
  BY DEF Enter
<1> QED BY <1>1, <1>2 DEF FormsTypeOK, InputsOK

LEMMA EditTypes ==
    ASSUME FormsAssumption, FormsTypeOK, FormsInv,
           \/ TypeName \/ TypeKey \/ TypeOther \/ TypeMapping \/ ChooseType \/ ChooseModels
           \/ addCustomModel \/ handleConfigChange \/ setExpiredTime
    PROVE  FormsTypeOK'
<1>1. IsInputs(inputs) /\ InputsOK(inputs) /\ config \in Config
  BY DEF FormsInv, FormsTypeOK, InputsOK
<1>2. CASE TypeName \/ TypeKey \/ TypeOther \/ TypeMapping \/ setExpiredTime
  <2>1. /\ config' = config
        /\ \/ Enter("name", [inputs EXCEPT !.name = "n"])
           \/ Enter("key", [inputs EXCEPT !.key = "typed"])
           \/ Enter("other", [inputs EXCEPT !.other = "typed"])
           \/ \E m \in {"valid", "invalid"} : Enter("mapping", [inputs EXCEPT !.mapping = m])
           \/ \E ex \in {"never", "date"} : Enter("expires", [inputs EXCEPT !.expires = ex])
    BY <1>2 DEF TypeName, TypeKey, TypeOther, TypeMapping, setExpiredTime
  <2>2. \A x : /\ InputsOK([inputs EXCEPT !.name = x]) /\ InputsOK([inputs EXCEPT !.key = x])
               /\ InputsOK([inputs EXCEPT !.other = x]) /\ InputsOK([inputs EXCEPT !.mapping = x])
               /\ InputsOK([inputs EXCEPT !.expires = x])
    BY <1>1 DEF IsInputs, InputsOK
  <2> QED BY <1>1, <2>1, <2>2, EnterTypes
<1>3. CASE ChooseType
  <2>1. PICK ty \in ChannelType \ {inputs.type} :
            Enter("type", [inputs EXCEPT !.type = ty,
                                         !.models = IF @ = {} THEN BasicModels(ty) ELSE @])
    BY <1>3 DEF ChooseType
  <2>2. PICK in : in = [inputs EXCEPT !.type = ty,
                                      !.models = IF @ = {} THEN BasicModels(ty) ELSE @]
    OBVIOUS
  <2>3. in.type = ty /\ (in.models = inputs.models \/ in.models = BasicModels(ty))
    BY <1>1, <2>2 DEF IsInputs
  <2>4. InputsOK(in)
    BY <1>1, <2>3, BasicsAreModels DEF InputsOK
  <2> QED BY <1>1, <1>3, <2>1, <2>2, <2>4, EnterTypes DEF ChooseType
<1>4. CASE ChooseModels
  <2>1. PICK ms \in {{}, knownModels, modelOptions} \cup
                    (IF form = "channel" THEN {BasicModels(inputs.type)} ELSE {}) :
            Enter("models", [inputs EXCEPT !.models = ms, !.joined = FALSE])
    BY <1>4 DEF ChooseModels
  <2>2. PICK in : in = [inputs EXCEPT !.models = ms, !.joined = FALSE]
    OBVIOUS
  <2>3. in.type = inputs.type /\ in.models = ms
    BY <1>1, <2>2 DEF IsInputs
  <2>4. ms \subseteq Model \cup Custom
    BY <2>1, BasicsAreModels DEF FormsTypeOK
  <2>5. InputsOK(in)
    BY <1>1, <2>3, <2>4 DEF InputsOK
  <2> QED BY <1>1, <1>4, <2>1, <2>2, <2>5, EnterTypes DEF ChooseModels
<1>5. CASE addCustomModel
  <2>1. PICK m \in Custom \ inputs.models :
            Enter("models", [inputs EXCEPT !.models = @ \cup {m}])
    BY <1>5 DEF addCustomModel
  <2>2. PICK in : in = [inputs EXCEPT !.models = @ \cup {m}]
    OBVIOUS
  <2>3. in.type = inputs.type /\ in.models = inputs.models \cup {m}
    BY <1>1, <2>2 DEF IsInputs
  <2>4. InputsOK(in)
    BY <1>1, <2>3 DEF InputsOK
  <2> QED BY <1>1, <1>5, <2>1, <2>2, <2>4, EnterTypes DEF addCustomModel
<1>6. CASE handleConfigChange
  <2>1. config' \in Config /\ Enter("config", inputs)
    BY <1>6 DEF handleConfigChange, Config
  <2> QED BY <1>1, <2>1, EnterTypes
<1> QED BY <1>2, <1>3, <1>4, <1>5, <1>6

LEMMA SubmitTypes ==
    ASSUME FormsAssumption, FormsTypeOK, NEW in, NEW denied, NEW body,
           Submit(in, denied, body), InputsOK(in)
    PROVE  FormsTypeOK'
<1>1. /\ submits < MaxSubmits /\ submits' = submits + 1
      /\ formCalls' = formCalls \/ formCalls' = formCalls + 1
      /\ InputsOK(inputs')
      /\ UNCHANGED <<form, isEdit, config, formLoading, knownModels, modelOptions, awaited, record>>
  BY DEF Submit
<1>2. formCalls \in 0 .. submits /\ submits \in 0 .. MaxSubmits /\ MaxSubmits \in Nat
  BY Zenon DEF FormsTypeOK, FormsAssumption
<1>3. formCalls' \in 0 .. submits' /\ submits' \in 0 .. MaxSubmits
  BY <1>1, <1>2
<1> QED BY <1>1, <1>3 DEF FormsTypeOK, InputsOK

LEMMA SubmitsTypes ==
    ASSUME FormsAssumption, FormsTypeOK, FormsInv,
           SubmitChannel \/ SubmitToken \/ SubmitUser \/ SubmitAddUser \/ SubmitRedemption
    PROVE  FormsTypeOK'
<1>1. IsInputs(inputs) /\ InputsOK(inputs)
  BY DEF FormsInv, FormsTypeOK, InputsOK
<1>2. PICK in, denied, body :
          /\ Submit(in, denied, body)
          /\ \/ in = inputs
             \/ \E key : in = [inputs EXCEPT !.key = key]
             \/ in = [inputs EXCEPT !.joined = TRUE,
                                    !.expires = IF @ = "date" THEN "seconds" ELSE @]
  <2>1. CASE SubmitChannel
    BY <2>1 DEF SubmitChannel
  <2>2. CASE SubmitToken
    BY <2>2 DEF SubmitToken
  <2>3. CASE SubmitUser \/ SubmitAddUser \/ SubmitRedemption
    BY <2>3 DEF SubmitUser, SubmitAddUser, SubmitRedemption
  <2> QED BY <2>1, <2>2, <2>3
<1>3. InputsOK(in)
  BY <1>1, <1>2 DEF IsInputs, InputsOK
<1> QED BY <1>2, <1>3, SubmitTypes

LEMMA AnsweredTypes ==
    ASSUME FormsAssumption, FormsTypeOK, SubmitAnswered
    PROVE  FormsTypeOK'
<1>1. formCalls' \in 0 .. submits /\ submits' = submits
  <2>1. formCalls \in 0 .. submits /\ submits \in 0 .. MaxSubmits /\ MaxSubmits \in Nat
    BY Zenon DEF FormsTypeOK, FormsAssumption
  <2>2. formCalls > 0 /\ formCalls' = formCalls - 1 /\ submits' = submits
    BY DEF SubmitAnswered
  <2> QED BY <2>1, <2>2
<1>2. inputs' = inputs \/ inputs' = originInputs
  BY DEF SubmitAnswered
<1>3. InputsOK(inputs')
  <2>1. originInputs.type = "plain" /\ originInputs.models = {}
    BY DEF originInputs
  <2>2. InputsOK(inputs) /\ InputsOK(originInputs)
    BY <2>1 DEF FormsTypeOK, InputsOK, ChannelType
  <2> QED BY <1>2, <2>2
<1>4. modelOptions' \subseteq Model \cup Custom
  BY <1>3, OptionsAreModels DEF SubmitAnswered, FormsTypeOK, InputsOK
<1>5. UNCHANGED <<form, isEdit, config, formLoading, knownModels, awaited, record>>
  BY DEF SubmitAnswered
<1> QED BY <1>1, <1>3, <1>4, <1>5 DEF FormsTypeOK, InputsOK

\* A form shows a type and models that there are, and has no more submits under way than were made.
THEOREM FormsTypeCorrect == FormsSpec => []FormsTypeOK
<1>1. FormsInit => FormsTypeOK
  <2> SUFFICES ASSUME FormsInit PROVE FormsTypeOK
    OBVIOUS
  <2>1. isEdit \in BOOLEAN
    BY DEF FormsInit
  <2>2. 0 \in 0 .. 0 /\ 0 \in 0 .. MaxSubmits
    <3>1. MaxSubmits \in Nat
      BY FormsAssumption, Zenon DEF FormsAssumption
    <3> QED BY <3>1
  <2> QED BY <2>1, <2>2 DEF FormsInit, FormsTypeOK, originInputs, ChannelType, Config
<1>2. FormsTypeOK /\ FormsInv /\ [FormsNext]_formsVars => FormsTypeOK'
  <2>1. ASSUME FormsTypeOK, UNCHANGED formsVars PROVE FormsTypeOK'
    BY <2>1 DEF FormsTypeOK, formsVars
  <2> QED BY <2>1, FormsAssumption, LoadTypes, EditTypes, SubmitsTypes, AnsweredTypes DEF FormsNext
<1> QED BY <1>1, <1>2, FormsInvariant, PTL DEF FormsSpec

----------------------------------------------------------------------------
(* Settings *)

\* The values that an option may have where its field is shown, sent or stored: only a secret is
\* ever absent from what the server tells.
Told(f) == Values(f) \cup {""} \cup (IF f \in Secret THEN {"absent"} ELSE {})

SettingsValues ==
    /\ \A f \in Fields :
        /\ server[f] \in Told(f) /\ shown[f] \in Told(f)
        /\ origin[f] \in Told(f) \cup {"absent"}
        /\ fetched.kind = "options" => fetched.data[f] \in Told(f)
    /\ \A save \in saves : \A i \in DOMAIN save.queue :
           save.queue[i].value \in Told(save.queue[i].key)

SettingsScalars ==
    /\ group \in Group /\ domains \in {"v", "w", ""}
    /\ fetched.kind \in {"asked", "refused", "options", "loaded"}
    /\ settingsLoading \in BOOLEAN /\ warned \in BOOLEAN
    /\ edits \in 0 .. MaxEdits /\ saved \in 0 .. MaxSaves

SettingsTypes == SettingsScalars /\ SettingsValues

LEMMA SwitchValues ==
    /\ "true" \in Told("switch") /\ "false" \in Told("switch")
    /\ Told("EmailDomainWhitelist") = {"v", "w", ""}
    /\ \A f : "" \in Told(f)
    /\ \A f : f \in Secret => "absent" \in Told(f)
    /\ \A f : f # "switch" => "v" \in Told(f)
    /\ \A f : Values(f) \subseteq Told(f)
BY DEF Told, Values, Ratios, Secret, NotBlank

LEMMA FieldsStay == ASSUME UNCHANGED group PROVE Fields' = Fields
BY DEF Fields, Texts

LEMMA LoadSettingsTypes ==
    ASSUME SettingsInv, SettingsTypes, ServerAnswersOptions \/ getOptions
    PROVE  SettingsTypes'
<1>1. Fields' = Fields
  BY FieldsStay DEF ServerAnswersOptions, getOptions
<1>2. CASE ServerAnswersOptions
  <2>1. /\ UNCHANGED <<group, server, shown, domains, origin, saves, settingsLoading, warned,
                       edits, saved>>
        /\ fetched'.kind \in {"refused", "options"}
        /\ fetched'.kind = "options" =>
               \A f \in Fields : fetched'.data[f] = IF f \in Secret THEN "absent" ELSE server[f]
    BY <1>2 DEF ServerAnswersOptions
  <2>2. SettingsValues'
    BY ZenonT(60), <1>1, <2>1, SwitchValues DEF SettingsTypes, SettingsValues
  <2> QED BY <2>1, <2>2 DEF SettingsTypes, SettingsScalars
<1>3. CASE getOptions
  <2>1. /\ UNCHANGED <<group, server, saves, settingsLoading, warned, edits, saved>>
        /\ fetched.kind = "options" /\ shown' = fetched.data
        /\ origin' = origin \/ origin' = fetched.data
        /\ fetched' = [fetched EXCEPT !.kind = "loaded"]
        /\ domains' = IF group = "emailDomain" THEN fetched.data["EmailDomainWhitelist"]
                      ELSE domains
    BY <1>3 DEF getOptions
  <2>2. fetched'.kind = "loaded"
    <3>1. fetched'.kind = IF "kind" \in DOMAIN fetched THEN "loaded" ELSE fetched'.kind
      BY <2>1
    <3> QED BY <2>1, <3>1 DEF SettingsInv, SettingsKinds
  <2>3. domains' \in {"v", "w", ""}
    <3>1. group = "emailDomain" => "EmailDomainWhitelist" \in Fields
      <4>1. PICK options : options = <<"EmailDomainWhitelist">>
        OBVIOUS
      <4>2. ASSUME group = "emailDomain" PROVE Options(group) = options
        <5>1. "emailDomain" \notin OtherGroups
          BY DEF OtherGroups
        <5> QED BY <4>1, <4>2, <5>1 DEF Options, submitEmailDomainWhitelist
      <4>3. "EmailDomainWhitelist" \in ToSet(options)
        BY <4>1 DEF ToSet
      <4> QED BY <4>2, <4>3 DEF Fields
    <3> QED BY <2>1, <3>1, SwitchValues DEF SettingsTypes, SettingsScalars, SettingsValues
  <2>4. SettingsValues'
    BY <1>1, <2>1, <2>2 DEF SettingsTypes, SettingsValues
  <2> QED BY <2>1, <2>2, <2>3, <2>4 DEF SettingsTypes, SettingsScalars
<1> QED BY <1>2, <1>3

LEMMA EditSettingsTypes ==
    ASSUME SettingsInv, SettingsTypes, EditOption \/ EditDomains
    PROVE  SettingsTypes'
<1>1. UNCHANGED <<group, server, origin, fetched, saves, settingsLoading, warned, saved>>
  BY DEF EditOption, EditDomains
<1>2. Fields' = Fields
  BY <1>1, FieldsStay
<1>3. edits' \in 0 .. MaxEdits
  <2>1. edits \in 0 .. MaxEdits /\ MaxEdits \in Nat
    BY SettingsAssumption DEF SettingsAssumption, SettingsTypes, SettingsScalars
  <2>2. edits < MaxEdits /\ edits' = edits + 1
    BY DEF EditOption, EditDomains
  <2> QED BY <2>1, <2>2
<1>4. CASE EditOption
  <2>0. PICK f \in Texts : \E v \in Values(f) : shown' = [shown EXCEPT ![f] = v]
    BY <1>4 DEF EditOption
  <2>1. PICK v \in Values(f) : shown' = [shown EXCEPT ![f] = v]
    BY <2>0
  <2>2. domains' = domains /\ DOMAIN shown = Fields
    BY <1>4 DEF EditOption, SettingsInv, SettingsKinds
  <2>3. \A x \in Fields : shown'[x] = IF x = f THEN v ELSE shown[x]
    BY <2>1, <2>2
  <2>4. \A x \in Fields : shown'[x] \in Told(x)
    BY <2>3, SwitchValues DEF SettingsTypes, SettingsValues
  <2> QED BY <1>1, <1>2, <1>3, <2>2, <2>4 DEF SettingsTypes, SettingsScalars, SettingsValues
<1>5. CASE EditDomains
  <2>1. shown' = shown /\ domains' \in {"v", "w", ""}
    BY <1>5 DEF EditDomains
  <2> QED BY <1>1, <1>2, <1>3, <2>1 DEF SettingsTypes, SettingsScalars, SettingsValues
<1> QED BY <1>4, <1>5

LEMMA BeginTypes ==
    ASSUME SettingsInv, SettingsTypes, NEW queue, NEW good, Begin(queue, good), warned' \in BOOLEAN,
           \A i \in DOMAIN queue : queue[i] \in Fields
    PROVE  SettingsTypes'
<1>1. /\ UNCHANGED <<group, server, shown, domains, origin, fetched, edits>>
      /\ settingsLoading' = (DOMAIN queue # {})
      /\ saved < MaxSaves /\ saved' = saved + 1
  BY DEF Begin
<1>2. saved' \in 0 .. MaxSaves
  <2>1. saved \in 0 .. MaxSaves /\ MaxSaves \in Nat
    BY SettingsAssumption DEF SettingsAssumption, SettingsTypes, SettingsScalars
  <2> QED BY <1>1, <2>1
<1>3. PICK value : value = [i \in DOMAIN queue |->
            [key |-> queue[i],
             value |-> IF queue[i] # "switch" THEN shown[queue[i]]
                       ELSE IF shown["switch"] = "true" THEN "false" ELSE "true"]]
  OBVIOUS
<1>4. \A i \in DOMAIN value : value[i].value \in Told(value[i].key)
  <2>1. \A i \in DOMAIN queue : shown[queue[i]] \in Told(queue[i])
    BY DEF SettingsTypes, SettingsValues
  <2> QED BY <1>3, <2>1, SwitchValues
<1>5. PICK save : save = [n |-> saved, good |-> good, queue |-> value]
  OBVIOUS
<1>6. saves' \subseteq saves \cup {save} /\ save.queue = value
  BY <1>3, <1>5 DEF Begin
<1>7. Fields' = Fields
  BY <1>1, FieldsStay
<1>8. SettingsValues'
  <2>1. \A s \in saves' : s \in saves \/ s.queue = value
    BY <1>6
  <2>2. \A s \in saves' : \A i \in DOMAIN s.queue : s.queue[i].value \in Told(s.queue[i].key)
    BY <1>4, <2>1 DEF SettingsTypes, SettingsValues
  <2> QED BY <1>1, <1>7, <2>2 DEF SettingsTypes, SettingsValues
<1> QED BY <1>1, <1>2, <1>8 DEF SettingsTypes, SettingsScalars

LEMMA SaveTypes ==
    ASSUME SettingsInv, SettingsTypes, SaveGroup \/ FlipSwitch \/ ConfirmWarning
    PROVE  SettingsTypes'
<1>1. warned' \in BOOLEAN
  BY DEF SaveGroup, FlipSwitch, ConfirmWarning, SettingsTypes, SettingsScalars
<1>2. CASE SaveGroup
  <2>1. PICK queue : queue = ToSend
    OBVIOUS
  <2>2. \A i \in DOMAIN queue : i \in DOMAIN Options(group) /\ queue[i] = Options(group)[i]
    BY <2>1 DEF ToSend
  <2>3. \A i \in DOMAIN queue : queue[i] \in Fields
    BY <2>2 DEF Fields, ToSet
  <2>4. PICK good : Begin(queue, good)
    BY <1>2, <2>1 DEF SaveGroup
  <2> QED BY <1>1, <2>3, <2>4, BeginTypes
<1>3. CASE Begin(<<"switch">>, FALSE)
  <2>1. PICK queue : queue = <<"switch">>
    OBVIOUS
  <2>2. \A i \in DOMAIN queue : queue[i] = "switch"
    BY <2>1
  <2>3. \A i \in DOMAIN queue : queue[i] \in Fields
    BY <2>2, GroupFacts DEF SettingsInv, SettingsKinds
  <2>4. Begin(queue, FALSE)
    BY <1>3, <2>1
  <2> QED BY <1>1, <2>3, <2>4, BeginTypes
<1>4. CASE UNCHANGED <<group, server, shown, domains, origin, fetched, saves, settingsLoading,
                       edits, saved, early, rejected>>
  BY <1>1, <1>4, FieldsStay DEF SettingsTypes, SettingsScalars, SettingsValues
<1> QED BY <1>2, <1>3, <1>4 DEF FlipSwitch, ConfirmWarning

LEMMA AnsweredSettingsTypes ==
    ASSUME SettingsInv, SettingsTypes, OptionAnswered \/ OptionRejected
    PROVE  SettingsTypes'
<1>1. UNCHANGED <<group, domains, origin, fetched, warned, edits, saved>>
  BY DEF OptionAnswered, OptionRejected
<1>2. Fields' = Fields
  BY <1>1, FieldsStay
<1>3. ASSUME NEW save \in saves, NEW x, DOMAIN x = Fields, \A f \in Fields : x[f] \in Told(f)
      PROVE  LET option == save.queue[First(save)]
             IN  \A f \in Fields : [x EXCEPT ![option.key] = option.value][f] \in Told(f)
  <2>1. PICK option : option = save.queue[First(save)]
    OBVIOUS
  <2>2. First(save) \in DOMAIN save.queue
    BY RestOfSave
  <2>3. option.value \in Told(option.key)
    BY <2>1, <2>2 DEF SettingsTypes, SettingsValues
  <2> QED BY <1>3, <2>1, <2>3
<1>4. /\ DOMAIN server = Fields /\ DOMAIN shown = Fields
      /\ \A f \in Fields : server[f] \in Told(f) /\ shown[f] \in Told(f)
  BY DEF SettingsInv, SettingsKinds, SettingsTypes, SettingsValues
<1>5. /\ \A f \in Fields : server'[f] \in Told(f) /\ shown'[f] \in Told(f)
      /\ settingsLoading' \in BOOLEAN
  <2>1. CASE OptionAnswered
    <3>1. PICK save \in saves :
              /\ \/ server' = [server EXCEPT ![save.queue[First(save)].key] =
                                                 save.queue[First(save)].value]
                 \/ server' = server
              /\ \/ shown' = [shown EXCEPT ![save.queue[First(save)].key] =
                                               save.queue[First(save)].value]
                 \/ shown' = shown
      BY <2>1 DEF OptionAnswered
    <3>2. settingsLoading' \in BOOLEAN
      BY <2>1 DEF OptionAnswered
    <3> QED BY <1>3, <1>4, <3>1, <3>2
  <2>2. CASE OptionRejected
    <3>1. PICK save \in saves :
              \/ server' = [server EXCEPT ![save.queue[First(save)].key] =
                                              save.queue[First(save)].value]
              \/ server' = server
      BY <2>2 DEF OptionRejected
    <3>2. shown' = shown /\ settingsLoading' = settingsLoading
      BY <2>2 DEF OptionRejected
    <3> QED BY <1>3, <1>4, <3>1, <3>2 DEF SettingsTypes, SettingsScalars
  <2> QED BY <2>1, <2>2
<1>6. \A s \in saves' : \A i \in DOMAIN s.queue : s.queue[i].value \in Told(s.queue[i].key)
  <2>1. CASE OptionAnswered
    <3>1. PICK save \in saves, success \in BOOLEAN :
              saves' \subseteq (saves \ {save}) \cup {Rest(save, success)}
      BY <2>1, Zenon DEF OptionAnswered
    <3>2. PICK rest : rest = Rest(save, success)
      OBVIOUS
    <3>3. \A i \in DOMAIN rest.queue : i \in DOMAIN save.queue /\ rest.queue[i] = save.queue[i]
      BY <3>2, RestOfSave
    <3>4. \A s \in saves' : s \in saves \/ s = rest
      BY <3>1, <3>2
    <3> QED BY <3>3, <3>4 DEF SettingsTypes, SettingsValues
  <2>2. CASE OptionRejected
    <3>1. saves' \subseteq saves
      BY <2>2 DEF OptionRejected
    <3> QED BY <3>1 DEF SettingsTypes, SettingsValues
  <2> QED BY <2>1, <2>2
<1>7. SettingsValues'
  BY <1>1, <1>2, <1>5, <1>6 DEF SettingsTypes, SettingsValues
<1> QED BY <1>1, <1>5, <1>7 DEF SettingsTypes, SettingsScalars

\* The settings hold values of their options, and only a secret's is ever left out.
THEOREM SettingsTypeCorrect == SettingsSpec => []SettingsTypeOK
<1>1. SettingsInit => SettingsTypes
  <2> SUFFICES ASSUME SettingsInit PROVE SettingsTypes
    OBVIOUS
  <2>1. MaxEdits \in Nat /\ MaxSaves \in Nat
    BY SettingsAssumption DEF SettingsAssumption
  <2>2. SettingsScalars
    <3>1. edits \in 0 .. MaxEdits /\ saved \in 0 .. MaxSaves
      <4>1. edits = 0 /\ saved = 0
        BY DEF SettingsInit
      <4> QED BY <2>1, <4>1
    <3>2. fetched.kind = "asked"
      BY DEF SettingsInit
    <3> QED BY <3>1, <3>2, Zenon DEF SettingsInit, SettingsScalars
  <2>3. SettingsValues
    BY SwitchValues DEF SettingsInit, SettingsValues
  <2> QED BY <2>2, <2>3 DEF SettingsTypes
<1>2. SettingsInv /\ SettingsTypes /\ [SettingsNext]_settingsVars => SettingsTypes'
  <2>1. ASSUME SettingsTypes, UNCHANGED settingsVars PROVE SettingsTypes'
    <3>1. UNCHANGED <<group, server, shown, domains, origin, fetched, saves, settingsLoading,
                      warned, edits, saved>>
      BY <2>1 DEF settingsVars
    <3> QED BY <2>1, <3>1, FieldsStay DEF SettingsTypes, SettingsScalars, SettingsValues
  <2> QED BY <2>1, LoadSettingsTypes, EditSettingsTypes, SaveTypes, AnsweredSettingsTypes
          DEF SettingsNext
<1>3. SettingsInv /\ SettingsTypes => SettingsTypeOK
  <2>1. ASSUME NEW f, NEW x \in Told(f) PROVE x \in Values(f) \cup {"", "absent"}
    BY DEF Told
  <2>2. ASSUME SettingsTypes, NEW f \in Fields
        PROVE  {server[f], shown[f], origin[f]} \subseteq Values(f) \cup {"", "absent"}
    BY <2>1, <2>2 DEF SettingsTypes, SettingsValues
  <2> QED BY <2>2 DEF SettingsInv, SettingsKinds, SettingsTypes, SettingsScalars, SettingsTypeOK
<1> QED BY <1>1, <1>2, <1>3, SettingsInvariant, PTL DEF SettingsSpec

----------------------------------------------------------------------------
(* Personal settings and session *)

\* Tokens are numbers of calls so far, and every call has an answer of its kind.
THEOREM AccountTypeCorrect == AccountSpec => []AccountTypeOK
<1>1. AccountInv => AccountTypeOK
  BY DEF AccountInv, AccountKinds, AccountTypeOK
<1> QED BY <1>1, AccountInvariant, PTL

----------------------------------------------------------------------------

PathsInv == path \in [Tab -> Path] /\ begun \in 0 .. MaxLogins

LEMMA NavigatePath ==
    ASSUME path \in [Tab -> Path], NEW t \in Tab, NEW p \in Path, NEW user, NEW stored,
           Navigate(t, p, user, stored)
    PROVE  path' \in [Tab -> Path]
<1>1. Arrive(p, stored) \in Path
  BY DEF Arrive, Path, AccountRoutes
<1> QED BY <1>1 DEF Navigate

LEMMA RestartPath ==
    ASSUME path \in [Tab -> Path], NEW t \in Tab, NEW p \in Path, Restart(t, p)
    PROVE  path' \in [Tab -> Path]
<1>1. Arrive(p, local) \in Path
  BY DEF Arrive, Path, AccountRoutes
<1> QED BY <1>1 DEF Restart

LEMMA LinksArePaths ==
    ASSUME NEW t
    PROVE  Links(t) \subseteq Path
<1>1. /\ {Private, "open", "home", "auth", "oauth"} \subseteq Path
  BY DEF Path, RecordRoutes, AccountRoutes
<1>2. \A user : /\ SidebarLinks(user) \subseteq Path /\ UserLinks(user) \subseteq Path
                /\ HomeLinks(user) \subseteq Path
  BY <1>1 DEF SidebarLinks, UserLinks, HomeLinks, navItems
<1>3. TopbarLinks \subseteq Path /\ LoginLinks \subseteq Path
  BY <1>1 DEF TopbarLinks, LoginLinks
<1> QED BY <1>2, <1>3 DEF Links

LEMMA BegunBounded ==
    ASSUME begun \in 0 .. MaxLogins, begun < MaxLogins, begun' = begun + 1
    PROVE  begun' \in 0 .. MaxLogins
<1>1. MaxLogins \in Nat
  BY SessionAssumption DEF SessionAssumption
<1> QED BY <1>1

LEMMA PathsStep ==
    ASSUME SessionInv, PathsInv, [SessionNext]_sessionVars
    PROVE  PathsInv'
<1>1. path \in [Tab -> Path] /\ begun \in 0 .. MaxLogins
  BY DEF PathsInv
<1>2. {Private, "open", "home", "auth", "oauth"} \subseteq Path
  BY DEF Path, RecordRoutes, AccountRoutes
<1>3. ASSUME NEW t \in Tab, FollowLink(t) PROVE PathsInv'
  <2>1. PICK p \in Links(t) : Navigate(t, p, ctx[t], local)
    BY <1>3 DEF FollowLink
  <2>2. p \in Path /\ begun' = begun
    BY <1>3, LinksArePaths DEF FollowLink
  <2> QED BY <1>1, <2>1, <2>2, NavigatePath DEF PathsInv
<1>4. ASSUME NEW t \in Tab, Open(t) \/ Unauthorized(t) PROVE PathsInv'
  <2>1. PICK p \in Path : Restart(t, p)
    BY <1>2, <1>4 DEF Open, Unauthorized
  <2>2. begun' = begun
    BY <2>1 DEF Restart
  <2> QED BY <1>1, <2>1, <2>2, RestartPath DEF PathsInv
<1>5. ASSUME NEW t \in Tab, Login(t) \/ WeChatLogin(t) \/ Logout(t) \/ DeleteAccount(t)
      PROVE  PathsInv'
  <2>1. path' = path /\ begun < MaxLogins /\ begun' = begun + 1
    BY <1>5 DEF Login, WeChatLogin, Logout, DeleteAccount, Call
  <2> QED BY <1>1, <2>1, BegunBounded DEF PathsInv
<1>6. ASSUME NEW t \in Tab, OAuthCallback(t) PROVE PathsInv'
  <2>1. /\ path' = [path EXCEPT ![t] = "oauth"]
        /\ begun < MaxLogins /\ begun' = begun + 1
    BY <1>6 DEF OAuthCallback
  <2> QED BY <1>1, <1>2, <2>1, BegunBounded DEF PathsInv
<1>7. ASSUME NEW c \in logins, Returns(c) PROVE PathsInv'
  <2>1. c.tab \in Tab /\ begun' = begun
    BY <1>7 DEF SessionInv, SessionKinds, Returns, LoginReturns, OAuthBinds, LogoutReturns,
                DeletionReturns, RefusalReturns, Done
  <2>2. path' = path \/ \E p \in Path : \E user, stored : Navigate(c.tab, p, user, stored)
    <3>1. CASE LoginReturns(c)
      BY <1>2, <3>1 DEF LoginReturns, PasswordAccepted, CodeAccepted
    <3>2. CASE OAuthBinds(c) \/ LogoutReturns(c)
      BY <1>2, <3>2 DEF OAuthBinds, LogoutReturns
    <3>3. CASE DeletionReturns(c) \/ RefusalReturns(c)
      BY <3>3 DEF DeletionReturns, RefusalReturns
    <3> QED BY <1>7, <3>1, <3>2, <3>3 DEF Returns
  <2> QED BY <1>1, <2>1, <2>2, NavigatePath DEF PathsInv
<1>8. ASSUME UNCHANGED <<path, begun>> PROVE PathsInv'
  BY <1>8 DEF PathsInv
<1>9. \/ \E t \in Tab : \/ FollowLink(t) \/ Open(t) \/ Unauthorized(t)
                        \/ Login(t) \/ WeChatLogin(t) \/ OAuthCallback(t)
                        \/ Logout(t) \/ DeleteAccount(t)
      \/ \E c \in logins : Returns(c)
      \/ UNCHANGED <<path, begun>>
  BY DEF SessionNext, sessionVars, ServerHandles, Lost, Expire
<1> QED BY <1>3, <1>4, <1>5, <1>6, <1>7, <1>8, <1>9

\* Every tab is on a route that there is, whatever links, redirects and callbacks led there, and the
\* calls under way are of tabs that there are or were.
THEOREM SessionTypeCorrect == SessionSpec => []SessionTypeOK
<1>1. SessionInit => PathsInv
  <2> SUFFICES ASSUME SessionInit PROVE PathsInv
    OBVIOUS
  <2>1. "home" \in Path
    BY DEF Path
  <2>2. begun = 0 /\ MaxLogins \in Nat
    BY SessionAssumption DEF SessionInit, SessionAssumption
  <2> QED BY <2>1, <2>2 DEF SessionInit, PathsInv
<1>2. SessionInv /\ PathsInv /\ [SessionNext]_sessionVars => PathsInv'
  BY PathsStep
<1>3. SessionInv /\ PathsInv => SessionTypeOK
  BY DEF SessionInv, SessionKinds, SomeUser, PathsInv, SessionTypeOK
<1> QED BY <1>1, <1>2, <1>3, SessionInvariant, PTL DEF SessionSpec

----------------------------------------------------------------------------
(* Logs *)

\* A page is asked for behind the rows that there are, each of which took a request.
LogsSize ==
    /\ {logLoading, showStat, logsMixed, logsCrossed, logRefused, logsChanged} \subseteq BOOLEAN
    /\ logSent \in 1 .. MaxLogCalls /\ logEdits \in 0 .. MaxLogEdits
    /\ logPage \in 1 .. logSent /\ Len(logs) <= logSent
    /\ \A c \in logCalls : c.op \in {"load", "stat"} /\ c.n \in 1 .. logSent
    /\ \A c \in RowCalls : c.page \in 1 .. logSent

\* What the counts need to be kept: they grow, and with them the page, the rows and the requests.
FlagsKept ==
    {logLoading, showStat, logsMixed, logsCrossed, logRefused, logsChanged}' \subseteq BOOLEAN

LEMMA MoreCalls ==
    ASSUME LogsSize, NEW c, AskLogs(c), c.op \in {"load", "stat"}, c.n = logSent + 1,
           c.op = "load" => c.page \in 1 .. logSent + 1
    PROVE  /\ logSent' = logSent + 1 /\ logSent' \in 1 .. MaxLogCalls
           /\ \A d \in logCalls' : d.op \in {"load", "stat"} /\ d.n \in 1 .. logSent'
           /\ \A d \in RowCalls' : d.page \in 1 .. logSent'
<1>1. /\ logSent \in 1 .. MaxLogCalls /\ logSent < MaxLogCalls /\ logSent' = logSent + 1
      /\ MaxLogCalls \in Nat /\ logCalls' = logCalls \cup {c}
  BY LogsAssumption DEF LogsSize, AskLogs, LogsAssumption
<1>2. logSent' \in 1 .. MaxLogCalls /\ 1 .. logSent \subseteq 1 .. logSent'
  BY <1>1
<1>3. c.n \in 1 .. logSent'
  BY <1>1
<1>4. ASSUME NEW d \in logCalls' PROVE d.op \in {"load", "stat"} /\ d.n \in 1 .. logSent'
  BY <1>1, <1>2, <1>3 DEF LogsSize
<1>5. ASSUME NEW d \in RowCalls' PROVE d.page \in 1 .. logSent'
  <2>1. (d = c /\ d.op = "load") \/ d \in RowCalls
    BY <1>1, <1>5 DEF RowCalls
  <2> QED BY <1>1, <1>2, <2>1 DEF LogsSize
<1> QED BY <1>1, <1>2, <1>4, <1>5

LEMMA RowsLength ==
    ASSUME LogsKinds
    PROVE  /\ Len(logs) \in Nat
           /\ \A c \in RowCalls : /\ Len(c.closed) \in Nat
                                  /\ c.page = 1 \/ c.page = Len(c.closed) + 1
BY DEF LogsKinds

LEMMA RefreshSize ==
    ASSUME LogsSize, LogsKinds, NEW type, NEW filled, RefreshRows(type, filled),
           logEdits' \in 0 .. MaxLogEdits, logsChanged' \in BOOLEAN,
           UNCHANGED <<logs, showStat, logsMixed, logRefused>>
    PROVE  LogsSize'
<1> DEFINE call == [op |-> "load", n |-> logSent + 1, query |-> LogQuery(type, filled),
                    page |-> 1, closed |-> logs]
<1>1. /\ AskLogs(call) /\ call.op = "load" /\ call.n = logSent + 1 /\ call.page = 1
      /\ logLoading' = TRUE /\ logPage' = 1
      /\ logsCrossed' = (logsCrossed \/ RowCalls # {})
  BY DEF RefreshRows
<1> HIDE DEF call
<1>2. logSent \in 1 .. MaxLogCalls /\ Len(logs) <= logSent /\ Len(logs) \in Nat
  BY RowsLength DEF LogsSize
<1>3. 1 \in 1 .. logSent + 1
  BY <1>2
<1>4. /\ logSent' = logSent + 1 /\ logSent' \in 1 .. MaxLogCalls
      /\ \A d \in logCalls' : d.op \in {"load", "stat"} /\ d.n \in 1 .. logSent'
      /\ \A d \in RowCalls' : d.page \in 1 .. logSent'
  BY <1>1, <1>3, MoreCalls
<1>5. logPage' \in 1 .. logSent' /\ Len(logs') <= logSent'
  BY <1>1, <1>2, <1>4
<1>6. logsCrossed' \in BOOLEAN
  BY <1>1
<1>7. FlagsKept
  BY <1>1, <1>6 DEF LogsSize, FlagsKept
<1> QED BY <1>4, <1>5, <1>7 DEF LogsSize, FlagsKept

LEMMA EditsBounded ==
    ASSUME LogsSize, logEdits < MaxLogEdits, logEdits' = logEdits + 1
    PROVE  logEdits' \in 0 .. MaxLogEdits
<1>1. logEdits \in 0 .. MaxLogEdits /\ MaxLogEdits \in Nat
  BY LogsAssumption DEF LogsSize, LogsAssumption
<1> QED BY <1>1

LEMMA LogsPageSize == ASSUME LogsSize, LogsKinds, LogsPage PROVE LogsSize'
<1>1. UNCHANGED <<logs, logLoading, showStat, logEdits, logsCrossed, logRefused, logsChanged>>
  BY DEF LogsPage
<1>2. logSent \in 1 .. MaxLogCalls /\ Len(logs) <= logSent /\ Len(logs) \in Nat
  BY RowsLength DEF LogsSize
<1>3. CASE /\ \E p \in 1 .. Len(logs) : logPage' = p
           /\ UNCHANGED <<logCalls, logSent, logsMixed>>
  <2>1. logPage' \in 1 .. logSent
    BY <1>2, <1>3
  <2> QED BY <1>1, <1>3, <2>1 DEF LogsSize, RowCalls
<1>4. CASE /\ AskLogs([op |-> "load", n |-> logSent + 1, query |-> LogQuery(logType, logInputs),
                       page |-> Len(logs) + 1, closed |-> logs])
           /\ logsMixed' = (logsMixed \/ LogQuery(logType, logInputs) # logsAsked
                                \/ RowCalls # {})
           /\ UNCHANGED logPage
  <2> DEFINE call == [op |-> "load", n |-> logSent + 1, query |-> LogQuery(logType, logInputs),
                      page |-> Len(logs) + 1, closed |-> logs]
  <2>1. AskLogs(call) /\ call.op = "load" /\ call.n = logSent + 1 /\ call.page = Len(logs) + 1
    BY <1>4
  <2> HIDE DEF call
  <2>2. Len(logs) + 1 \in 1 .. logSent + 1
    BY <1>2
  <2>3. /\ logSent' = logSent + 1 /\ logSent' \in 1 .. MaxLogCalls
        /\ \A d \in logCalls' : d.op \in {"load", "stat"} /\ d.n \in 1 .. logSent'
        /\ \A d \in RowCalls' : d.page \in 1 .. logSent'
    BY <2>1, <2>2, MoreCalls
  <2>4. logPage' = logPage /\ logPage \in 1 .. logSent
    BY <1>4 DEF LogsSize
  <2>5. logPage' \in 1 .. logSent' /\ Len(logs') <= logSent'
    BY <1>1, <1>2, <2>3, <2>4
  <2>6. logsMixed' \in BOOLEAN
    BY <1>4
  <2>7. FlagsKept
    BY <1>1, <2>6 DEF LogsSize, FlagsKept
  <2>8. logEdits' \in 0 .. MaxLogEdits
    BY <1>1 DEF LogsSize
  <2> QED BY <2>3, <2>5, <2>7, <2>8 DEF LogsSize, FlagsKept
<1> QED BY <1>3, <1>4 DEF LogsPage, onPaginationChange

LEMMA EyeSize == ASSUME LogsSize, LogsKinds, handleEyeClick PROVE LogsSize'
<1> DEFINE call == [op |-> "stat", n |-> logSent + 1, query |-> StatQuery]
<1>1. AskLogs(call) /\ call.op = "stat" /\ call.n = logSent + 1
  BY DEF handleEyeClick
<1> HIDE DEF call
<1>2. UNCHANGED <<logs, logPage, logLoading, showStat, logEdits, logsCrossed, logsMixed,
                  logRefused, logsChanged>>
  BY DEF handleEyeClick
<1>3. /\ logSent' = logSent + 1 /\ logSent' \in 1 .. MaxLogCalls
      /\ \A d \in logCalls' : d.op \in {"load", "stat"} /\ d.n \in 1 .. logSent'
      /\ \A d \in RowCalls' : d.page \in 1 .. logSent'
  BY <1>1, MoreCalls
<1>4. /\ logSent \in 1 .. MaxLogCalls /\ Len(logs) <= logSent /\ Len(logs) \in Nat
      /\ logPage \in 1 .. logSent /\ logPage' = logPage /\ logs' = logs
  BY <1>2, RowsLength DEF LogsSize
<1>5. logPage' \in 1 .. logSent' /\ Len(logs') <= logSent'
  BY <1>3, <1>4
<1>6. FlagsKept /\ logEdits' \in 0 .. MaxLogEdits
  BY <1>2 DEF LogsSize, FlagsKept
<1> QED BY <1>3, <1>5, <1>6 DEF LogsSize, FlagsKept

LEMMA PageLength ==
    ASSUME NEW S, NEW query \in S, NEW closed \in Seq(S), NEW n, n = Len(closed) + 1
    PROVE  Len(SubSeq(closed, 1, n - 1) \o <<query>>) = n
<1>1. n - 1 = Len(closed) /\ Len(closed) \in Nat
  OBVIOUS
<1>2. /\ SubSeq(closed, 1, n - 1) \in Seq(S) /\ Len(SubSeq(closed, 1, n - 1)) = n - 1
  BY <1>1
<1> QED BY <1>1, <1>2

LEMMA RowsAnsweredSize ==
    ASSUME LogsSize, LogsKinds, NEW c \in logCalls, RowsAnswered(c)
    PROVE  logPage' \in 1 .. logSent /\ Len(logs') <= logSent
<1>1. c \in RowCalls /\ c.op = "load"
  BY DEF RowsAnswered, RowCalls
<1>2. /\ c.page \in 1 .. logSent /\ logPage \in 1 .. logSent
      /\ logSent \in Nat \ {0}
      /\ Len(logs) <= logSent
  <2>1. logSent \in 1 .. MaxLogCalls
    BY DEF LogsSize
  <2>2. logSent \in Nat \ {0}
    BY <2>1
  <2> QED BY <1>1, <2>2 DEF LogsSize
<1>3. /\ c.query \in LogQueries /\ c.closed \in Seq(LogQueries)
      /\ c.page = 1 \/ c.page = Len(c.closed) + 1
  BY <1>1 DEF LogsKinds
<1>4. logPage' \in 1 .. logSent
  BY <1>2 DEF RowsAnswered
<1>5. ASSUME NEW found \in BOOLEAN, logs' = WithPage(c, found) PROVE Len(logs') <= logSent
  <2>1. CASE c.page = 1
    <3>1. logs' = <<c.query>> \/ logs' = <<>>
      BY <1>5, <2>1 DEF WithPage
    <3>2. Len(logs') = 1 \/ Len(logs') = 0
      BY <3>1
    <3> QED BY <1>2, <3>2
  <2>2. CASE c.page # 1 /\ found
    <3>1. logs' = SubSeq(c.closed, 1, c.page - 1) \o <<c.query>>
      BY <1>5, <2>2 DEF WithPage
    <3>2. Len(logs') = c.page
      BY <1>3, <2>2, <3>1, PageLength
    <3> QED BY <1>2, <3>2
  <2>3. CASE c.page # 1 /\ ~found
    <3>1. logs' = c.closed
      BY <1>5, <2>3 DEF WithPage
    <3>2. Len(c.closed) \in Nat
      BY <1>3
    <3> QED BY <1>2, <1>3, <2>3, <3>1, <3>2
  <2> QED BY <2>1, <2>2, <2>3
<1>6. CASE UNCHANGED logs
  BY <1>2, <1>4, <1>6
<1> QED BY <1>4, <1>5, <1>6 DEF RowsAnswered

LEMMA LogsAnsweredSize == ASSUME LogsSize, LogsKinds, LogsAnswered PROVE LogsSize'
<1>1. PICK c \in logCalls : /\ RowsAnswered(c) \/ StatAnswered(c)
                            /\ logCalls' = logCalls \ {c}
  BY DEF LogsAnswered
<1>2. UNCHANGED <<logSent, logEdits, logsMixed, logsCrossed, logsChanged>>
  BY DEF LogsAnswered
<1>3. logPage' \in 1 .. logSent /\ Len(logs') <= logSent
  <2>1. CASE StatAnswered(c)
    BY <2>1 DEF StatAnswered, LogsSize
  <2> QED BY <1>1, <2>1, RowsAnsweredSize
<1>4. logLoading' \in BOOLEAN /\ showStat' \in BOOLEAN /\ logRefused' \in BOOLEAN
  BY <1>1 DEF RowsAnswered, StatAnswered, LogsSize
<1>5. FlagsKept
  BY <1>2, <1>4 DEF LogsSize, FlagsKept
<1>6. logCalls' \subseteq logCalls /\ RowCalls' \subseteq RowCalls
  BY <1>1 DEF RowCalls
<1> QED BY <1>2, <1>3, <1>5, <1>6 DEF LogsSize, FlagsKept

LEMMA LogsSizeStep ==
    ASSUME LogsSize, LogsKinds, [LogsNext]_logsVars
    PROVE  LogsSize'
<1>1. CASE handleInputChange
  <2>1. logEdits' \in 0 .. MaxLogEdits
    BY <1>1, EditsBounded DEF handleInputChange
  <2>2. logsChanged' \in BOOLEAN
    BY <1>1 DEF handleInputChange
  <2>3. UNCHANGED <<logs, logPage, logLoading, showStat, logCalls, logSent, logsMixed,
                    logsCrossed, logRefused>>
    BY <1>1 DEF handleInputChange
  <2> QED BY <2>1, <2>2, <2>3 DEF LogsSize, RowCalls
<1>2. CASE SubmitLogs
  <2>1. /\ RefreshRows(logType, logInputs)
        /\ UNCHANGED <<logs, showStat, logsMixed, logRefused, logsChanged, logEdits>>
    BY <1>2 DEF SubmitLogs
  <2>2. logEdits' \in 0 .. MaxLogEdits /\ logsChanged' \in BOOLEAN
    BY <2>1 DEF LogsSize
  <2> QED BY <2>1, <2>2, RefreshSize
<1>3. CASE ChooseLogType
  <2>1. PICK type \in LogType : RefreshRows(type, logInputs)
    BY <1>3 DEF ChooseLogType
  <2>2. UNCHANGED <<logs, showStat, logsMixed, logRefused>>
    BY <1>3 DEF ChooseLogType
  <2>3. logEdits' \in 0 .. MaxLogEdits
    BY <1>3, EditsBounded DEF ChooseLogType
  <2>4. logsChanged' \in BOOLEAN
    BY <1>3 DEF ChooseLogType
  <2> QED BY <2>1, <2>2, <2>3, <2>4, RefreshSize
<1>4. CASE openDetailModal \/ CloseDetail \/ UNCHANGED logsVars
  <2>1. UNCHANGED <<logs, logPage, logLoading, showStat, logCalls, logSent, logEdits, logsMixed,
                    logsCrossed, logRefused, logsChanged>>
    BY <1>4 DEF openDetailModal, CloseDetail, logsVars
  <2> QED BY <2>1 DEF LogsSize, RowCalls
<1>5. CASE LogsRejected
  <2>1. /\ UNCHANGED <<logs, logPage, logLoading, showStat, logSent, logEdits, logsMixed,
                       logsCrossed, logsChanged>>
        /\ logCalls' \subseteq logCalls /\ logRefused' = TRUE
    BY <1>5 DEF LogsRejected
  <2>2. RowCalls' \subseteq RowCalls
    BY <2>1 DEF RowCalls
  <2> QED BY <2>1, <2>2 DEF LogsSize
<1> QED BY <1>1, <1>2, <1>3, <1>4, <1>5, LogsPageSize, EyeSize, LogsAnsweredSize DEF LogsNext

\* The page shown is never past the pages that were asked for, however the answers come: a page
\* that is asked for is the next one of the rows there were (onPaginationChange, loadLogs).
THEOREM LogsTypeCorrect == LogsSpec => []LogsTypeOK
<1>1. LogsInit => LogsSize
  <2> SUFFICES ASSUME LogsInit PROVE LogsSize
    OBVIOUS
  <2>1. MaxLogCalls \in Nat \ {0} /\ MaxLogEdits \in Nat
    BY LogsAssumption DEF LogsAssumption
  <2>2. logSent \in 1 .. MaxLogCalls /\ logEdits \in 0 .. MaxLogEdits
    BY <2>1 DEF LogsInit
  <2>3. Len(logs) = 0 /\ logPage = 1 /\ logSent = 1
    BY DEF LogsInit
  <2>4. logPage \in 1 .. logSent /\ Len(logs) <= logSent
    BY <2>3
  <2>5. \A c \in logCalls : c.op = "load" /\ c.n = 1 /\ c.page = 1
    BY DEF LogsInit
  <2>6. \A c \in logCalls : c.op \in {"load", "stat"} /\ c.n \in 1 .. logSent
    BY <2>3, <2>4, <2>5
  <2>7. \A c \in RowCalls : c.page \in 1 .. logSent
    BY <2>3, <2>4, <2>5 DEF RowCalls
  <2>8. {logLoading, showStat, logsMixed, logsCrossed, logRefused, logsChanged} \subseteq BOOLEAN
    BY DEF LogsInit
  <2> QED BY <2>2, <2>4, <2>6, <2>7, <2>8 DEF LogsSize
<1>2. LogsInv /\ LogsSize /\ [LogsNext]_logsVars => LogsSize'
  BY LogsSizeStep DEF LogsInv
<1>3. LogsInv /\ LogsSize => LogsTypeOK
  <2> SUFFICES ASSUME LogsInv, LogsSize PROVE LogsTypeOK
    OBVIOUS
  <2>1. logSent \in 1 .. MaxLogCalls /\ logPage \in 1 .. logSent /\ MaxLogCalls \in Nat
    BY LogsAssumption DEF LogsSize, LogsAssumption
  <2>2. logPage \in 1 .. MaxLogCalls + 1
    BY <2>1
  <2> QED BY <2>2 DEF LogsInv, LogsKinds, LogsSize, LogsTypeOK
<1> QED BY <1>1, <1>2, <1>3, LogsInvariant, PTL DEF LogsSpec

----------------------------------------------------------------------------
(* Pages *)

PageTexts == Content \cup {""}

\* What is shown once the answer returns.
AnswerTyped(c) ==
    c.answer.kind = "ok" =>
        /\ c.op = "self" => c.answer.data \in Nat
        /\ c.op \in {"home", "about"} => c.answer.data \in PageTexts
CallsTyped == called \in 1 .. MaxCalls /\ \A c \in calls : AnswerTyped(c)
TopUpTyped ==
    /\ redemptionCode \in Code \cup {""} /\ unused \subseteq Code
    /\ userQuota \in Nat /\ serverQuota \in Nat /\ spent \in Nat
LimitsTyped ==
    /\ groups \subseteq UserGroup
    /\ DOMAIN limits \subseteq UserGroup \cup {"default"}
    /\ storedLimits # <<>> => DOMAIN storedLimits[1] \subseteq UserGroup \cup {"default"}
ContentTyped == serverContent \in PageTexts /\ content \in PageTexts /\ storedContent \in PageTexts
PageTyped ==
    /\ page \in Page /\ busy \in BOOLEAN /\ crossed \in BOOLEAN
    /\ healthPoll \in 0 .. called
DivergedTyped == diverged \in BOOLEAN
PagesTyped == CallsTyped /\ TopUpTyped /\ LimitsTyped /\ ContentTyped /\ PageTyped

LEMMA OneMoreCall ==
    ASSUME called \in 1 .. MaxCalls, called < MaxCalls, called' = called + 1
    PROVE  called' \in 1 .. MaxCalls /\ 0 .. called \subseteq 0 .. called'
<1>1. MaxCalls \in Nat
  BY PagesAssumption DEF PagesAssumption
<1> QED BY <1>1

LEMMA AskTyped ==
    ASSUME CallsTyped, NEW op, NEW arg, Ask(op, arg)
    PROVE  CallsTyped' /\ 0 .. called \subseteq 0 .. called'
<1> DEFINE d == [n |-> called + 1, op |-> op, arg |-> arg, answer |-> [kind |-> "none"]]
<1>1. calls' = calls \cup {d} /\ d.answer.kind = "none"
  BY DEF Ask
<1> HIDE DEF d
<1>2. AnswerTyped(d)
  BY <1>1 DEF AnswerTyped
<1>3. called' \in 1 .. MaxCalls /\ 0 .. called \subseteq 0 .. called'
  BY OneMoreCall DEF CallsTyped, Ask
<1>4. \A c \in calls' : AnswerTyped(c)
  BY <1>1, <1>2 DEF CallsTyped
<1> QED BY <1>3, <1>4 DEF CallsTyped, AnswerTyped

LEMMA EndsTyped ==
    ASSUME CallsTyped, NEW c, Ends(c)
    PROVE  CallsTyped' /\ called' = called
BY DEF CallsTyped, AnswerTyped, Ends

\* A request that is followed by another, of which no answer is known.
LEMMA NextCallTyped ==
    ASSUME CallsTyped, NEW c \in calls, IsCall(c), NEW op,
           called < MaxCalls, called' = called + 1,
           calls' = (calls \ {c}) \cup {[c EXCEPT !.n = called + 1, !.op = op,
                                                  !.answer = [kind |-> "none"]]}
    PROVE  CallsTyped' /\ 0 .. called \subseteq 0 .. called'
<1> DEFINE d == [c EXCEPT !.n = called + 1, !.op = op, !.answer = [kind |-> "none"]]
<1>1. calls' = (calls \ {c}) \cup {d}
  OBVIOUS
<1>2. d.answer.kind = "none"
  BY DEF IsCall
<1> HIDE DEF d
<1>3. AnswerTyped(d)
  BY <1>2 DEF AnswerTyped
<1>4. called' \in 1 .. MaxCalls /\ 0 .. called \subseteq 0 .. called'
  BY OneMoreCall DEF CallsTyped
<1>5. \A e \in calls' : AnswerTyped(e)
  BY <1>1, <1>3 DEF CallsTyped
<1> QED BY <1>4, <1>5 DEF CallsTyped, AnswerTyped

LEMMA TopUpTypes ==
    ASSUME PagesInv, PagesTyped, TypeCode \/ topUp
    PROVE  PagesTyped'
<1>1. /\ UNCHANGED <<page, userQuota, serverQuota, unused, spent, groups, limits, storedLimits>>
      /\ UNCHANGED <<healthPoll, serverContent, content, storedContent>>
  BY DEF TypeCode, topUp, topUpVars, limitVars, healthVars, contentVars
<1>2. redemptionCode' \in Code \cup {""}
  BY DEF PagesTyped, TopUpTyped, TypeCode, topUp, topUpVars
<1>3. CallsTyped' /\ 0 .. called \subseteq 0 .. called'
  <2>1. CASE TypeCode
    <3>1. calls' = calls /\ called' = called
      BY <2>1 DEF TypeCode, callVars
    <3> QED BY <3>1 DEF PagesTyped, CallsTyped, AnswerTyped
  <2>2. CASE topUp
    BY <2>2, AskTyped DEF topUp, PagesTyped
  <2> QED BY <2>1, <2>2
<1>4. busy' \in BOOLEAN /\ crossed' \in BOOLEAN
  BY DEF TypeCode, topUp, PagesTyped, PageTyped
<1>5. PageTyped'
  BY <1>1, <1>3, <1>4 DEF PagesTyped, PageTyped
<1> QED BY <1>1, <1>2, <1>3, <1>5 DEF PagesTyped, TopUpTyped, LimitsTyped, ContentTyped, PageTexts

LEMMA QuotaTypes ==
    ASSUME PagesInv, PagesTyped, NEW c \in calls, ToppedUp(c) \/ getUserQuota(c)
    PROVE  PagesTyped'
<1>1. /\ UNCHANGED <<page, serverQuota, unused, spent, groups, limits, storedLimits>>
      /\ UNCHANGED <<healthPoll, serverContent, content, storedContent>>
      /\ Ends(c)
  BY DEF ToppedUp, getUserQuota, limitVars, healthVars, contentVars
<1>2. CallsTyped' /\ called' = called
  BY <1>1, EndsTyped DEF PagesTyped
<1>3. redemptionCode' \in Code \cup {""}
  BY DEF PagesTyped, TopUpTyped, ToppedUp, getUserQuota
<1>4. userQuota' \in Nat
  <2>1. userQuota \in Nat
    BY DEF PagesTyped, TopUpTyped
  <2>2. CASE ToppedUp(c)
    <3>1. userQuota' = userQuota + 2 \/ userQuota' = userQuota
      BY <2>2 DEF ToppedUp, CodeValue
    <3> QED BY <2>1, <3>1
  <2>3. CASE getUserQuota(c)
    BY <2>1, <2>3 DEF getUserQuota, PagesTyped, CallsTyped, AnswerTyped
  <2> QED BY <2>2, <2>3
<1>5. busy' \in BOOLEAN /\ crossed' \in BOOLEAN
  BY DEF ToppedUp, getUserQuota, PagesTyped, PageTyped
<1> QED BY <1>1, <1>2, <1>3, <1>4, <1>5
        DEF PagesTyped, TopUpTyped, LimitsTyped, ContentTyped, PageTyped, PageTexts

\* The groups that may be limited, and the one that is by default.
LEMMA LimitsTypes ==
    ASSUME PagesInv, PagesTyped, handleLimitChange \/ resetToDefault \/ saveLimits
    PROVE  PagesTyped'
<1>1. /\ UNCHANGED <<page, busy, crossed, groups, redemptionCode, userQuota, serverQuota>>
      /\ UNCHANGED <<unused, spent, healthPoll, serverContent, content, storedContent>>
  BY DEF handleLimitChange, resetToDefault, saveLimits, topUpVars, healthVars, contentVars
<1>2. CallsTyped' /\ 0 .. called \subseteq 0 .. called'
  <2>1. CASE saveLimits
    BY <2>1, AskTyped DEF saveLimits, PagesTyped
  <2>2. CASE handleLimitChange \/ resetToDefault
    <3>1. calls' = calls /\ called' = called
      BY <2>2 DEF handleLimitChange, resetToDefault, callVars
    <3> QED BY <3>1 DEF PagesTyped, CallsTyped, AnswerTyped
  <2> QED BY <2>1, <2>2
<1>3. LimitsTyped'
  <2>1. CASE handleLimitChange
    <3>1. PICK g \in groups, rpm \in {0, 10} :
            limits' = [h \in DOMAIN limits \cup {g} |-> IF h = g THEN rpm ELSE limits[h]]
      BY <2>1 DEF handleLimitChange
    <3>2. DOMAIN limits' = DOMAIN limits \cup {g} /\ storedLimits' = storedLimits
      BY <2>1, <3>1 DEF handleLimitChange
    <3> QED BY <1>1, <3>2 DEF PagesTyped, LimitsTyped
  <2>2. CASE resetToDefault
    <3>1. DOMAIN limits' = {"default"} /\ storedLimits' = storedLimits
      BY <2>2 DEF resetToDefault, DEFAULT_LIMITS
    <3> QED BY <1>1, <3>1 DEF PagesTyped, LimitsTyped
  <2>3. CASE saveLimits
    <3>1. storedLimits' = <<limits>> /\ limits' = limits
      BY <2>3 DEF saveLimits
    <3> QED BY <1>1, <3>1 DEF PagesTyped, LimitsTyped
  <2> QED BY <2>1, <2>2, <2>3
<1> QED BY <1>1, <1>2, <1>3 DEF PagesTyped, TopUpTyped, ContentTyped, PageTyped, PageTexts

LEMMA LimitsLoadTypes ==
    ASSUME PagesInv, PagesTyped, NEW c \in calls, LimitsLoad(c)
    PROVE  PagesTyped'
<1>1. /\ UNCHANGED <<page, crossed, storedLimits, redemptionCode, userQuota, serverQuota>>
      /\ UNCHANGED <<unused, spent, healthPoll, serverContent, content, storedContent>>
  BY DEF LimitsLoad, topUpVars, healthVars, contentVars
<1>2. groups' \subseteq UserGroup
  BY DEF LimitsLoad, PagesTyped, LimitsTyped
<1>3. CASE /\ called < MaxCalls /\ called' = called + 1 /\ UNCHANGED <<limits, busy>>
           /\ calls' = (calls \ {c}) \cup {[c EXCEPT !.n = called + 1, !.op = "options",
                                                     !.answer = [kind |-> "none"]]}
  <2>1. IsCall(c)
    BY DEF PagesInv, CallsInv
  <2>2. CallsTyped' /\ 0 .. called \subseteq 0 .. called'
    BY <1>3, <2>1, NextCallTyped DEF PagesTyped
  <2> QED BY <1>1, <1>2, <1>3, <2>2
          DEF PagesTyped, TopUpTyped, LimitsTyped, ContentTyped, PageTyped, PageTexts
<1>4. CASE /\ limits' = IF storedLimits # <<>> THEN storedLimits[1] ELSE DEFAULT_LIMITS
           /\ busy' = FALSE
           /\ Ends(c)
  <2>1. CallsTyped' /\ called' = called
    BY <1>4, EndsTyped DEF PagesTyped
  <2>2. DOMAIN limits' \subseteq UserGroup \cup {"default"}
    BY <1>4 DEF DEFAULT_LIMITS, PagesTyped, LimitsTyped
  <2> QED BY <1>1, <1>2, <1>4, <2>1, <2>2
          DEF PagesTyped, TopUpTyped, LimitsTyped, ContentTyped, PageTyped, PageTexts
<1> QED BY <1>3, <1>4 DEF LimitsLoad

LEMMA ContentTypes ==
    ASSUME PagesInv, PagesTyped, NEW c \in calls,
           \/ LimitsSaved(c) \/ fetchHealth(c) \/ fetchProviders(c)
           \/ displayHomePageContent(c) \/ displayAbout(c) \/ fetchDashboardData(c)
    PROVE  PagesTyped'
<1>1. /\ UNCHANGED <<page, crossed, groups, limits, storedLimits, redemptionCode>>
      /\ UNCHANGED <<userQuota, serverQuota, unused, spent, serverContent>>
      /\ Ends(c)
  BY DEF LimitsSaved, fetchHealth, fetchProviders, displayHomePageContent, displayAbout,
     fetchDashboardData, topUpVars, limitVars, contentVars
<1>2. CallsTyped' /\ called' = called
  BY <1>1, EndsTyped DEF PagesTyped
<1>3. healthPoll' \in 0 .. called'
  <2>1. CASE fetchHealth(c)
    <3>1. c.n \in 1 .. called
      BY DEF PagesInv, CallsInv, IsCall
    <3>2. healthPoll' = c.n \/ healthPoll' = healthPoll
      BY <2>1 DEF fetchHealth
    <3>3. healthPoll \in 0 .. called /\ called \in Nat
      BY DEF PagesTyped, PageTyped, PagesInv, CallsInv
    <3> QED BY <1>2, <3>1, <3>2, <3>3
  <2>2. CASE UNCHANGED healthPoll
    BY <1>2, <2>2 DEF PagesTyped, PageTyped
  <2> QED BY <2>1, <2>2 DEF LimitsSaved, fetchProviders, displayHomePageContent, displayAbout,
          fetchDashboardData, healthVars
<1>4. content' \in PageTexts /\ storedContent' \in PageTexts
  <2>1. CASE displayHomePageContent(c) \/ displayAbout(c)
    <3>1. c.op \in {"home", "about"} /\ AnswerTyped(c)
      BY <2>1 DEF displayHomePageContent, displayAbout, PagesTyped, CallsTyped
    <3>2. c.answer.kind = "ok" => c.answer.data \in PageTexts
      BY <3>1 DEF AnswerTyped
    <3>3. "" \in PageTexts /\ content \in PageTexts /\ storedContent \in PageTexts
      BY DEF PageTexts, PagesTyped, ContentTyped
    <3> QED BY <2>1, <3>2, <3>3 DEF displayHomePageContent, displayAbout
  <2>2. CASE UNCHANGED <<content, storedContent>>
    BY <2>2 DEF PagesTyped, ContentTyped, PageTexts
  <2> QED BY <2>1, <2>2 DEF LimitsSaved, fetchHealth, fetchProviders, fetchDashboardData,
          contentVars
<1>5. busy' \in BOOLEAN
  BY DEF LimitsSaved, fetchHealth, fetchProviders, displayHomePageContent, displayAbout,
     fetchDashboardData, PagesTyped, PageTyped
<1> QED BY <1>1, <1>2, <1>3, <1>4, <1>5
        DEF PagesTyped, TopUpTyped, LimitsTyped, ContentTyped, PageTyped, PageTexts

LEMMA ClickTypes ==
    ASSUME PagesInv, PagesTyped, Poll \/ handleAccordionClick \/ setRangeDays \/ LanguageChanges \/ Midnight
    PROVE  PagesTyped'
<1>1. /\ UNCHANGED <<page, busy, groups, limits, storedLimits, redemptionCode, userQuota>>
      /\ UNCHANGED <<serverQuota, unused, spent, healthPoll, serverContent, content>>
      /\ UNCHANGED storedContent
  BY DEF Poll, handleAccordionClick, setRangeDays, LanguageChanges, Midnight, topUpVars, limitVars,
     healthVars, contentVars
<1>2. CallsTyped' /\ 0 .. called \subseteq 0 .. called'
  <2>1. CASE Poll
    BY <2>1, AskTyped DEF Poll, PagesTyped
  <2>2. CASE handleAccordionClick \/ setRangeDays \/ LanguageChanges \/ Midnight
    <3>1. calls' = calls /\ called' = called
      BY <2>2 DEF handleAccordionClick, setRangeDays, LanguageChanges, Midnight, callVars
    <3> QED BY <3>1 DEF PagesTyped, CallsTyped, AnswerTyped
  <2> QED BY <2>1, <2>2
<1>3. crossed' \in BOOLEAN
  BY DEF Poll, handleAccordionClick, setRangeDays, LanguageChanges, Midnight, PagesTyped, PageTyped
<1> QED BY <1>1, <1>2, <1>3
        DEF PagesTyped, TopUpTyped, LimitsTyped, ContentTyped, PageTyped, PageTexts

LEMMA AnsweredPageTypes ==
    ASSUME PagesInv, PagesTyped, NEW c \in calls, ServerAnswersPage(c)
    PROVE  PagesTyped'
<1>1. /\ UNCHANGED <<page, called, busy, crossed, redemptionCode, userQuota, groups, limits>>
      /\ UNCHANGED <<storedLimits, healthPoll, serverContent, content, storedContent>>
      /\ spent' = IF c.op = "self" THEN 0 ELSE spent
  BY DEF ServerAnswersPage, limitVars, healthVars, contentVars
<1>2. PICK told, ok :
        /\ told \in PageAnswers(c) /\ ok \in BOOLEAN
        /\ calls' = (calls \ {c}) \cup
               {[c EXCEPT !.answer = IF ok THEN [kind |-> "ok", data |-> told] ELSE Refusal]}
        /\ IF ok /\ c.op = "topup"
           THEN serverQuota' = serverQuota + CodeValue /\ unused' = unused \ {c.arg}
           ELSE UNCHANGED <<serverQuota, unused>>
  BY DEF ServerAnswersPage
<1> DEFINE answer == IF ok THEN [kind |-> "ok", data |-> told] ELSE Refusal
           d == [c EXCEPT !.answer = answer]
<1>3. IsCall(c)
  BY DEF PagesInv, CallsInv
<1>4. answer.kind = "ok" => answer.data = told
  BY DEF Refusal
<1>5. d.op = c.op /\ d.answer = answer
  BY <1>3 DEF IsCall
<1>6. calls' = (calls \ {c}) \cup {d}
  BY <1>2
<1> HIDE DEF answer, d
<1>7. /\ c.op = "self" => told = serverQuota
      /\ c.op \in {"home", "about"} => told = serverContent
  BY <1>2 DEF PageAnswers
<1>8. AnswerTyped(d)
  BY <1>4, <1>5, <1>7 DEF AnswerTyped, PagesTyped, TopUpTyped, ContentTyped
<1>9. CallsTyped'
  BY <1>1, <1>6, <1>8 DEF PagesTyped, CallsTyped, AnswerTyped, PageTexts
<1>10. TopUpTyped'
  <2>1. serverQuota \in Nat
    BY DEF PagesTyped, TopUpTyped
  <2>2. serverQuota' \in Nat
    <3>1. serverQuota' = serverQuota + 2 \/ serverQuota' = serverQuota
      BY <1>2 DEF CodeValue
    <3> QED BY <2>1, <3>1
  <2>3. unused' \subseteq Code
    BY <1>2 DEF PagesTyped, TopUpTyped
  <2>4. spent' \in Nat
    BY <1>1 DEF PagesTyped, TopUpTyped
  <2> QED BY <1>1, <2>2, <2>3, <2>4 DEF PagesTyped, TopUpTyped
<1> QED BY <1>1, <1>9, <1>10 DEF PagesTyped, LimitsTyped, ContentTyped, PageTyped, PageTexts

LEMMA WorldTypes == ASSUME PagesInv, PagesTyped, WorldMoves PROVE PagesTyped'
<1>1. /\ UNCHANGED <<page, calls, called, busy, crossed, redemptionCode, userQuota, unused>>
      /\ UNCHANGED <<groups, limits, storedLimits, healthPoll, content, storedContent>>
  BY DEF WorldMoves, callVars, limitVars
<1>2. serverQuota' \in Nat /\ spent' \in Nat
  <2>1. serverQuota \in Nat /\ spent \in Nat
    BY DEF PagesTyped, TopUpTyped
  <2>2. \/ serverQuota > 0 /\ serverQuota' = serverQuota - 1 /\ spent' = spent + 1
        \/ serverQuota' = serverQuota /\ spent' = spent
    BY DEF WorldMoves
  <2> QED BY <2>1, <2>2
<1>3. serverContent' \in PageTexts
  BY DEF WorldMoves, PagesTyped, ContentTyped, PageTexts
<1>4. CallsTyped'
  BY <1>1 DEF PagesTyped, CallsTyped, AnswerTyped
<1> QED BY <1>1, <1>2, <1>3, <1>4
        DEF PagesTyped, TopUpTyped, LimitsTyped, ContentTyped, PageTyped, PageTexts

LEMMA BreaksTypes ==
    ASSUME PagesInv, PagesTyped, NEW c \in calls, PageBreaks(c)
    PROVE  PagesTyped'
<1>1. /\ UNCHANGED <<page, groups, limits, storedLimits, redemptionCode, userQuota, serverQuota>>
      /\ UNCHANGED <<unused, spent, healthPoll, serverContent, content, storedContent>>
      /\ crossed' \in BOOLEAN
  BY DEF PageBreaks, topUpVars, limitVars, healthVars, contentVars
<1>2. busy' \in BOOLEAN
  BY DEF PageBreaks
<1>3. CallsTyped' /\ 0 .. called \subseteq 0 .. called'
  <2>1. CASE c.op = "providers"
    <3>1. /\ called < MaxCalls /\ called' = called + 1
          /\ calls' = (calls \ {c}) \cup {[c EXCEPT !.n = called + 1, !.op = "channels",
                                                    !.answer = [kind |-> "none"]]}
      BY <2>1 DEF PageBreaks
    <3>2. IsCall(c)
      BY DEF PagesInv, CallsInv
    <3> QED BY <3>1, <3>2, NextCallTyped DEF PagesTyped
  <2>2. CASE c.op # "providers"
    BY <2>2, EndsTyped DEF PageBreaks, PagesTyped
  <2> QED BY <2>1, <2>2
<1> QED BY <1>1, <1>2, <1>3
        DEF PagesTyped, TopUpTyped, LimitsTyped, ContentTyped, PageTyped, PageTexts

LEMMA RevisitTypes == ASSUME PagesInv, PagesTyped, Revisit PROVE PagesTyped'
<1>1. /\ UNCHANGED <<page, crossed, storedLimits, redemptionCode, userQuota, serverQuota>>
      /\ UNCHANGED <<unused, spent, healthPoll, serverContent, storedContent>>
      /\ busy' = TRUE /\ groups' = {} /\ limits' = <<>> /\ content' = storedContent
      /\ called < MaxCalls /\ called' = called + 1
      /\ calls' = Saves \cup {[Mounts(page) EXCEPT !.n = called + 1]}
  BY DEF Revisit, topUpVars, healthVars
<1>2. called' \in 1 .. MaxCalls /\ 0 .. called \subseteq 0 .. called'
  BY <1>1, OneMoreCall DEF PagesTyped, CallsTyped
<1>3. \A c \in calls' : c.answer.kind = "none" \/ c \in calls
  <2>1. [Mounts(page) EXCEPT !.n = called + 1].answer.kind = "none"
    BY DEF Mounts
  <2> QED BY <1>1, <2>1 DEF Saves
<1>4. CallsTyped'
  <2>1. \A c \in calls' : AnswerTyped(c)
    BY <1>3 DEF PagesTyped, CallsTyped, AnswerTyped
  <2> QED BY <1>2, <2>1 DEF CallsTyped, AnswerTyped
<1>5. DOMAIN limits' = {}
  BY <1>1
<1> QED BY <1>1, <1>2, <1>4, <1>5
        DEF PagesTyped, TopUpTyped, LimitsTyped, ContentTyped, PageTyped, PageTexts

LEMMA PagesTypedStep ==
    ASSUME PagesInv, PagesTyped, [PagesNext]_pagesVars
    PROVE  PagesTyped'
<1>1. ASSUME NEW c \in calls, PageReturns(c) PROVE PagesTyped'
  BY <1>1, QuotaTypes, LimitsLoadTypes, ContentTypes DEF PageReturns
<1>2. CASE UNCHANGED pagesVars
  <2>1. /\ UNCHANGED <<page, calls, called, busy, crossed, redemptionCode, userQuota>>
        /\ UNCHANGED <<serverQuota, unused, spent, groups, limits, storedLimits>>
        /\ UNCHANGED <<healthPoll, serverContent, content, storedContent>>
    BY <1>2 DEF pagesVars, callVars, topUpVars, limitVars, healthVars, contentVars
  <2> QED BY <2>1 DEF PagesTyped, CallsTyped, AnswerTyped, TopUpTyped, LimitsTyped, ContentTyped,
          PageTyped, PageTexts
<1> QED BY <1>1, <1>2, TopUpTypes, LimitsTypes, ClickTypes, AnsweredPageTypes, WorldTypes,
           BreaksTypes, RevisitTypes DEF PagesNext

\* Whatever is asked for, answered, lost or visited again, the pages show values of their kinds:
\* a quota is never negative, limits are of groups, and the poll shown is one that was sent.
THEOREM PagesTypeCorrect == PagesSpec => []PagesTypeOK
<1>1. PagesInit => PagesTyped
  <2> SUFFICES ASSUME PagesInit PROVE PagesTyped
    OBVIOUS
  <2>1. MaxCalls \in Nat \ {0}
    BY PagesAssumption DEF PagesAssumption
  <2>2. called = 1 /\ healthPoll = 0
    BY DEF PagesInit
  <2>3. called \in 1 .. MaxCalls /\ healthPoll \in 0 .. called
    BY <2>1, <2>2
  <2>4. \A c \in calls : c.answer.kind = "none"
    <3>1. calls = {Mounts(page)}
      BY DEF PagesInit
    <3> QED BY <3>1 DEF Mounts
  <2>5. CallsTyped
    BY <2>3, <2>4 DEF CallsTyped, AnswerTyped
  <2>6. TopUpTyped
    <3>1. userQuota = 0 /\ serverQuota = 1 /\ spent = 0
      BY DEF PagesInit
    <3>2. redemptionCode = "" /\ unused = Code
      BY DEF PagesInit
    <3>3. userQuota \in Nat /\ serverQuota \in Nat /\ spent \in Nat
      BY <3>1
    <3> QED BY <3>2, <3>3 DEF TopUpTyped
  <2>7. LimitsTyped
    <3>1. groups = {} /\ limits = <<>> /\ storedLimits = <<>>
      BY DEF PagesInit
    <3>2. DOMAIN limits = {}
      BY <3>1
    <3> QED BY <3>1, <3>2 DEF LimitsTyped
  <2>8. ContentTyped
    BY DEF ContentTyped, PagesInit, PageTexts
  <2>9. page \in Page /\ busy \in BOOLEAN /\ crossed \in BOOLEAN
    BY DEF PagesInit
  <2> QED BY <2>3, <2>5, <2>6, <2>7, <2>8, <2>9 DEF PagesTyped, PageTyped
<1>2. PagesInv /\ PagesTyped /\ [PagesNext]_pagesVars => PagesTyped'
  BY PagesTypedStep
<1>3. ShownInv /\ PagesInv /\ PagesTyped /\ DivergedTyped => PagesTypeOK
  BY DEF PagesInv, HealthInv, ShownInv, UsageInv, PagesTyped, CallsTyped, TopUpTyped, LimitsTyped,
     ContentTyped, PageTyped, PageTexts, DivergedTyped, PagesTypeOK
<1>4. PagesInit => DivergedTyped
  BY DEF PagesInit, DivergedTyped
<1>5. DivergedTyped /\ [PagesNext]_pagesVars => DivergedTyped'
  BY DEF PagesNext, TypeCode, topUp, handleLimitChange, resetToDefault, saveLimits, Poll,
     handleAccordionClick, setRangeDays, LanguageChanges, Midnight, WorldMoves, Revisit,
     ServerAnswersPage, PageReturns, PageBreaks, ToppedUp, getUserQuota, LimitsLoad, LimitsSaved,
     fetchHealth, fetchProviders, displayHomePageContent, displayAbout, fetchDashboardData,
     pagesVars, limitVars, DivergedTyped
<1> QED BY <1>1, <1>2, <1>3, <1>4, <1>5, ShownInvariant, PTL DEF PagesSpec

----------------------------------------------------------------------------
(* Tables *)

LEMMA ListIsOfIds ==
    ASSUME TablesAssumption, NEW order, NEW ids, ids \subseteq Id
    PROVE  ListBy(order, ids) \in Seq(Id)
<1>1. /\ Cardinality(ids) \in Nat /\ IsFiniteSet(ids)
      /\ ids \subseteq Nat
  <2>1. IsFiniteSet(Id) /\ Id \subseteq Nat
    BY DEF TablesAssumption
  <2>2. IsFiniteSet(ids)
    BY <2>1, FS_Subset
  <2> QED BY <2>1, <2>2, FS_CardinalityType
<1> DEFINE Ahead(x) == {y \in ids : IF order = "" THEN y > x ELSE y < x}
           Ranked(k) == CHOOSE x \in ids : Cardinality(Ahead(x)) = k - 1
<1>2. PICK below : below = [x \in ids |-> Ahead(x)]
  OBVIOUS
<1>3. \A x \in ids : below[x] = Ahead(x)
  BY <1>2
<1>4. \/ \A x \in ids : below[x] = {y \in ids : y > x}
      \/ \A x \in ids : below[x] = {y \in ids : y < x}
  <2>1. CASE order = ""
    BY <1>3, <2>1
  <2>2. CASE order # ""
    BY <1>3, <2>2
  <2> QED BY <2>1, <2>2
<1> HIDE DEF Ahead
<1>5. /\ \A x \in ids : below[x] \subseteq ids /\ x \notin below[x]
      /\ \A x, y \in ids : x # y => x \in below[y] \/ y \in below[x]
  BY <1>1, <1>4
<1>6. \A x, y \in ids : x \in below[y] => below[x] \subseteq below[y]
  <2> SUFFICES ASSUME NEW x \in ids, NEW y \in ids, x \in below[y], NEW z \in below[x]
               PROVE  z \in below[y]
    OBVIOUS
  <2>1. x \in Nat /\ y \in Nat /\ z \in ids /\ z \in Nat
    BY <1>1, <1>5
  <2>2. CASE \A i \in ids : below[i] = {j \in ids : j > i}
    <3>1. z > x /\ x > y
      BY <2>2
    <3>2. z > y
      BY <2>1, <3>1
    <3> QED BY <2>1, <2>2, <3>2
  <2>3. CASE \A i \in ids : below[i] = {j \in ids : j < i}
    <3>1. z < x /\ x < y
      BY <2>3
    <3>2. z < y
      BY <2>1, <3>1
    <3> QED BY <2>1, <2>3, <3>2
  <2> QED BY <1>4, <2>2, <2>3
<1>7. PICK n \in Nat : n = Cardinality(ids)
  BY <1>1
<1>8. PICK f : f = ListBy(order, ids)
  OBVIOUS
<1>9. f = [k \in 1 .. n |-> Ranked(k)]
  BY <1>7, <1>8, Zenon DEF ListBy, Ahead
<1>10. ASSUME NEW k \in 1 .. n PROVE Ranked(k) \in ids
  <2>1. k - 1 \in 0 .. n - 1
    BY <1>7
  <2>2. PICK x \in ids : Cardinality(below[x]) = k - 1
    <3>1. Ranks(below, ids)
      BY <1>5, <1>6 DEF Ranks
    <3>2. PICK i : i = k - 1
      OBVIOUS
    <3>4. i \in 0 .. Cardinality(ids) - 1 /\ IsFiniteSet(ids)
      BY <1>1, <1>7, <2>1, <3>2
    <3>3. \E x \in ids : Cardinality(below[x]) = i
      BY <3>1, <3>4, EveryRankIsTaken
    <3> QED BY <3>2, <3>3
  <2> QED BY <1>3, <2>2
<1> HIDE DEF Ranked
<1>11. f = [k \in 1 .. n |-> f[k]] /\ \A k \in 1 .. n : f[k] \in Id
  BY <1>9, <1>10
<1> QED BY <1>8, <1>11

LEMMA PartOfSeq ==
    ASSUME NEW S, NEW s \in Seq(S), NEW m \in Nat \ {0}, NEW n \in Int, n <= Len(s)
    PROVE  SubSeq(s, m, n) \in Seq(S)
OBVIOUS

LEMMA AnswerDataIsOfIds ==
    ASSUME TablesAssumption, NEW r, r.start \in Nat, alive \subseteq Id
    PROVE  AnswerData(r) \in Seq(Id)
<1>1. CASE r.op = "load"
  <2> DEFINE all == ListBy(r.order, alive)
             first == r.start * PageSize + 1
             last == Min({Len(all), (r.start + 1) * PageSize})
  <2>1. all \in Seq(Id)
    BY ListIsOfIds
  <2>2. first \in Nat \ {0} /\ (r.start + 1) * PageSize \in Int
    BY DEF TablesAssumption
  <2>3. Len(all) \in Nat
    BY <2>1
  <2>4. last \in Int /\ last <= Len(all)
    BY <2>2, <2>3 DEF Min
  <2>5. AnswerData(r) = SubSeq(all, first, last)
    BY <1>1 DEF AnswerData
  <2> HIDE DEF all, first, last
  <2> QED BY <2>1, <2>2, <2>4, <2>5, PartOfSeq
<1>2. CASE r.op = "search"
  <2>1. AnswerData(r) = ListBy("", alive \cap Match)
    BY <1>2 DEF AnswerData
  <2>2. alive \cap Match \subseteq Id
    OBVIOUS
  <2> QED BY <2>1, <2>2, ListIsOfIds
<1>3. CASE r.op \notin {"load", "search"}
  <2>1. AnswerData(r) = <<>>
    BY <1>3 DEF AnswerData
  <2> QED BY <2>1
<1> QED BY <1>1, <1>2, <1>3

RowOf(n) == [id : Id, load : 1 .. n]

\* The answers are of rows of the backend, and the rows are those of requests that were sent.
RequestTyped(r) ==
    /\ r.n \in 1 .. sent
    /\ r.answer.kind = "success" => r.answer.data \in Seq(Id)

TableFlags ==
    /\ table \in Table /\ orderBy \in Orders
    /\ loading \in BOOLEAN /\ searching \in BOOLEAN

TablesTyped ==
    /\ sent \in Nat /\ disabled \subseteq Id
    /\ \A a \in 1 .. Len(arrays) : arrays[a] \in Seq(RowOf(sent))
    /\ \A r \in requests : RequestTyped(r)

LEMMA FreshIsOfRows ==
    ASSUME NEW r, NEW n, r.answer.data \in Seq(Id), r.n \in 1 .. n
    PROVE  Fresh(r) \in Seq(RowOf(n)) /\ Len(r.answer.data) \in Nat
<1>1. PICK told \in Seq(Id) : told = r.answer.data
  OBVIOUS
<1>2. PICK k \in Nat : DOMAIN told = 1 .. k /\ Len(told) = k
  BY <1>1
<1>3. \A i \in 1 .. k : [id |-> told[i], load |-> r.n] \in RowOf(n)
  BY <1>2 DEF RowOf
<1>4. Fresh(r) = [i \in 1 .. k |-> [id |-> told[i], load |-> r.n]]
  BY <1>1, <1>2 DEF Fresh
<1> QED BY <1>1, <1>2, <1>3, <1>4

LEMMA SpliceIsOfRows ==
    ASSUME NEW S, NEW a \in Seq(S), NEW start \in Nat, NEW n \in Nat, NEW items \in Seq(S)
    PROVE  Splice(a, start, n, items) \in Seq(S)
<1> DEFINE head == SubSeq(a, 1, Min({start, Len(a)}))
           tail == SubSeq(a, start + n + 1, Len(a))
<1>1. Min({start, Len(a)}) \in Int /\ Min({start, Len(a)}) <= Len(a)
  BY DEF Min
<1>2. head \in Seq(S)
  BY SMTT(60), <1>1, PartOfSeq
<1>3. tail \in Seq(S)
  BY PartOfSeq
<1>4. Splice(a, start, n, items) = head \o items \o tail
  BY DEF Splice
<1> HIDE DEF head, tail
<1> QED BY <1>2, <1>3, <1>4

\* Sorting keeps every row: the order that JavaScript's stable sort makes has every rank.
LEMMA SortedIsOfRows ==
    ASSUME TablesAssumption, NEW n, Shown \in Seq(RowOf(n)), NEW key
    PROVE  SortedBy(key) \in Seq(RowOf(n))
<1>1. PICK m \in Nat : DOMAIN Shown = 1 .. m
  OBVIOUS
<1>2. \A i \in 1 .. m : Shown[i] \in RowOf(n) /\ Rank(key, Shown[i]) \in Int
  <2> TAKE i \in 1 .. m
  <2>1. Shown[i] \in RowOf(n)
    BY <1>1
  <2>2. PICK id : id = Shown[i].id
    OBVIOUS
  <2>3. id \in Id
    BY <2>1, <2>2 DEF RowOf
  <2>4. Id \subseteq Nat
    BY DEF TablesAssumption
  <2>5. id \in Int /\ -id \in Int /\ 0 \in Int /\ 1 \in Int
    BY <2>3, <2>4
  <2> QED BY <2>1, <2>2, <2>5 DEF Rank
<1>3. IsFiniteSet(1 .. m) /\ Cardinality(1 .. m) = m
  BY FS_Interval
<1> DEFINE Ahead(i) == {j \in 1 .. m : Before(key, j, i)}
           Ranked(k) == CHOOSE i \in 1 .. m : Cardinality(Ahead(i)) = k - 1
<1>4. PICK below : below = [i \in 1 .. m |-> Ahead(i)]
  OBVIOUS
<1>5. \A i \in 1 .. m : below[i] = Ahead(i)
  BY <1>4
<1>6. \A i \in 1 .. m : below[i] \subseteq 1 .. m /\ i \notin below[i]
  BY <1>2, <1>5 DEF Before
<1>7. \A i, j \in 1 .. m : i # j => i \in below[j] \/ j \in below[i]
  BY SMTT(60), <1>2, <1>5 DEF Before
<1>8. \A i, j \in 1 .. m : i \in below[j] => below[i] \subseteq below[j]
  <2> SUFFICES ASSUME NEW i \in 1 .. m, NEW j \in 1 .. m, i \in below[j], NEW h \in below[i]
               PROVE  h \in below[j]
    OBVIOUS
  <2>1. h \in 1 .. m /\ Before(key, h, i) /\ Before(key, i, j)
    BY <1>5
  <2>2. Before(key, h, j)
    BY <1>2, <2>1 DEF Before
  <2> QED BY <1>5, <2>1, <2>2
<1> HIDE DEF Ahead
<1>9. ASSUME NEW k \in 1 .. m PROVE Ranked(k) \in 1 .. m
  <2>1. k - 1 \in 0 .. m - 1
    OBVIOUS
  <2>2. PICK i \in 1 .. m : Cardinality(below[i]) = k - 1
    <3>1. Ranks(below, 1 .. m)
      BY <1>6, <1>7, <1>8 DEF Ranks
    <3>2. PICK h : h = k - 1
      OBVIOUS
    <3>4. h \in 0 .. Cardinality(1 .. m) - 1
      BY <1>3, <2>1, <3>2
    <3>3. \E i \in 1 .. m : Cardinality(below[i]) = h
      BY <1>3, <3>1, <3>4, EveryRankIsTaken
    <3> QED BY <3>2, <3>3
  <2> QED BY <1>5, <2>2
<1>10. SortedBy(key) = [k \in 1 .. m |-> Shown[Ranked(k)]]
  BY <1>1 DEF SortedBy, Ahead
<1> HIDE DEF Ranked
<1>11. \A k \in 1 .. m : Shown[Ranked(k)] \in RowOf(n)
  BY <1>2, <1>9
<1> QED BY <1>10, <1>11

LEMMA RowsStayRows ==
    ASSUME TablesTyped, NEW n \in Nat, sent <= n
    PROVE  /\ \A a \in 1 .. Len(arrays) : arrays[a] \in Seq(RowOf(n))
           /\ \A r \in requests : r.n \in 1 .. n
<1>1. 1 .. sent \subseteq 1 .. n
  BY DEF TablesTyped
<1>2. RowOf(sent) \subseteq RowOf(n)
  BY <1>1 DEF RowOf
<1>3. \A s \in Seq(RowOf(sent)) : s \in Seq(RowOf(n))
  BY <1>2
<1> QED BY <1>1, <1>3 DEF TablesTyped, RequestTyped

\* A request that is sent adds to the rows that there may be.
LEMMA SendTyped ==
    ASSUME TablesTyped, NEW r, Send(r), r.n = sent + 1, r.answer = NoAnswer
    PROVE  TablesTyped'
<1>1. /\ requests' = requests \cup {r} /\ sent' = sent + 1
      /\ UNCHANGED <<disabled, arrays>>
  BY DEF Send
<1>2. sent' \in Nat /\ sent <= sent' /\ r.n \in 1 .. sent'
  BY <1>1 DEF TablesTyped
<1>3. /\ \A a \in 1 .. Len(arrays) : arrays[a] \in Seq(RowOf(sent'))
      /\ \A q \in requests : q.n \in 1 .. sent'
  BY <1>2, RowsStayRows
<1>4. r.answer.kind # "success"
  BY DEF NoAnswer
<1>5. \A q \in requests' : RequestTyped(q)'
  BY <1>1, <1>2, <1>3, <1>4 DEF TablesTyped, RequestTyped
<1> QED BY <1>1, <1>2, <1>3, <1>5 DEF TablesTyped

LEMMA InstallTyped ==
    ASSUME ArraysInv, TablesTyped, NEW array \in Seq(RowOf(sent)), Install(array)
    PROVE  \A a \in 1 .. Len(arrays') : arrays'[a] \in Seq(RowOf(sent))
<1>1. /\ Len(arrays') = Len(arrays) + 1 /\ Len(arrays) \in Nat
      /\ \A a \in 1 .. Len(arrays) : arrays'[a] = arrays[a]
      /\ arrays'[Len(arrays) + 1] = array
  BY AppendExtends DEF ArraysInv, Install
<1> QED BY <1>1 DEF TablesTyped

LEMMA AskedTyped ==
    ASSUME TablesInv, TablesTyped,
           ChangePage \/ Refresh \/ searchChannels \/ searchTokens \/ searchUsers
               \/ searchRedemptions \/ Manage \/ DeleteAllDisabled \/ ChangeOrder
    PROVE  TablesTyped'
<1>1. ASSUME NEW op, NEW r, r = Request(op) PROVE r.n = sent + 1 /\ r.answer = NoAnswer
  BY <1>1 DEF Request
<1>2. \/ \E r : Send(r) /\ r.n = sent + 1 /\ r.answer = NoAnswer
      \/ UNCHANGED <<sent, disabled, arrays, requests>>
  <2>1. CASE ChangePage
    <3>1. \/ \E p : Send([Request("load") EXCEPT !.start = p - 1, !.then = "page", !.to = p])
          \/ UNCHANGED <<sent, disabled, arrays, requests>>
      BY <2>1 DEF ChangePage
    <3>2. CASE \E p : Send([Request("load") EXCEPT !.start = p - 1, !.then = "page", !.to = p])
      <4>1. PICK p : Send([Request("load") EXCEPT !.start = p - 1, !.then = "page", !.to = p])
        BY <3>2
      <4>2. PICK r : r = [Request("load") EXCEPT !.start = p - 1, !.then = "page", !.to = p]
        OBVIOUS
      <4>3. r.n = sent + 1 /\ r.answer = NoAnswer
        BY <4>2 DEF Request
      <4> QED BY <4>1, <4>2, <4>3
    <3> QED BY <3>1, <3>2
  <2>2. CASE Refresh
    <3>1. \/ Send([Request("load") EXCEPT !.start = activePage - 1])
          \/ Send([Request("load") EXCEPT !.then = "page", !.to = 1])
          \/ Send(Request("load"))
      BY <2>2 DEF Refresh
    <3>2. PICK r : r = [Request("load") EXCEPT !.start = activePage - 1]
      OBVIOUS
    <3>3. PICK q : q = [Request("load") EXCEPT !.then = "page", !.to = 1]
      OBVIOUS
    <3>4. r.n = sent + 1 /\ r.answer = NoAnswer
      BY <3>2 DEF Request
    <3>5. q.n = sent + 1 /\ q.answer = NoAnswer
      BY <3>3 DEF Request
    <3> QED BY <1>1, <3>1, <3>2, <3>3, <3>4, <3>5
  <2>3. CASE searchChannels \/ searchTokens \/ searchUsers \/ searchRedemptions
    <3>1. \/ \E then : Send([Request("load") EXCEPT !.then = then, !.to = 1])
          \/ Send(Request("search"))
      BY <2>3 DEF searchChannels, searchTokens, searchUsers, searchRedemptions, ReloadAll, LookUp
    <3>2. CASE \E then : Send([Request("load") EXCEPT !.then = then, !.to = 1])
      <4>1. PICK then : Send([Request("load") EXCEPT !.then = then, !.to = 1])
        BY <3>2
      <4>2. PICK r : r = [Request("load") EXCEPT !.then = then, !.to = 1]
        OBVIOUS
      <4>3. r.n = sent + 1 /\ r.answer = NoAnswer
        BY <4>2 DEF Request
      <4> QED BY <4>1, <4>2, <4>3
    <3> QED BY <1>1, <3>1, <3>2
  <2>4. CASE Manage
    <3>1. PICK op, id, idx : Send([Request(op) EXCEPT !.id = id, !.idx = idx])
      BY <2>4 DEF Manage
    <3>2. PICK r : r = [Request(op) EXCEPT !.id = id, !.idx = idx]
      OBVIOUS
    <3>3. r.n = sent + 1 /\ r.answer = NoAnswer
      BY <3>2 DEF Request
    <3> QED BY <3>1, <3>2, <3>3
  <2>5. CASE DeleteAllDisabled
    BY <1>1, <2>5 DEF DeleteAllDisabled
  <2>6. CASE ChangeOrder
    <3>1. PICK o : Send([Request("load") EXCEPT !.order = o, !.page = 1])
      BY <2>6 DEF ChangeOrder
    <3>2. PICK r : r = [Request("load") EXCEPT !.order = o, !.page = 1]
      OBVIOUS
    <3>3. r.n = sent + 1 /\ r.answer = NoAnswer
      BY <3>2 DEF Request
    <3> QED BY <3>1, <3>2, <3>3
  <2> QED BY <2>1, <2>2, <2>3, <2>4, <2>5, <2>6
<1>3. CASE UNCHANGED <<sent, disabled, arrays, requests>>
  BY <1>3 DEF TablesTyped, RequestTyped
<1> QED BY <1>2, <1>3, SendTyped

LEMMA SortTyped ==
    ASSUME TablesAssumption, TablesInv, TablesTyped, Sort PROVE TablesTyped'
<1>1. PICK key : arrays' = Append(arrays, IF SortedBy(key)[1].id = Shown[1].id
                                          THEN Reverse(SortedBy(key)) ELSE SortedBy(key))
                 /\ rows' = Len(arrays) + 1
  BY DEF Sort
<1>2. Shown \in Seq(RowOf(sent))
  BY DEF Shown, TablesInv, ArraysInv, TablesTyped
<1>3. SortedBy(key) \in Seq(RowOf(sent))
  BY <1>2, SortedIsOfRows
<1>4. PICK sorted \in Seq(RowOf(sent)) : sorted = SortedBy(key)
  BY <1>3
<1>5. Reverse(sorted) \in Seq(RowOf(sent))
  BY <1>4 DEF Reverse
<1>6. PICK array : array = IF SortedBy(key)[1].id = Shown[1].id
                           THEN Reverse(SortedBy(key)) ELSE SortedBy(key)
  OBVIOUS
<1>7. array \in Seq(RowOf(sent)) /\ Install(array)
  BY <1>1, <1>4, <1>5, <1>6 DEF Install
<1>8. UNCHANGED <<sent, disabled, requests>>
  BY DEF Sort
<1>9. \A a \in 1 .. Len(arrays') : arrays'[a] \in Seq(RowOf(sent))
  BY <1>7, InstallTyped DEF TablesInv
<1> QED BY <1>8, <1>9 DEF TablesTyped, RequestTyped

\* The row that an operation is about is one of the backend's.
LEMMA OperatedRow ==
    ASSUME TablesInv, TablesTyped, NEW r \in requests, r.op \in RowOp
    PROVE  r.id \in Id
<1>1. /\ r.arr \in 1 .. Len(arrays) /\ RealIdx(r) \in 1 .. Len(arrays[r.arr])
      /\ arrays[r.arr][RealIdx(r)].id = r.id
  BY DEF TablesInv, RequestInv
<1>2. PICK array \in Seq(RowOf(sent)) : array = arrays[r.arr]
  BY <1>1 DEF TablesTyped
<1>3. array[RealIdx(r)] \in RowOf(sent)
  BY <1>1, <1>2
<1> QED BY <1>1, <1>2, <1>3 DEF RowOf

LEMMA AnswerTypedRows ==
    ASSUME TablesAssumption, TablesInv, TablesTyped, NEW r \in requests, Answer(r)
    PROVE  TablesTyped'
<1>1. PICK success \in BOOLEAN :
        /\ disabled' = IF success /\ r.op = "disable" THEN disabled \cup {r.id}
                       ELSE IF success /\ r.op = "enable" THEN disabled \ {r.id}
                       ELSE disabled
        /\ requests' = (requests \ {r}) \cup
              {[r EXCEPT !.answer = [kind |-> IF success THEN "success" ELSE "failure",
                                     data |-> IF success THEN AnswerData(r) ELSE <<>>,
                                     off |-> disabled']]}
  BY DEF Answer
<1>2. UNCHANGED <<arrays, sent>>
  BY DEF Answer
<1>3. PICK answer : answer = [kind |-> IF success THEN "success" ELSE "failure",
                              data |-> IF success THEN AnswerData(r) ELSE <<>>,
                              off |-> disabled']
  OBVIOUS
<1>4. PICK new : new = [r EXCEPT !.answer = answer]
  OBVIOUS
<1>5. IsRequest(r) /\ r.start \in Nat /\ alive \subseteq Id
  BY DEF TablesInv, RequestInv
<1>6. new.n = r.n /\ new.answer = answer
  BY <1>4, <1>5 DEF IsRequest
<1>7. answer.kind = "success" => answer.data \in Seq(Id)
  BY <1>3, <1>5, AnswerDataIsOfIds
<1>8. requests' = (requests \ {r}) \cup {new}
  BY <1>1, <1>3, <1>4
<1>9. \A q \in requests' : RequestTyped(q)'
  BY <1>2, <1>6, <1>7, <1>8 DEF TablesTyped, RequestTyped
<1>10. disabled' \subseteq Id
  <2>1. r.op = "disable" => r.id \in Id
    BY OperatedRow DEF RowOp
  <2> QED BY <1>1, <2>1 DEF TablesTyped
<1> QED BY <1>2, <1>9, <1>10 DEF TablesTyped

LEMMA LoadTyped ==
    ASSUME TablesAssumption, TablesInv, TablesTyped, NEW r \in requests,
           r.answer.kind = "success", LoadPush(r) \/ LoadSplice(r)
    PROVE  \A a \in 1 .. Len(arrays') : arrays'[a] \in Seq(RowOf(sent))
<1>1. /\ r.start \in Nat /\ r.arr \in 1 .. Len(arrays) /\ ArraysInv
      /\ r.answer.data \in Seq(Id) /\ r.n \in 1 .. sent
  BY DEF TablesInv, RequestInv, TablesTyped, RequestTyped
<1>2. PICK fresh \in Seq(RowOf(sent)) : fresh = Fresh(r)
  BY <1>1, FreshIsOfRows
<1>3. PICK old \in Seq(RowOf(sent)) : old = arrays[r.arr]
  BY <1>1 DEF TablesTyped
<1>4. CASE Install(Fresh(r))
  BY <1>1, <1>2, <1>4, InstallTyped
<1>5. CASE LoadPush(r) /\ r.start # 0
  <2>1. PICK longer : longer = old \o fresh
    OBVIOUS
  <2>2. arrays' = [arrays EXCEPT ![r.arr] = longer] /\ longer \in Seq(RowOf(sent))
    BY <1>2, <1>3, <1>5, <2>1 DEF LoadPush
  <2>3. PICK S : arrays \in Seq(S)
    BY <1>1 DEF ArraysInv, IsSeq
  <2>4. arrays \in Seq(S \cup {longer}) /\ longer \in S \cup {longer}
    BY <2>3
  <2>5. /\ Len(arrays') = Len(arrays)
        /\ \A a \in 1 .. Len(arrays) :
               arrays'[a] = IF a = r.arr THEN longer ELSE arrays[a]
    BY <1>1, <2>2, <2>4
  <2> QED BY <2>2, <2>5 DEF TablesTyped
<1>6. CASE LoadSplice(r) /\ r.start # 0
  <2>1. r.start * PageSize \in Nat /\ Len(r.answer.data) \in Nat
    BY <1>1 DEF TablesAssumption
  <2>2. PICK array : array = Splice(old, r.start * PageSize, Len(r.answer.data), fresh)
    OBVIOUS
  <2>3. array \in Seq(RowOf(sent))
    BY <2>1, <2>2, SpliceIsOfRows
  <2>4. Install(array)
    BY <1>2, <1>3, <1>6, <2>2 DEF LoadSplice
  <2> QED BY <1>1, <2>3, <2>4, InstallTyped
<1> QED BY <1>4, <1>5, <1>6 DEF LoadPush, LoadSplice

LEMMA LoadedTyped ==
    ASSUME TablesAssumption, TablesInv, TablesTyped, NEW r \in requests, Loaded(r)
    PROVE  TablesTyped'
<1>1. disabled' = disabled
  BY DEF Loaded
<1>2. \A a \in 1 .. Len(arrays') : arrays'[a] \in Seq(RowOf(sent))
  <2>1. \/ r.answer.kind = "success" /\ (LoadPush(r) \/ LoadSplice(r))
        \/ arrays' = arrays
    BY DEF Loaded, loadChannels, loadTokens, loadLogs, loadUsers, loadRedemptions
  <2> QED BY <2>1, LoadTyped DEF TablesTyped
<1>3. CASE requests' = requests \ {r} /\ sent' = sent
  BY <1>1, <1>2, <1>3 DEF TablesTyped, RequestTyped
<1>4. CASE /\ requests' = (requests \ {r}) \cup
                  {[Request("load") EXCEPT !.arr = rows', !.page = 1, !.order = ""]}
           /\ sent' = sent + 1
  <2>1. PICK new : new = [Request("load") EXCEPT !.arr = rows', !.page = 1, !.order = ""]
    OBVIOUS
  <2>2. new.n = sent + 1 /\ new.answer.kind # "success"
    BY <2>1 DEF Request, NoAnswer
  <2>3. sent \in Nat /\ sent' \in Nat /\ sent <= sent' /\ new.n \in 1 .. sent'
        /\ 1 .. sent \subseteq 1 .. sent'
    BY <1>4, <2>2 DEF TablesTyped
  <2>4. \A a \in 1 .. Len(arrays') : arrays'[a] \in Seq(RowOf(sent'))
    <3>1. RowOf(sent) \subseteq RowOf(sent')
      BY <2>3 DEF RowOf
    <3>2. \A s \in Seq(RowOf(sent)) : s \in Seq(RowOf(sent'))
      BY <3>1
    <3> QED BY <1>2, <3>2
  <2>5. \A q \in requests' : RequestTyped(q)'
    BY <1>4, <2>1, <2>2, <2>3 DEF TablesTyped, RequestTyped
  <2> QED BY <1>1, <2>3, <2>4, <2>5 DEF TablesTyped
<1> QED BY <1>3, <1>4 DEF Loaded

LEMMA HandledTyped ==
    ASSUME TablesInv, TablesTyped, NEW r \in requests,
           Searched(r) \/ Managed(r) \/ Tested(r) \/ Reject(r)
    PROVE  TablesTyped'
<1>1. disabled' = disabled /\ sent' = sent /\ requests' = requests \ {r}
  BY DEF Searched, Managed, Tested, Reject
<1>2. \/ r.answer.kind = "success" /\ Install(Fresh(r))
      \/ Install(arrays[r.arr])
      \/ arrays' = arrays
  BY DEF Searched, Managed, Tested, Reject
<1>3. /\ r.answer.kind = "success" => r.answer.data \in Seq(Id)
      /\ r.n \in 1 .. sent /\ arrays[r.arr] \in Seq(RowOf(sent)) /\ ArraysInv
  BY DEF TablesInv, RequestInv, TablesTyped, RequestTyped
<1>4. \A a \in 1 .. Len(arrays') : arrays'[a] \in Seq(RowOf(sent))
  <2>1. CASE r.answer.kind = "success" /\ Install(Fresh(r))
    BY <1>3, <2>1, FreshIsOfRows, InstallTyped
  <2>2. CASE Install(arrays[r.arr])
    BY <1>3, <2>2, InstallTyped
  <2>3. CASE arrays' = arrays
    BY <2>3 DEF TablesTyped
  <2> QED BY <1>2, <2>1, <2>2, <2>3
<1> QED BY <1>1, <1>4 DEF TablesTyped, RequestTyped

LEMMA DeletedTyped ==
    ASSUME TablesInv, TablesTyped, NEW r \in requests, DeletedDisabled(r)
    PROVE  TablesTyped'
<1>1. UNCHANGED <<disabled, arrays>>
  BY DEF DeletedDisabled
<1>2. CASE requests' = requests \ {r} /\ sent' = sent
  BY <1>1, <1>2 DEF TablesTyped, RequestTyped
<1>3. CASE /\ requests' = (requests \ {r}) \cup
                {[r EXCEPT !.op = "load", !.n = sent + 1, !.start = r.page - 1,
                           !.answer = NoAnswer]}
           /\ sent' = sent + 1
  <2>1. PICK new : new = [r EXCEPT !.op = "load", !.n = sent + 1, !.start = r.page - 1,
                                   !.answer = NoAnswer]
    OBVIOUS
  <2>2. IsRequest(r)
    BY DEF TablesInv, RequestInv
  <2>3. new.n = sent + 1 /\ new.answer.kind # "success"
    BY <2>1, <2>2 DEF IsRequest, NoAnswer
  <2>4. sent' \in Nat /\ sent <= sent' /\ new.n \in 1 .. sent'
    BY <1>3, <2>3 DEF TablesTyped
  <2>5. /\ \A a \in 1 .. Len(arrays) : arrays[a] \in Seq(RowOf(sent'))
        /\ \A q \in requests : q.n \in 1 .. sent'
    BY <2>4, RowsStayRows
  <2>6. \A q \in requests' : RequestTyped(q)'
    BY <1>3, <2>1, <2>3, <2>4, <2>5 DEF TablesTyped, RequestTyped
  <2> QED BY <1>1, <2>4, <2>5, <2>6 DEF TablesTyped
<1> QED BY <1>2, <1>3 DEF DeletedDisabled

LEMMA FlagsStep ==
    ASSUME TableFlags, [TablesNext]_tablesVars
    PROVE  TableFlags'
<1> USE DEF TableFlags
<1>1. "" \in Orders
  BY ZenonT(60) DEF Orders
<1>2. CASE ChangePage \/ Refresh \/ Manage \/ DeleteAllDisabled \/ Sort
  BY <1>2 DEF ChangePage, Refresh, Manage, DeleteAllDisabled, Sort, Send
<1>3. CASE searchChannels \/ searchTokens \/ searchUsers \/ searchRedemptions
  BY <1>3 DEF searchChannels, searchTokens, searchUsers, searchRedemptions, ReloadAll, LookUp, Send
<1>4. CASE ChangeOrder
  BY <1>4 DEF ChangeOrder, Send
<1>5. ASSUME NEW r \in requests, Answer(r) \/ Reject(r) PROVE TableFlags'
  BY <1>5 DEF Answer, Reject
<1>6. ASSUME NEW r \in requests,
             Loaded(r) \/ Searched(r) \/ Managed(r) \/ Tested(r) \/ DeletedDisabled(r)
      PROVE  TableFlags'
  BY <1>1, <1>6 DEF Loaded, Searched, Managed, Tested, DeletedDisabled
<1>7. CASE UNCHANGED tablesVars
  BY <1>7 DEF tablesVars
<1> QED BY <1>2, <1>3, <1>4, <1>5, <1>6, <1>7 DEF TablesNext, Respond

LEMMA TypedStep ==
    ASSUME TablesAssumption, TablesInv, TablesTyped, [TablesNext]_tablesVars
    PROVE  TablesTyped'
<1>1. CASE UNCHANGED tablesVars
  BY <1>1 DEF tablesVars, TablesTyped, RequestTyped
<1> QED BY <1>1, AskedTyped, SortTyped, AnswerTypedRows, LoadedTyped, HandledTyped, DeletedTyped
        DEF TablesNext, Respond

\* Every row of every array that a table has made is one of the backend's and comes from a request
\* that was sent, however often the array is sorted, spliced and pushed to.
THEOREM TablesTypeCorrect == TablesSpec => []TablesTypeOK
<1>1. TablesInit => TableFlags /\ TablesTyped
  <2> SUFFICES ASSUME TablesInit PROVE TableFlags /\ TablesTyped
    OBVIOUS
  <2>1. disabled \subseteq Id
    BY TablesAssumption DEF TablesInit, TablesAssumption
  <2>2. sent = 1 /\ \A r \in requests : r.n = 1 /\ r.answer = NoAnswer
    <3>1. PICK q : q = [op |-> "load", n |-> 1, arr |-> 1, page |-> 1, order |-> "", start |-> 0,
                        then |-> "stay", to |-> 0, id |-> 0, idx |-> 0, answer |-> NoAnswer]
      OBVIOUS
    <3>2. q.n = 1 /\ q.answer = NoAnswer
      BY ZenonT(60), <3>1
    <3>3. requests = {q}
      BY <3>1 DEF TablesInit
    <3>4. sent = 1
      BY ZenonT(60) DEF TablesInit
    <3> QED BY SMTT(60), <3>2, <3>3, <3>4
  <2>3. PICK none : none = <<>>
    OBVIOUS
  <2>4. arrays = <<none>>
    BY <2>3 DEF TablesInit
  <2>5. \A a \in 1 .. Len(arrays) : arrays[a] \in Seq(RowOf(sent))
    <3>1. none \in Seq(RowOf(sent))
      BY <2>3
    <3>2. arrays \in Seq({none}) /\ Len(arrays) = 1 /\ arrays[1] = none
      BY <2>4
    <3> QED BY <3>1, <3>2
  <2>6. \A r \in requests : RequestTyped(r)
    BY <2>2 DEF RequestTyped, NoAnswer
  <2>7. TablesTyped
    BY <2>1, <2>2, <2>5, <2>6 DEF TablesTyped
  <2>8. table \in Table /\ orderBy = "" /\ loading = TRUE /\ searching = FALSE
    BY DEF TablesInit
  <2> QED BY <2>7, <2>8 DEF TableFlags, Orders
<1>2. TableFlags /\ [TablesNext]_tablesVars => TableFlags'
  BY FlagsStep
<1>3. TablesInv /\ TablesTyped /\ [TablesNext]_tablesVars => TablesTyped'
  BY TypedStep, TablesAssumption
<1>4. TablesInv /\ TableFlags /\ TablesTyped => TablesTypeOK
  <2> SUFFICES ASSUME TablesInv, TableFlags, TablesTyped PROVE TablesTypeOK
    OBVIOUS
  <2>1. DOMAIN arrays = 1 .. Len(arrays)
    BY DEF TablesInv, ArraysInv, IsSeq
  <2>2. ASSUME NEW a \in DOMAIN arrays, NEW i \in DOMAIN arrays[a]
        PROVE  arrays[a][i].id \in Id /\ arrays[a][i].load \in 1 .. sent
    <3>1. PICK array \in Seq(RowOf(sent)) : array = arrays[a]
      BY <2>1 DEF TablesTyped
    <3>2. array[i] \in RowOf(sent)
      BY <2>2, <3>1
    <3> QED BY <3>1, <3>2 DEF RowOf
  <2>3. rows \in DOMAIN arrays /\ \A r \in requests : r.n \in 1 .. sent /\ r.arr \in DOMAIN arrays
    BY <2>1 DEF TablesInv, ArraysInv, RequestInv, TablesTyped, RequestTyped
  <2> QED BY <2>2, <2>3 DEF TablesInv, TableFlags, TablesTyped, TablesTypeOK
<1> QED BY <1>1, <1>2, <1>3, <1>4, TablesInvariant, PTL DEF TablesSpec

----------------------------------------------------------------------------
(* All parts *)

(* A step of the front end is a step of every part or leaves it alone. *)

LEMMA PartsBegin ==
    ASSUME Init
    PROVE  /\ TablesInit /\ FormsInit /\ SettingsInit /\ SessionInit /\ CodesInit /\ PagesInit
           /\ LogsInit /\ AccountInit
           /\ DashboardInit /\ QuotaInit /\ PlaygroundInit /\ DesignInit /\ BrandInit /\ PaletteInit
BY DEF Init

LEMMA PartsStep ==
    ASSUME [WebNext \/ PackagesNext]_vars
    PROVE  /\ [TablesNext]_tablesVars
           /\ [FormsNext]_formsVars
           /\ [SettingsNext]_settingsVars
           /\ [SessionNext]_sessionVars
           /\ [CodesNext]_codesVars
           /\ [PagesNext]_pagesVars
           /\ [LogsNext]_logsVars
           /\ [AccountNext]_accountVars
           /\ [DashboardNext]_dashboardVars
           /\ [QuotaNext]_quotaVars
           /\ [PlaygroundNext]_playgroundVars
           /\ [DesignNext]_designVars
           /\ [BrandNext]_brandVars
           /\ [PaletteNext]_paletteVars
<1>1. CASE WebNext
  <2>1. /\ UNCHANGED dashboardVars /\ UNCHANGED quotaVars /\ UNCHANGED playgroundVars
        /\ UNCHANGED designVars /\ UNCHANGED brandVars /\ UNCHANGED paletteVars
    BY <1>1 DEF WebNext, packageVars
  <2>2. CASE /\ mounted = "tables" /\ TablesNext
               /\ UNCHANGED <<formsVars, settingsVars, sessionVars, codesVars, pagesVars,
                              logsVars, accountVars>>
    BY <2>1, <2>2
  <2>3. CASE /\ mounted = "forms" /\ FormsNext
               /\ UNCHANGED <<tablesVars, settingsVars, sessionVars, codesVars, pagesVars,
                              logsVars, accountVars>>
    BY <2>1, <2>3
  <2>4. CASE /\ mounted = "settings" /\ SettingsNext
               /\ UNCHANGED <<tablesVars, formsVars, sessionVars, codesVars, pagesVars,
                              logsVars, accountVars>>
    BY <2>1, <2>4
  <2>5. CASE /\ mounted = "session" /\ SessionNext
               /\ UNCHANGED <<tablesVars, formsVars, settingsVars, codesVars, pagesVars,
                              logsVars, accountVars>>
    BY <2>1, <2>5
  <2>6. CASE /\ mounted = "codes" /\ CodesNext
               /\ UNCHANGED <<tablesVars, formsVars, settingsVars, sessionVars, pagesVars,
                              logsVars, accountVars>>
    BY <2>1, <2>6
  <2>7. CASE /\ mounted = "pages" /\ PagesNext
               /\ UNCHANGED <<tablesVars, formsVars, settingsVars, sessionVars, codesVars,
                              logsVars, accountVars>>
    BY <2>1, <2>7
  <2>8. CASE /\ mounted = "logs" /\ LogsNext
               /\ UNCHANGED <<tablesVars, formsVars, settingsVars, sessionVars, codesVars,
                              pagesVars, accountVars>>
    BY <2>1, <2>8
  <2>9. CASE /\ mounted = "account" /\ AccountNext
               /\ UNCHANGED <<tablesVars, formsVars, settingsVars, sessionVars, codesVars,
                              pagesVars, logsVars>>
    BY SMTT(60), <2>1, <2>9
  <2> QED BY SMTT(60), <1>1, <2>2, <2>3, <2>4, <2>5, <2>6, <2>7, <2>8, <2>9 DEF WebNext
<1>2. CASE PackagesNext
  <2>1. /\ UNCHANGED tablesVars /\ UNCHANGED formsVars /\ UNCHANGED settingsVars
        /\ UNCHANGED sessionVars /\ UNCHANGED codesVars /\ UNCHANGED pagesVars
        /\ UNCHANGED logsVars /\ UNCHANGED accountVars
    BY <1>2 DEF PackagesNext, webVars
  <2>2. CASE /\ mounted = "dashboard" /\ DashboardNext
               /\ UNCHANGED <<quotaVars, playgroundVars, designVars, brandVars, paletteVars>>
    BY <2>1, <2>2
  <2>3. CASE /\ mounted = "quota" /\ QuotaNext
               /\ UNCHANGED <<dashboardVars, playgroundVars, designVars, brandVars,
                              paletteVars>>
    BY <2>1, <2>3
  <2>4. CASE /\ mounted = "playground" /\ PlaygroundNext
               /\ UNCHANGED <<dashboardVars, quotaVars, designVars, brandVars, paletteVars>>
    BY <2>1, <2>4
  <2>5. CASE /\ mounted = "design" /\ DesignNext
               /\ UNCHANGED <<dashboardVars, quotaVars, playgroundVars, brandVars, paletteVars>>
    BY <2>1, <2>5
  <2>6. CASE /\ mounted = "brand" /\ BrandNext
               /\ UNCHANGED <<dashboardVars, quotaVars, playgroundVars, designVars,
                              paletteVars>>
    BY <2>1, <2>6
  <2>7. CASE /\ mounted = "palette" /\ PaletteNext
               /\ UNCHANGED <<dashboardVars, quotaVars, playgroundVars, designVars, brandVars>>
    BY <2>1, <2>7
  <2> QED BY SMTT(60), <1>2, <2>2, <2>3, <2>4, <2>5, <2>6, <2>7 DEF PackagesNext
<1>3. CASE UNCHANGED vars
  BY <1>3 DEF vars
<1> QED BY SMTT(60), <1>1, <1>2, <1>3

LEMMA PartsBehave ==
    Spec => /\ TablesSpec /\ FormsSpec /\ SettingsSpec /\ SessionSpec /\ CodesSpec /\ PagesSpec
            /\ LogsSpec /\ AccountSpec /\ DashboardSpec /\ QuotaSpec /\ PlaygroundSpec
            /\ DesignSpec /\ BrandSpec /\ PaletteSpec
BY PartsBegin, PartsStep, PTL
    DEF Spec, TablesSpec, FormsSpec, SettingsSpec, SessionSpec, CodesSpec, PagesSpec,
        LogsSpec, AccountSpec, DashboardSpec, QuotaSpec, PlaygroundSpec, DesignSpec,
        BrandSpec, PaletteSpec

\* Every variable of every part keeps its type, whichever part is mounted.
THEOREM FrontendTypeCorrect == Spec => []FrontendTypeOK
<1>1. Spec => [](/\ TablesTypeOK /\ FormsTypeOK /\ SettingsTypeOK /\ SessionTypeOK
                 /\ CodesTypeOK /\ PagesTypeOK /\ LogsTypeOK /\ AccountTypeOK
                 /\ DashboardTypeOK /\ QuotaTypeOK /\ PlaygroundTypeOK /\ DesignTypeOK
                 /\ BrandTypeOK /\ PaletteTypeOK)
  BY PartsBehave, TablesTypeCorrect, FormsTypeCorrect, SettingsTypeCorrect, SessionTypeCorrect,
     CodesTypeCorrect, PagesTypeCorrect, LogsTypeCorrect, AccountTypeCorrect,
     DashboardTypeCorrect, QuotaTypeCorrect, PlaygroundTypeCorrect, DesignTypeCorrect,
     BrandTypeCorrect, PaletteTypeCorrect, PTL
<1> QED BY <1>1, PTL DEF FrontendTypeOK

\* What the parts promise their users.
FrontendIsRight ==
    /\ TablesKnowTheirRows /\ FormsSendWhatTheyShould /\ SettingsShowTheServer /\ SessionIsShown
    /\ PagesShowTheBackend /\ LogsAnswerTheirQuery /\ AccountIsShown /\ DashboardShowsItsQuery
    /\ PanelShowsItsCall /\ PageIsKept /\ PageHasItsBrand

\* What the theorems above say of each part holds of the front end that is made of them.
THEOREM FrontendKeepsItsWord == Spec => []FrontendIsRight /\ CodesAreSpaced
<1>1. Spec => [](/\ TablesKnowTheirRows /\ FormsSendWhatTheyShould /\ SettingsShowTheServer
                 /\ SessionIsShown /\ PagesShowTheBackend /\ LogsAnswerTheirQuery
                 /\ AccountIsShown /\ DashboardShowsItsQuery /\ PanelShowsItsCall /\ PageIsKept
                 /\ PageHasItsBrand)
  BY PartsBehave, RequestsKeepTheirRows, FormsSendLoadedOrFilledIn, SavedOptionsAreShown,
     WhoIsShownIsLoggedIn, PagesShowWhatTheBackendSaid, RowsAndTotalAreAsked, TokenShownIsValid,
     FiltersAreShown, PlaygroundShowsItsCall, DesignKeepsPage, PageBearsItsBrand, PTL
<1>2. Spec => CodesAreSpaced
  BY PartsBehave, CodesSpaced, PTL
<1> QED BY <1>1, <1>2, PTL DEF FrontendIsRight

\* So does what its packages compute.
THEOREM FrontendComputes == Spec => []PackagesCompute
<1>1. Spec => []TrendsAgree /\ []ColoursKeepTheirKind
  BY PartsBehave, UsageAddsUp, ColoursStayOfTheirKind, PTL
<1>2. TrendsAgree /\ ColoursKeepTheirKind => PackagesCompute
  BY DEF PackagesCompute
<1> QED BY <1>1, <1>2, PTL

=============================================================================
