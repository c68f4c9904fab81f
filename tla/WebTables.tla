----------------------------- MODULE WebTables -----------------------------
(***************************************************************************)
(* The tables of the web UI: channels, tokens, users, redemptions, logs.   *)
(*                                                                         *)
(* A handler runs to its first await at once, and its rest runs when the   *)
(* response comes, with the state it closed over when it was called.       *)
(* Responses come in any order.  Arrays and rows are JavaScript objects:   *)
(* copies of an array share its rows, and some handlers change the array   *)
(* they closed over in place.                                              *)
(***************************************************************************)
EXTENDS Integers, Sequences, FiniteSets, SequencesExt

CONSTANTS
    Table,        \* the tables that may be mounted
    Id,           \* the rows of the backend
    Fixed,        \* rows whose state may not be toggled: the root user, redemptions used up
    Match,        \* the rows that a search matches
    PageSize,     \* ITEMS_PER_PAGE
    MaxRequests,  \* bound on the requests that the user causes
    MaxArrays     \* bound on the arrays that sorting adds to

TablesAssumption ==
    /\ Table \subseteq {"channels", "tokens", "users", "redemptions", "logs"}
    /\ Id \subseteq Nat /\ Fixed \subseteq Id /\ Match \subseteq Id
    /\ IsFiniteSet(Id) /\ PageSize \in Nat \ {0}
    /\ MaxRequests \in Nat /\ MaxArrays \in Nat
ASSUME TablesAssumption

VARIABLES
    table,        \* the table mounted
    alive,        \* backend: the rows that exist
    disabled,     \* backend: the rows that are disabled
    arrays,       \* every array of rows made so far; a row is named by its id and its load
    rows,         \* the component's state: the array it shows
    hidden,       \* the rows whose `deleted' was set
    off,          \* the rows whose `status' is not 1
    activePage,
    orderBy,      \* orderBy of tokens and users, logType of logs: the first choice or another
    loading,
    searching,
    requests,     \* requests under way
    sent,         \* requests sent so far
    broken        \* history: a request was rejected (connection broken, status not 2xx)

tablesVars == <<table, alive, disabled, arrays, rows, hidden, off, activePage, orderBy,
                loading, searching, requests, sent, broken>>

RowOp == {"delete", "enable", "disable", "promote", "priority", "test", "balance"}
Orders == {"", "other"}
NoAnswer == [kind |-> "none"]

----------------------------------------------------------------------------
(* The backend (One API's handlers, not in this repository). *)

\* The k-th of `ids' has k - 1 before it.
ListBy(order, ids) ==
    [k \in 1 .. Cardinality(ids) |->
        CHOOSE x \in ids :
            Cardinality({y \in ids : IF order = "" THEN y > x ELSE y < x}) = k - 1]

AnswerData(r) ==
    CASE r.op = "load" ->
            LET all == ListBy(r.order, alive)
            IN  SubSeq(all, r.start * PageSize + 1, Min({Len(all), (r.start + 1) * PageSize}))
      [] r.op = "search" -> ListBy("", alive \cap Match)
      [] OTHER -> <<>>

\* The backend handles a request, or refuses it.
Answer(r) ==
    /\ r.answer = NoAnswer
    /\ \E success \in BOOLEAN :
        /\ alive' = IF success /\ r.op = "delete" THEN alive \ {r.id}
                    ELSE IF success /\ r.op = "deleteDisabled" THEN alive \ disabled
                    ELSE alive
        /\ disabled' = IF success /\ r.op = "disable" THEN disabled \cup {r.id}
                       ELSE IF success /\ r.op = "enable" THEN disabled \ {r.id}
                       ELSE disabled
        /\ requests' = (requests \ {r}) \cup
              {[r EXCEPT !.answer = [kind |-> IF success THEN "success" ELSE "failure",
                                     data |-> IF success THEN AnswerData(r) ELSE <<>>,
                                     off |-> disabled']]}
    /\ UNCHANGED <<table, arrays, rows, hidden, off, activePage, orderBy, loading,
                   searching, sent, broken>>

----------------------------------------------------------------------------
(* Pages and rows on the screen. *)

Shown == arrays[rows]
Pages(n) == (n + PageSize - 1) \div PageSize
TotalPages == Pages(Len(Shown)) + (IF Len(Shown) % PageSize = 0 THEN 1 ELSE 0)

\* The positions on the active page that hold a row that is not hidden.
OnPage ==
    {idx \in 1 .. PageSize :
        LET i == (activePage - 1) * PageSize + idx
        IN  i \in DOMAIN Shown /\ Shown[i] \notin hidden}

\* The columns that sort: by a status, or by something else.  The rows of the logs have none.
ChannelColumns == {"id", "status"}
TokenColumns == {"id", "status"}
UserColumns == {"id", "status"}
RedemptionColumns == {"id", "status"}
LogColumns == {"id"}

\* What is under a table, next to its pages; the logs' order is over it.
ChannelFooter == {"deleteDisabled", "refresh"}
TokenFooter == {"refresh", "order"}
UserFooter == {"order"}
RedemptionFooter == {"refresh"}
LogFooter == {"refresh", "order"}

\* What the buttons of a row offer.
ChannelButtons(row) ==
    {"test", "balance", "priority", "delete", IF row \in off THEN "enable" ELSE "disable"}
TokenButtons(row) == {"delete", IF row \in off THEN "enable" ELSE "disable"}
UserButtons(row) ==
    IF row.id \in Fixed THEN {}
    ELSE {"promote", "delete", IF row \in off THEN "enable" ELSE "disable"}
RedemptionButtons(row) ==
    {"delete"} \cup
        (IF row.id \in Fixed THEN {} ELSE {IF row \in off THEN "enable" ELSE "disable"})

\* A row of the logs opens a dialog that asks for nothing.
LogButtons(row) == {}

Buttons(row) ==
    CASE table = "channels" -> ChannelButtons(row)
      [] table = "tokens" -> TokenButtons(row)
      [] table = "users" -> UserButtons(row)
      [] table = "redemptions" -> RedemptionButtons(row)
      [] table = "logs" -> LogButtons(row)

Columns ==
    CASE table = "channels" -> ChannelColumns
      [] table = "tokens" -> TokenColumns
      [] table = "users" -> UserColumns
      [] table = "redemptions" -> RedemptionColumns
      [] table = "logs" -> LogColumns

Footer ==
    CASE table = "channels" -> ChannelFooter
      [] table = "tokens" -> TokenFooter
      [] table = "users" -> UserFooter
      [] table = "redemptions" -> RedemptionFooter
      [] table = "logs" -> LogFooter

----------------------------------------------------------------------------
(* Handlers up to their first await. *)

\* A request, with what its handler closed over and what it does next with the page.
Request(op) ==
    [op |-> op, n |-> sent + 1, arr |-> rows, page |-> activePage, order |-> orderBy,
     start |-> 0, then |-> "stay", to |-> 0, id |-> 0, idx |-> 0, answer |-> NoAnswer]

Send(r) ==
    /\ sent < MaxRequests
    /\ requests' = requests \cup {r}
    /\ sent' = sent + 1
    /\ UNCHANGED <<table, alive, disabled, arrays, rows, hidden, off, broken>>

\* A page past what is loaded is loaded first.
ChangePage ==
    \E p \in 1 .. TotalPages \ {activePage} :
        IF p = Pages(Len(Shown)) + 1
        THEN /\ Send([Request("load") EXCEPT !.start = p - 1, !.then = "page", !.to = p])
             /\ UNCHANGED <<activePage, orderBy, loading, searching>>
        ELSE /\ activePage' = p
             /\ UNCHANGED <<table, alive, disabled, arrays, rows, hidden, off, orderBy,
                            loading, searching, requests, sent, broken>>

Refresh ==
    /\ "refresh" \in Footer
    /\ loading' = TRUE
    /\ UNCHANGED <<orderBy, searching>>
    /\ \/ /\ table \in {"channels", "tokens"}
          /\ Send([Request("load") EXCEPT !.start = activePage - 1])
          /\ UNCHANGED activePage
       \/ /\ table = "redemptions"
          /\ Send([Request("load") EXCEPT !.then = "page", !.to = 1])
          /\ UNCHANGED activePage
       \/ /\ table = "logs"
          /\ Send(Request("load"))
          /\ activePage' = 1

\* A blank keyword reloads, and then goes to the first page, in the first order if there are any.
ReloadAll(then) ==
    /\ Send([Request("load") EXCEPT !.then = then, !.to = 1])
    /\ UNCHANGED <<activePage, orderBy, loading, searching>>

LookUp ==
    /\ Send(Request("search"))
    /\ searching' = TRUE
    /\ UNCHANGED <<activePage, orderBy, loading>>

\* The logs' table has no search field.
searchChannels == table = "channels" /\ (ReloadAll("page") \/ LookUp)
searchTokens == table = "tokens" /\ (ReloadAll("unsort") \/ LookUp)
searchUsers == table = "users" /\ (ReloadAll("unsort") \/ LookUp)
searchRedemptions == table = "redemptions" /\ (ReloadAll("page") \/ LookUp)

\* manageX, testChannel and updateChannelBalance of the row at idx.
Manage ==
    /\ \E idx \in OnPage :
        LET row == Shown[(activePage - 1) * PageSize + idx]
        IN  \E op \in Buttons(row) :
                Send([Request(op) EXCEPT !.id = row.id, !.idx = idx])
    /\ UNCHANGED <<activePage, orderBy, loading, searching>>

DeleteAllDisabled ==
    /\ "deleteDisabled" \in Footer
    /\ Send(Request("deleteDisabled"))
    /\ UNCHANGED <<activePage, orderBy, loading, searching>>

\* The effect of a new orderBy or logType loads with it.
ChangeOrder ==
    /\ "order" \in Footer
    /\ \E o \in Orders \ {orderBy} :
        /\ orderBy' = o
        /\ Send([Request("load") EXCEPT !.order = o, !.page = 1])
    /\ activePage' = 1
    /\ loading' = (loading \/ table = "logs")
    /\ UNCHANGED searching

\* Numbers of the logs go down, all others up; the first status is "enabled".
Rank(key, row) ==
    IF key = "status" THEN IF row \in off THEN 1 ELSE 0
    ELSE IF table = "logs" THEN -row.id ELSE row.id

\* JavaScript's sort is stable.
Before(key, i, j) ==
    \/ Rank(key, Shown[i]) < Rank(key, Shown[j])
    \/ Rank(key, Shown[i]) = Rank(key, Shown[j]) /\ i < j

SortedBy(key) ==
    [k \in DOMAIN Shown |->
        Shown[CHOOSE i \in DOMAIN Shown :
                Cardinality({j \in DOMAIN Shown : Before(key, j, i)}) = k - 1]]

\* A second click reverses.
Sort ==
    /\ Len(arrays) < MaxArrays
    /\ Shown # <<>>
    /\ \E key \in Columns :
        LET new == SortedBy(key)
        IN  arrays' = Append(arrays, IF new[1].id = Shown[1].id THEN Reverse(new) ELSE new)
    /\ rows' = Len(arrays) + 1
    /\ loading' = FALSE
    /\ UNCHANGED <<table, alive, disabled, hidden, off, activePage, orderBy, searching,
                   requests, sent, broken>>

----------------------------------------------------------------------------
(* The rest of a handler, when its response comes. *)

\* Mutant: the row's index on its page is taken for its index in the array.
RealIdxOnPage(r) == r.idx

RealIdx(r) == (r.page - 1) * PageSize + r.idx

\* JavaScript's a.splice(start, n, ...items).
Splice(a, start, n, items) ==
    SubSeq(a, 1, Min({start, Len(a)})) \o items \o SubSeq(a, start + n + 1, Len(a))

Fresh(r) == [i \in DOMAIN r.answer.data |-> [id |-> r.answer.data[i], load |-> r.n]]

Install(array) ==
    /\ arrays' = Append(arrays, array)
    /\ rows' = Len(arrays) + 1

\* loadUsers and loadRedemptions push to the array they closed over ...
LoadPush(r) ==
    IF r.start = 0 THEN Install(Fresh(r))
    ELSE /\ arrays' = [arrays EXCEPT ![r.arr] = @ \o Fresh(r)]
         /\ rows' = r.arr

\* ... loadChannels, loadTokens and loadLogs splice into a copy of it.
LoadSplice(r) ==
    Install(IF r.start = 0 THEN Fresh(r)
            ELSE Splice(arrays[r.arr], r.start * PageSize, Len(r.answer.data), Fresh(r)))

loadChannels(r) == table = "channels" /\ LoadSplice(r)
loadTokens(r) == table = "tokens" /\ LoadSplice(r)
loadLogs(r) == table = "logs" /\ LoadSplice(r)
loadUsers(r) == table = "users" /\ LoadPush(r)
loadRedemptions(r) == table = "redemptions" /\ LoadPush(r)

\* The rows that a response makes bear the status that the backend had.
NewlyOff(r) == {row \in {Fresh(r)[i] : i \in DOMAIN r.answer.data} : row.id \in r.answer.off}

Loaded(r) ==
    /\ r.op = "load"
    /\ \/ /\ r.answer.kind = "success"
          /\ \/ loadChannels(r) \/ loadTokens(r) \/ loadUsers(r) \/ loadRedemptions(r)
             \/ loadLogs(r)
          /\ off' = off \cup NewlyOff(r)
       \/ /\ r.answer.kind = "failure"
          /\ UNCHANGED <<arrays, rows, off>>
    /\ loading' = FALSE
    /\ activePage' = IF r.then = "stay" THEN activePage ELSE r.to
    /\ orderBy' = IF r.then = "unsort" THEN "" ELSE orderBy
    /\ IF orderBy' # orderBy
       THEN /\ requests' = (requests \ {r}) \cup
                            {[Request("load") EXCEPT !.arr = rows', !.page = 1, !.order = ""]}
            /\ sent' = sent + 1
       ELSE /\ requests' = requests \ {r}
            /\ UNCHANGED sent
    /\ UNCHANGED <<table, alive, disabled, hidden, searching, broken>>

Searched(r) ==
    /\ r.op = "search"
    /\ \/ /\ r.answer.kind = "success"
          /\ Install(Fresh(r))
          /\ off' = off \cup NewlyOff(r)
          /\ activePage' = 1
       \/ /\ r.answer.kind = "failure"
          /\ UNCHANGED <<arrays, rows, off, activePage>>
    /\ searching' = FALSE
    /\ requests' = requests \ {r}
    /\ UNCHANGED <<table, alive, disabled, hidden, orderBy, loading, sent, broken>>

\* A success marks the row in place; the status is the one that the response tells.
Marks(r) ==
    LET row == arrays[r.arr][RealIdx(r)]
    IN  \/ r.op = "delete" /\ hidden' = hidden \cup {row} /\ UNCHANGED off
        \/ /\ r.op # "delete"
           /\ off' = IF r.id \in r.answer.off THEN off \cup {row} ELSE off \ {row}
           /\ UNCHANGED hidden

Status == {"delete", "enable", "disable"}

manageChannel(r) == table = "channels" /\ r.op \in Status \cup {"priority"} /\ Marks(r)
manageToken(r) == table = "tokens" /\ r.op \in Status /\ Marks(r)
manageUser(r) == table = "users" /\ r.op \in Status \cup {"promote"} /\ Marks(r)
manageRedemption(r) == table = "redemptions" /\ r.op \in Status /\ Marks(r)

\* A copy of the array closed over is installed.
Managed(r) ==
    /\ r.op \in RowOp \ {"test", "balance"}
    /\ \/ /\ r.answer.kind = "success"
          /\ manageChannel(r) \/ manageToken(r) \/ manageUser(r) \/ manageRedemption(r)
          /\ Install(arrays[r.arr])
       \/ /\ r.answer.kind = "failure"
          /\ UNCHANGED <<arrays, rows, hidden, off>>
    /\ requests' = requests \ {r}
    /\ UNCHANGED <<table, alive, disabled, activePage, orderBy, loading, searching, sent, broken>>

\* A test installs its copy whether it succeeds or not.
Tested(r) ==
    /\ r.op \in {"test", "balance"}
    /\ IF r.op = "test" \/ r.answer.kind = "success" THEN Install(arrays[r.arr])
       ELSE UNCHANGED <<arrays, rows>>
    /\ requests' = requests \ {r}
    /\ UNCHANGED <<table, alive, disabled, hidden, off, activePage, orderBy, loading,
                   searching, sent, broken>>

\* On success the table is refreshed, from the state closed over.
DeletedDisabled(r) ==
    /\ r.op = "deleteDisabled"
    /\ \/ /\ r.answer.kind = "success"
          /\ loading' = TRUE
          /\ requests' = (requests \ {r}) \cup
                {[r EXCEPT !.op = "load", !.n = sent + 1, !.start = r.page - 1,
                           !.answer = NoAnswer]}
          /\ sent' = sent + 1
       \/ /\ r.answer.kind = "failure"
          /\ requests' = requests \ {r}
          /\ UNCHANGED <<loading, sent>>
    /\ UNCHANGED <<table, alive, disabled, arrays, rows, hidden, off, activePage, orderBy,
                   searching, broken>>

Respond(r) ==
    /\ r.answer # NoAnswer
    /\ Loaded(r) \/ Searched(r) \/ Managed(r) \/ Tested(r) \/ DeletedDisabled(r)

\* The request or its response is lost: the handler throws where it awaits.
Reject(r) ==
    /\ requests' = requests \ {r}
    /\ broken' = TRUE
    /\ UNCHANGED <<table, alive, disabled, arrays, rows, hidden, off, activePage, orderBy,
                   loading, searching, sent>>

----------------------------------------------------------------------------

TablesInit ==
    /\ table \in Table
    /\ alive = Id
    /\ disabled \in {{}, Match}
    /\ arrays = << <<>> >> /\ rows = 1
    /\ hidden = {} /\ off = {}
    /\ activePage = 1
    /\ orderBy = ""
    /\ loading = TRUE /\ searching = FALSE
    /\ sent = 1
    /\ requests = {[op |-> "load", n |-> 1, arr |-> 1, page |-> 1, order |-> "", start |-> 0,
                    then |-> "stay", to |-> 0, id |-> 0, idx |-> 0, answer |-> NoAnswer]}
    /\ broken = FALSE

TablesNext ==
    \/ ChangePage \/ Refresh
    \/ searchChannels \/ searchTokens \/ searchUsers \/ searchRedemptions
    \/ Manage \/ DeleteAllDisabled \/ ChangeOrder \/ Sort
    \/ \E r \in requests : Answer(r) \/ Respond(r) \/ Reject(r)

TablesSpec == TablesInit /\ [][TablesNext]_tablesVars

----------------------------------------------------------------------------

TablesTypeOK ==
    /\ table \in Table
    /\ alive \subseteq Id /\ disabled \subseteq Id
    /\ \A a \in DOMAIN arrays : \A i \in DOMAIN arrays[a] :
           arrays[a][i].id \in Id /\ arrays[a][i].load \in 1 .. sent
    /\ rows \in DOMAIN arrays
    /\ activePage \in Nat \ {0}
    /\ orderBy \in Orders
    /\ loading \in BOOLEAN /\ searching \in BOOLEAN
    /\ \A r \in requests : r.n \in 1 .. sent /\ r.arr \in DOMAIN arrays

\* An operation marks the row it was started on, whatever was loaded, sorted, searched or
\* deleted meanwhile: the position it kept still names that row in the array it kept.
RequestsKnowTheirRow ==
    \A r \in requests :
        r.op \in RowOp => /\ RealIdx(r) \in DOMAIN arrays[r.arr]
                          /\ arrays[r.arr][RealIdx(r)].id = r.id

\* A row disappears from a table only when the backend has deleted it.
HiddenRowsAreDeleted ==
    \A row \in hidden : row.id \notin alive

\* The spinner of a table turns only while what it waits for is under way: no path through
\* a handler leaves it on, but for a request that was rejected.
SpinnersStop ==
    \/ broken
    \/ /\ loading => \E r \in requests : r.op = "load"
       /\ searching => \E r \in requests : r.op = "search"

\* What a table does and shows is about the rows it says, and comes to an end.
TablesKnowTheirRows == RequestsKnowTheirRow /\ HiddenRowsAreDeleted /\ SpinnersStop

=============================================================================
