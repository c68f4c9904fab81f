------------------------------ MODULE WebLogs ------------------------------
(***************************************************************************)
(* What the logs' page asks for: the rows and the total of the query that  *)
(* its form holds.  Its pages and orders are those of WebTables; here a    *)
(* page of rows is the query that it answers.                              *)
(*                                                                         *)
(* A handler asks with the form as it was rendered when it was called, and *)
(* responses come in any order.  searchLogs is bound to no field.          *)
(***************************************************************************)
EXTENDS Integers, Sequences

CONSTANTS
    LogType,       \* the types that may be selected; 0 is all, 5 is tests
    MaxLogEdits,   \* bound on the edits of the form
    MaxLogCalls    \* bound on the requests

LogsAssumption ==
    /\ 0 \in LogType /\ LogType \subseteq 0 .. 5
    /\ MaxLogEdits \in Nat /\ MaxLogCalls \in Nat \ {0}
ASSUME LogsAssumption

VARIABLES
    isAdminUser,   \* fixed when the page is mounted
    logInputs,     \* the fields that are not as they begin
    logType,
    logs,          \* the rows, page by page
    logPage,       \* activePage
    logLoading,
    showStat,
    stat,          \* the query of the total, or Zero
    logCalls,      \* requests under way
    logSent,       \* requests so far
    logEdits,      \* edits so far
    logDetail,     \* what the dialog shows: the query of its row, or NoDetail
    logsAsked,     \* history: the query of the last refresh
    logsMixed,     \* history: a page was asked for with another query than the rows'
    logsCrossed,   \* history: a refresh began before the answer to another request for rows
    logRefused,    \* history: a request failed
    logsChanged    \* history: the form changed since a total was asked for

logsVars == <<isAdminUser, logInputs, logType, logs, logPage, logLoading, showStat, stat,
              logCalls, logSent, logEdits, logDetail, logsAsked, logsMixed, logsCrossed,
              logRefused, logsChanged>>

Zero == [total |-> 0]
NoDetail == [row |-> "none"]

\* The fields of the form; the last two are the administrator's.
LogFields ==
    {"token_name", "model_name", "start_timestamp", "end_timestamp"}
    \cup (IF isAdminUser THEN {"channel", "username"} ELSE {})

\* The rows asked for: all users' or one's own, of a type, with the fields as they are.
LogQuery(type, inputs) == [all |-> isAdminUser, type |-> type, inputs |-> inputs]

\* Mutant: the total is asked for without the channel.
StatQueryOfAnyChannel ==
    [all |-> isAdminUser, type |-> logType, inputs |-> logInputs \ {"channel"}]

\* getLogStat and getLogSelfStat.
StatQuery == [all |-> isAdminUser, type |-> logType, inputs |-> logInputs]

RowCalls == {c \in logCalls : c.op = "load"}
StatCalls == {c \in logCalls : c.op = "stat"}

----------------------------------------------------------------------------

AskLogs(c) ==
    /\ logSent < MaxLogCalls
    /\ logSent' = logSent + 1
    /\ logCalls' = logCalls \cup {c}

\* refresh, with the form as it is.
RefreshRows(type, inputs) ==
    /\ AskLogs([op |-> "load", n |-> logSent + 1, query |-> LogQuery(type, inputs),
                page |-> 1, closed |-> logs])
    /\ logLoading' = TRUE
    /\ logPage' = 1
    /\ logsAsked' = LogQuery(type, inputs)
    /\ logsCrossed' = (logsCrossed \/ RowCalls # {})

handleInputChange ==
    /\ logEdits < MaxLogEdits
    /\ logEdits' = logEdits + 1
    /\ \E name \in LogFields :
        logInputs' = IF name \in logInputs THEN logInputs \ {name} ELSE logInputs \cup {name}
    /\ logsChanged' = (logsChanged \/ showStat \/ StatCalls # {})
    /\ UNCHANGED <<isAdminUser, logType, logs, logPage, logLoading, showStat, stat, logCalls,
                   logSent, logDetail, logsAsked, logsMixed, logsCrossed, logRefused>>

\* The button under the form, and the one under the table.
SubmitLogs ==
    /\ RefreshRows(logType, logInputs)
    /\ UNCHANGED <<isAdminUser, logInputs, logType, logs, showStat, stat, logEdits, logDetail,
                   logsMixed, logRefused, logsChanged>>

\* The effect of a type is a refresh with it.
ChooseLogType ==
    /\ logEdits < MaxLogEdits
    /\ logEdits' = logEdits + 1
    /\ \E type \in LogType \ {logType} :
        /\ logType' = type
        /\ RefreshRows(type, logInputs)
    /\ logsChanged' = (logsChanged \/ showStat \/ StatCalls # {})
    /\ UNCHANGED <<isAdminUser, logInputs, logs, showStat, stat, logDetail, logsMixed,
                   logRefused>>

\* A page past the rows is loaded first, with the form as it is by now.
onPaginationChange ==
    \/ /\ \E p \in 1 .. Len(logs) \ {logPage} : logPage' = p
       /\ UNCHANGED <<logCalls, logSent, logsMixed>>
    \/ /\ logPage # Len(logs) + 1
       /\ AskLogs([op |-> "load", n |-> logSent + 1, query |-> LogQuery(logType, logInputs),
                page |-> Len(logs) + 1, closed |-> logs])
       /\ logsMixed' = (logsMixed \/ LogQuery(logType, logInputs) # logsAsked \/ RowCalls # {})
       /\ UNCHANGED logPage
LogsPage ==
    /\ onPaginationChange
    /\ UNCHANGED <<isAdminUser, logInputs, logType, logs, logLoading, showStat, stat, logEdits,
                   logDetail, logsAsked, logsCrossed, logRefused, logsChanged>>

\* The eye is there until a total is shown.
handleEyeClick ==
    /\ ~showStat
    /\ AskLogs([op |-> "stat", n |-> logSent + 1, query |-> StatQuery])
    /\ UNCHANGED <<isAdminUser, logInputs, logType, logs, logPage, logLoading, showStat, stat,
                   logEdits, logDetail, logsAsked, logsMixed, logsCrossed, logRefused,
                   logsChanged>>

\* A click on a row opens its dialog, over the page; the page stays as it is under it.
openDetailModal ==
    /\ logDetail = NoDetail
    /\ logPage \in DOMAIN logs
    /\ logDetail' = logs[logPage]
    /\ UNCHANGED <<isAdminUser, logInputs, logType, logs, logPage, logLoading, showStat, stat,
                   logCalls, logSent, logEdits, logsAsked, logsMixed, logsCrossed, logRefused,
                   logsChanged>>

CloseDetail ==
    /\ logDetail # NoDetail
    /\ logDetail' = NoDetail
    /\ UNCHANGED <<isAdminUser, logInputs, logType, logs, logPage, logLoading, showStat, stat,
                   logCalls, logSent, logEdits, logsAsked, logsMixed, logsCrossed, logRefused,
                   logsChanged>>

----------------------------------------------------------------------------

\* The rows in place of the page asked for in the array closed over, or none any more.
WithPage(c, found) ==
    IF c.page = 1 THEN IF found THEN <<c.query>> ELSE <<>>
    ELSE IF found THEN SubSeq(c.closed, 1, c.page - 1) \o <<c.query>> ELSE c.closed

RowsAnswered(c) ==
    /\ c.op = "load"
    /\ \/ /\ \E found \in BOOLEAN : logs' = WithPage(c, found)
          /\ UNCHANGED logRefused
       \/ /\ logRefused' = TRUE
          /\ UNCHANGED logs
    /\ logLoading' = FALSE
    /\ logPage' = IF c.page = 1 THEN logPage ELSE c.page
    /\ UNCHANGED <<showStat, stat>>

\* The handler was called when the total was hidden, so that it is shown, refused or not.
StatAnswered(c) ==
    /\ c.op = "stat"
    /\ \/ /\ stat' = c.query
          /\ UNCHANGED logRefused
       \/ /\ logRefused' = TRUE
          /\ UNCHANGED stat
    /\ showStat' = TRUE
    /\ UNCHANGED <<logs, logLoading, logPage>>

LogsAnswered ==
    /\ \E c \in logCalls :
        /\ RowsAnswered(c) \/ StatAnswered(c)
        /\ logCalls' = logCalls \ {c}
    /\ UNCHANGED <<isAdminUser, logInputs, logType, logSent, logEdits, logDetail, logsAsked,
                   logsMixed, logsCrossed, logsChanged>>

\* A request that is rejected ends its handler where it awaits.
LogsRejected ==
    /\ \E c \in logCalls : logCalls' = logCalls \ {c}
    /\ logRefused' = TRUE
    /\ UNCHANGED <<isAdminUser, logInputs, logType, logs, logPage, logLoading, showStat, stat,
                   logSent, logEdits, logDetail, logsAsked, logsMixed, logsCrossed, logsChanged>>

----------------------------------------------------------------------------

LogsInit ==
    /\ isAdminUser \in BOOLEAN
    /\ logInputs = {} /\ logType = 0
    /\ logs = <<>> /\ logPage = 1 /\ logLoading = TRUE
    /\ showStat = FALSE /\ stat = Zero
    /\ logsAsked = LogQuery(0, {})
    /\ logCalls = {[op |-> "load", n |-> 1, query |-> logsAsked, page |-> 1, closed |-> <<>>]}
    /\ logSent = 1 /\ logEdits = 0
    /\ logDetail = NoDetail
    /\ logsMixed = FALSE /\ logsCrossed = FALSE /\ logRefused = FALSE /\ logsChanged = FALSE

LogsNext ==
    \/ handleInputChange \/ SubmitLogs \/ ChooseLogType \/ LogsPage
    \/ handleEyeClick \/ openDetailModal \/ CloseDetail
    \/ LogsAnswered \/ LogsRejected

LogsSpec == LogsInit /\ [][LogsNext]_logsVars

----------------------------------------------------------------------------

LogsTypeOK ==
    /\ isAdminUser \in BOOLEAN
    /\ logInputs \subseteq LogFields /\ logType \in LogType
    /\ logPage \in 1 .. MaxLogCalls + 1
    /\ {logLoading, showStat, logsMixed, logsCrossed, logRefused, logsChanged} \subseteq BOOLEAN
    /\ \A c \in logCalls : c.op \in {"load", "stat"} /\ c.n \in 1 .. logSent
    /\ logSent \in 1 .. MaxLogCalls /\ logEdits \in 0 .. MaxLogEdits

\* At rest the rows answer the query of the last refresh, all of them, unless a refresh overlapped
\* another request for rows, a page was asked for with a changed form, or a request failed.
RowsAnswerTheQuery ==
    RowCalls = {} /\ ~logsCrossed /\ ~logsMixed /\ ~logRefused =>
        \A i \in DOMAIN logs : logs[i] = logsAsked

\* A total that is shown, or asked for behind one, is that of the query in the form, unless the
\* form was changed since or a request failed: no handler asks for it again.
TotalIsOfTheQuery ==
    /\ showStat /\ ~logsChanged /\ ~logRefused => stat = LogQuery(logType, logInputs)
    /\ showStat => \A c \in StatCalls : ~logsChanged => c.query = LogQuery(logType, logInputs)

\* The type selected is the one that was asked for last: no type waits for a click.
TypeWasAsked == logsAsked.type = logType

\* A total that has come is shown, however many clicks are answered after it.
TotalIsShown == stat # Zero => showStat

\* The rows and the total of the logs are of what the page says it shows.
LogsAnswerTheirQuery ==
    RowsAnswerTheQuery /\ TotalIsOfTheQuery /\ TotalIsShown /\ TypeWasAsked

\* A total that is shown stays shown, whichever clicks are answered after it.
TotalStaysShown == [][showStat => showStat']_logsVars
=============================================================================
