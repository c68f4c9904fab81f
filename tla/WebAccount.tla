----------------------------- MODULE WebAccount -----------------------------
(***************************************************************************)
(* The personal settings: the access token and the invitation link that    *)
(* the page asks for and shows, and the binding of a WeChat account.  A    *)
(* user has one token: a new one ends the old one.                         *)
(*                                                                         *)
(* Codes by e-mail are in WebCodes, the account's deletion is in           *)
(* WebSession.  Copies to the clipboard are left out.                      *)
(***************************************************************************)
EXTENDS Integers

CONSTANTS
    WeChatOffered,     \* status.wechat_login: whether the button is there
    MaxAccountCalls    \* bound on the requests

AccountAssumption == WeChatOffered \in BOOLEAN /\ MaxAccountCalls \in Nat
ASSUME AccountAssumption

VARIABLES
    validToken,     \* backend: the user's access token, a number, 0 for none
    weChatBound,    \* backend
    systemToken,    \* the token shown, 0 for none
    affLink,        \* whether the link is shown
    weChatCode,     \* a code was typed
    weChatModal,    \* showWeChatBindModal
    accountCalls,   \* requests under way
    accountSent,    \* requests so far
    outrun,         \* history: a token was answered after the one that replaced it
    accountLost     \* history: a request or its answer was lost

accountVars == <<validToken, weChatBound, systemToken, affLink, weChatCode, weChatModal,
                 accountCalls, accountSent, outrun, accountLost>>

onBackend == <<validToken, weChatBound>>
onPage == <<systemToken, affLink, weChatCode, weChatModal>>

\* The inputs under the buttons: each is there when it holds something.
ShownInputs ==
    (IF systemToken # 0 THEN {"systemToken"} ELSE {}) \cup (IF affLink THEN {"affLink"} ELSE {})

----------------------------------------------------------------------------

AskAccount(op) ==
    /\ accountSent < MaxAccountCalls
    /\ accountSent' = accountSent + 1
    /\ accountCalls' = accountCalls \cup {[op |-> op, n |-> accountSent + 1, answer |-> "none"]}
    /\ UNCHANGED <<onBackend, onPage, outrun, accountLost>>

\* The buttons are there while a request is under way, too.
ClickGeneral == AskAccount("token") \/ AskAccount("aff")

OpenWeChat ==
    /\ WeChatOffered /\ ~weChatModal
    /\ weChatModal' = TRUE
    /\ UNCHANGED <<onBackend, systemToken, affLink, weChatCode, accountCalls, accountSent, outrun,
                   accountLost>>

CloseWeChat ==
    /\ weChatModal
    /\ weChatModal' = FALSE
    /\ UNCHANGED <<onBackend, systemToken, affLink, weChatCode, accountCalls, accountSent, outrun,
                   accountLost>>

TypeWeChatCode ==
    /\ weChatModal
    /\ weChatCode' = ~weChatCode
    /\ UNCHANGED <<onBackend, systemToken, affLink, weChatModal, accountCalls, accountSent, outrun,
                   accountLost>>

ClickBind == weChatModal /\ weChatCode /\ AskAccount("wechat")

----------------------------------------------------------------------------

Other(c) == accountCalls \ {c}

\* The backend takes requests in any order; the token it makes replaces the one before.
BackendAnswers(c) ==
    /\ c.answer = "none"
    /\ \E answer \in {"success", "failure"} :
        /\ accountCalls' = Other(c) \cup {[c EXCEPT !.answer = answer]}
        /\ validToken' = IF answer = "success" /\ c.op = "token" THEN c.n ELSE validToken
        /\ weChatBound' = (weChatBound \/ (answer = "success" /\ c.op = "wechat"))
    /\ UNCHANGED <<onPage, accountSent, outrun, accountLost>>

\* The token made last is no longer to come.
Outran(c) ==
    c.n # validToken /\ ~ \E d \in accountCalls : d.answer = "success" /\ d.n = validToken

\* Mutant: the link stays beside a new token.
generateAccessTokenBeside(c) ==
    /\ c.op = "token" /\ c.answer = "success"
    /\ systemToken' = c.n
    /\ outrun' = (outrun \/ Outran(c))
    /\ UNCHANGED <<affLink, weChatCode, weChatModal>>

\* A new token takes the link's place ...
generateAccessToken(c) ==
    /\ c.op = "token" /\ c.answer = "success"
    /\ systemToken' = c.n
    /\ affLink' = FALSE
    /\ outrun' = (outrun \/ Outran(c))
    /\ UNCHANGED <<weChatCode, weChatModal>>

\* ... and a link the token's.
getAffLink(c) ==
    /\ c.op = "aff" /\ c.answer = "success"
    /\ affLink' = TRUE
    /\ systemToken' = 0
    /\ UNCHANGED <<weChatCode, weChatModal, outrun>>

bindWeChat(c) ==
    /\ c.op = "wechat" /\ c.answer = "success"
    /\ weChatModal' = FALSE
    /\ UNCHANGED <<systemToken, affLink, weChatCode, outrun>>

AccountAnswered(c) ==
    /\ \/ generateAccessToken(c) \/ getAffLink(c) \/ bindWeChat(c)
       \/ c.answer = "failure" /\ UNCHANGED <<onPage, outrun>>
    /\ accountCalls' = Other(c)
    /\ UNCHANGED <<onBackend, accountSent, accountLost>>

\* The request or its answer is lost, and its handler ends where it awaits.
AccountCallLost(c) ==
    /\ accountCalls' = Other(c)
    /\ accountLost' = TRUE
    /\ UNCHANGED <<onBackend, onPage, accountSent, outrun>>

----------------------------------------------------------------------------

AccountInit ==
    /\ validToken = 0 /\ weChatBound = FALSE
    /\ systemToken = 0 /\ affLink = FALSE
    /\ weChatCode = FALSE /\ weChatModal = FALSE
    /\ accountCalls = {} /\ accountSent = 0
    /\ outrun = FALSE /\ accountLost = FALSE

AccountNext ==
    \/ ClickGeneral \/ OpenWeChat \/ CloseWeChat \/ TypeWeChatCode \/ ClickBind
    \/ \E c \in accountCalls : BackendAnswers(c) \/ AccountAnswered(c) \/ AccountCallLost(c)

AccountSpec == AccountInit /\ [][AccountNext]_accountVars

----------------------------------------------------------------------------

AccountTypeOK ==
    /\ accountSent \in 0 .. MaxAccountCalls
    /\ {validToken, systemToken} \subseteq 0 .. accountSent
    /\ {weChatBound, affLink, weChatCode, weChatModal, outrun, accountLost} \subseteq BOOLEAN
    /\ accountCalls \subseteq
          [op : {"token", "aff", "wechat"}, n : 1 .. accountSent,
           answer : {"none", "success", "failure"}]

TokenCallAnswered == \E c \in accountCalls : c.op = "token" /\ c.answer = "success"

\* The page shows the token or the link, never both, whichever answer comes last; and the token it
\* shows is the one that the backend takes, unless a later one is still to be shown, was answered
\* before it, or was lost on its way.
AccountIsShown ==
    /\ ~({"systemToken", "affLink"} \subseteq ShownInputs)
    /\ systemToken # 0 /\ ~outrun /\ ~accountLost /\ ~TokenCallAnswered => systemToken = validToken
=============================================================================
