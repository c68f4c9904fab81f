----------------------------- MODULE WebSession -----------------------------
(***************************************************************************)
(* Who is logged in, as the web UI sees it: the session of the server, the *)
(* user in localStorage that the tabs of a browser share, and the user in  *)
(* the React context of each tab.                                          *)
(*                                                                         *)
(* The layouts of index.js mount an App of their own each, and a new App   *)
(* takes the stored user over; nothing else tells a tab what another did.  *)
(***************************************************************************)
EXTENDS Integers, FiniteSets

CONSTANTS
    Tab,
    User,
    None,         \* no user
    MaxLogins     \* bound on logins, logouts and deletions begun

SessionAssumption == None \notin User /\ MaxLogins \in Nat
ASSUME SessionAssumption

VARIABLES
    session,      \* server: the user of the browser's cookie
    local,        \* localStorage 'user'
    ctx,          \* ctx[t]: userState.user of a tab
    path,         \* path[t]: the kind of route a tab is on
    logins,       \* logins and logouts under way
    begun,        \* how many were begun
    writer,       \* history: the tab that last changed the stored user
    expired,      \* history: the session ended on the server's side since the last login
    mixed         \* history: two calls overlapped, or the tab did not live to see an answer

sessionVars == <<session, local, ctx, path, logins, begun, writer, expired, mixed>>

\* The kinds of route: /login, /register and /reset; the callbacks of OAuth; /; the routes under a
\* PrivateRoute; the others.  Of a record, the list is private and the forms are open, and
\* /user/reset is no "auth" page to the layout.
Private == "private"
RecordRoutes == {Private, "open"}
AccountRoutes == {"open", "auth", "oauth"}
PageRoutes == {Private, "open"}
Path == {"home"} \cup RecordRoutes \cup AccountRoutes \cup PageRoutes

Layout(p, user) ==
    IF p \in {"auth", "oauth"} THEN "auth"
    ELSE IF p = "home" /\ user = None THEN "landing"
    ELSE "app"

----------------------------------------------------------------------------
(* Navigation *)

\* PrivateRoute looks at the stored user, not at the context.
Arrive(p, stored) == IF p = Private /\ stored = None THEN "auth" ELSE p

\* loadStoredUser of a new App: a stored user replaces the context's, no user leaves it alone.
loadStoredUser(user, stored) == IF stored = None THEN user ELSE stored

\* Tab t, with `user' in its context, navigates to p.
Navigate(t, p, user, stored) ==
    LET q == Arrive(p, stored)
        remounts == Layout(q, user) # Layout(path[t], ctx[t])
    IN  /\ path' = [path EXCEPT ![t] = q]
        /\ ctx' = [ctx EXCEPT ![t] = IF remounts THEN loadStoredUser(user, stored) ELSE user]

\* What the sidebar leads to, with its brand; only the context's user makes it show.
navItems == {Private, "open"}

SidebarLinks(user) == IF user = None THEN {} ELSE navItems \cup {"home"}

\* The menu of the user in the top bar.
UserLinks(user) == IF user = None THEN {} ELSE {Private, "open"}

TopbarLinks == {"auth", "home"}

LoginLinks == {"auth"}

HomeLinks(user) == IF user = None THEN {"auth"} ELSE {Private}

Links(t) ==
    CASE Layout(path[t], ctx[t]) = "auth" -> LoginLinks
      [] Layout(path[t], ctx[t]) = "landing" -> TopbarLinks \cup HomeLinks(None)
      [] OTHER -> SidebarLinks(ctx[t]) \cup UserLinks(ctx[t])
                    \cup IF path[t] = "home" THEN HomeLinks(ctx[t]) ELSE {}

FollowLink(t) ==
    /\ \E p \in Links(t) \ {path[t]} : Navigate(t, p, ctx[t], local)
    /\ UNCHANGED <<session, local, logins, begun, writer, expired, mixed>>

\* What a page had under way goes on without it when the tab loads another.
Orphaned(t) == {IF c.tab = t THEN [c EXCEPT !.tab = None] ELSE c : c \in logins}

\* The tab loads p: it starts afresh.
Restart(t, p) ==
    /\ path' = [path EXCEPT ![t] = Arrive(p, local)]
    /\ ctx' = [ctx EXCEPT ![t] = local]
    /\ logins' = Orphaned(t)
    /\ mixed' = (mixed \/ logins' # logins)
    /\ UNCHANGED <<session, local, begun, writer, expired>>

\* A reload, an address typed, or a tab closed and another opened.
Open(t) == \E p \in Path \ {"oauth"} : Restart(t, p)

\* The redirect of showError when the server answers 401.
Unauthorized(t) ==
    /\ session = None
    /\ path[t] \in {Private, "open"}
    /\ Restart(t, "auth")

----------------------------------------------------------------------------
(* Logging in and out *)

Call(t, kind, user) ==
    /\ begun < MaxLogins /\ begun' = begun + 1
    /\ logins' = logins \cup {[n |-> begun, tab |-> t, kind |-> kind, user |-> user,
                               answer |-> "none"]}
    /\ mixed' = (mixed \/ logins # {})
    /\ UNCHANGED <<session, local, writer, expired>>

\* Enter submits the form even while it is loading.
Login(t) ==
    /\ path[t] = "auth"
    /\ \E u \in User : Call(t, "login", u)
    /\ UNCHANGED <<ctx, path>>

\* The code of the WeChat modal.
WeChatLogin(t) ==
    /\ path[t] = "auth"
    /\ \E u \in User : Call(t, "wechat", u)
    /\ UNCHANGED <<ctx, path>>

\* GitHub and Lark open in a tab of their own, which comes back and sends the code at once.
OAuthCallback(t) ==
    /\ begun < MaxLogins /\ begun' = begun + 1
    /\ path' = [path EXCEPT ![t] = "oauth"]
    /\ ctx' = [ctx EXCEPT ![t] = local]
    /\ \E u \in User :
           logins' = Orphaned(t) \cup {[n |-> begun, tab |-> t, kind |-> "oauth", user |-> u,
                                        answer |-> "none"]}
    /\ mixed' = (mixed \/ logins # {})
    /\ UNCHANGED <<session, local, writer, expired>>

Logout(t) ==
    /\ Layout(path[t], ctx[t]) = "app" /\ ctx[t] # None
    /\ Call(t, "logout", None)
    /\ UNCHANGED <<ctx, path>>

\* deleteAccount in the settings.
DeleteAccount(t) ==
    /\ path[t] = Private /\ ctx[t] # None
    /\ Call(t, "delete", None)
    /\ UNCHANGED <<ctx, path>>

\* The server handles a call, or refuses it.  A code may also bind an account to the session's.
ServerHandles(c) ==
    /\ c.answer = "none"
    /\ \E answer \in {"success", "failure"} \cup
                       (IF c.kind = "oauth" /\ session # None THEN {"bind"} ELSE {}) :
        /\ logins' = (logins \ {c}) \cup {[c EXCEPT !.answer = answer]}
        /\ IF answer = "success" /\ c.kind # "delete"
           THEN session' = c.user /\ expired' = FALSE
           ELSE UNCHANGED <<session, expired>>
    /\ UNCHANGED <<local, ctx, path, begun, writer, mixed>>

Done(c) ==
    /\ logins' = logins \ {c}
    /\ UNCHANGED <<session, begun, expired, mixed>>

\* handleSubmit of the login page: to the dashboard, or root's first password to /user/edit.
PasswordAccepted(c) ==
    /\ c.kind = "login"
    /\ \E p \in {Private, "open"} : Navigate(c.tab, p, c.user, c.user)

\* The WeChat code of the login page, and sendCode of the callbacks.
CodeAccepted(c) ==
    /\ c.kind \in {"wechat", "oauth"}
    /\ Navigate(c.tab, "home", c.user, c.user)

LoginReturns(c) ==
    /\ c.answer = "success"
    /\ PasswordAccepted(c) \/ CodeAccepted(c)
    /\ local' = c.user
    /\ writer' = c.tab
    /\ Done(c)

OAuthBinds(c) ==
    /\ c.kind = "oauth" /\ c.answer \in {"bind", "failure"}
    /\ Navigate(c.tab, Private, ctx[c.tab], local)
    /\ UNCHANGED <<local, writer>>
    /\ Done(c)

\* Mutant: the context is not told of a logout.
LogoutReturnsKeepsUser(c) ==
    /\ c.kind = "logout" /\ c.answer # "none"
    /\ local' = None
    /\ writer' = c.tab
    /\ Navigate(c.tab, "auth", ctx[c.tab], None)
    /\ Done(c)

\* logout of the Topbar and the Header, and the end of deleteAccount.
LogoutReturns(c) ==
    /\ c.kind = "logout" /\ c.answer # "none"
    /\ local' = None
    /\ writer' = c.tab
    /\ Navigate(c.tab, "auth", None, None)
    /\ Done(c)

DeletionReturns(c) ==
    /\ c.kind = "delete" /\ c.answer = "success"
    /\ logins' = (logins \ {c}) \cup {[c EXCEPT !.kind = "logout", !.answer = "none"]}
    /\ UNCHANGED <<session, local, ctx, path, begun, writer, expired, mixed>>

RefusalReturns(c) ==
    /\ c.kind \in {"login", "wechat", "delete"} /\ c.answer = "failure"
    /\ UNCHANGED <<local, ctx, path, writer>>
    /\ Done(c)

Returns(c) ==
    /\ c.tab # None
    /\ LoginReturns(c) \/ OAuthBinds(c) \/ LogoutReturns(c) \/ DeletionReturns(c)
           \/ RefusalReturns(c)

\* The answer finds no tab, or never comes.
Lost(c) ==
    /\ logins' = logins \ {c}
    /\ mixed' = TRUE
    /\ UNCHANGED <<session, local, ctx, path, begun, writer, expired>>

Expire ==
    /\ session # None
    /\ session' = None
    /\ expired' = TRUE
    /\ UNCHANGED <<local, ctx, path, logins, begun, writer, mixed>>

----------------------------------------------------------------------------

SessionInit ==
    /\ session = None /\ local = None
    /\ ctx = [t \in Tab |-> None]
    /\ path = [t \in Tab |-> "home"]
    /\ logins = {} /\ begun = 0
    /\ writer \in Tab
    /\ expired = FALSE /\ mixed = FALSE

SessionNext ==
    \/ \E t \in Tab : \/ FollowLink(t) \/ Open(t) \/ Unauthorized(t)
                     \/ Login(t) \/ WeChatLogin(t) \/ OAuthCallback(t)
                     \/ Logout(t) \/ DeleteAccount(t)
    \/ \E c \in logins : ServerHandles(c) \/ Returns(c) \/ Lost(c)
    \/ Expire

SessionSpec == SessionInit /\ [][SessionNext]_sessionVars

----------------------------------------------------------------------------

SessionTypeOK ==
    /\ session \in User \cup {None} /\ local \in User \cup {None}
    /\ ctx \in [Tab -> User \cup {None}] /\ path \in [Tab -> Path]
    /\ \A c \in logins : /\ c.tab \in Tab \cup {None}
                         /\ c.kind \in {"login", "wechat", "oauth", "logout", "delete"}
                         /\ c.answer \in {"none", "success", "failure", "bind"}
    /\ begun \in 0 .. MaxLogins
    /\ writer \in Tab

\* The tab that last logged somebody in or out shows the user that is stored, whatever it has
\* navigated to since and whatever other tabs did before.
WriterShowsTheStoredUser ==
    ctx[writer] = local

\* Calls that did not overlap and whose answers came leave the browser with the user of the
\* server's session: nobody stays logged in on one side only, unless the server ended the session
\* or refused to end it.
StoredUserIsTheSessions ==
    (logins = {} /\ ~mixed /\ ~expired /\ local # None) => session = local

\* Who the web UI shows as logged in is who is.
SessionIsShown == WriterShowsTheStoredUser /\ StoredUserIsTheSessions

=============================================================================
