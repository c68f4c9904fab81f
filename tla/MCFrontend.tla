----------------------------- MODULE MCFrontend -----------------------------
(***************************************************************************)
(* The parts of the front end one by one: each behaviour mounts one part   *)
(* and leaves the others as they begin, so that the state spaces of the    *)
(* parts are added and not multiplied.                                     *)
(***************************************************************************)
EXTENDS WebTables, WebForms, WebSettings, WebSession, WebCodes, WebPages, WebLogs, WebAccount,
        UsageDashboard, QuotaTransform, Playground, DesignSystem, Brand, Palette

VARIABLE mounted    \* the part that is mounted

vars == <<mounted, tablesVars, formsVars, settingsVars, sessionVars, codesVars, pagesVars,
          logsVars, accountVars, dashboardVars, quotaVars, playgroundVars, designVars, brandVars,
          paletteVars>>

\* The part that is mounted has all its initial states, but for the tab that wrote the stored user,
\* since tabs are alike; the others have one.
Init ==
    /\ mounted \in {"tables", "forms", "settings", "session", "codes", "pages", "logs", "account",
                    "dashboard", "quota", "playground", "design", "brand", "palette"}
    /\ mounted = "tables" \/ (table = "logs" /\ disabled = {})
    /\ mounted = "forms" \/ (form = "user" /\ isEdit = TRUE)
    /\ mounted = "settings" \/ group = "Notice"
    /\ writer = CHOOSE t \in Tab : TRUE
    /\ mounted = "codes" \/ (codeForm = "reset" /\ turnstile = "off")
    /\ mounted = "pages" \/ (page = "topup" /\ rangeDays = 1)
    /\ mounted = "logs" \/ isAdminUser = FALSE
    /\ mounted = "palette" \/ base = [r |-> 0, g |-> 0, b |-> 0]
    /\ mounted = "dashboard" \/ client = "store"
    /\ mounted = "quota" \/ (role = "admin" /\ category = "all" /\ gran = "daily")
    /\ mounted = "playground" \/ mode = "platform"
    /\ mounted = "design" \/ part = "toasts"
    /\ mounted = "brand" \/ (onTarget = FALSE /\ props = <<>> /\ prefersDark = FALSE)
    /\ TablesInit /\ FormsInit /\ SettingsInit /\ SessionInit /\ CodesInit /\ PagesInit
    /\ LogsInit /\ AccountInit
    /\ DashboardInit /\ QuotaInit /\ PlaygroundInit /\ DesignInit /\ BrandInit /\ PaletteInit

webVars == <<tablesVars, formsVars, settingsVars, sessionVars, codesVars, pagesVars, logsVars,
             accountVars>>
packageVars == <<dashboardVars, quotaVars, playgroundVars, designVars, brandVars, paletteVars>>

WebNext ==
    /\ UNCHANGED <<mounted, packageVars>>
    /\ \/ /\ mounted = "tables" /\ TablesNext
          /\ UNCHANGED <<formsVars, settingsVars, sessionVars, codesVars, pagesVars, logsVars,
                         accountVars>>
       \/ /\ mounted = "forms" /\ FormsNext
          /\ UNCHANGED <<tablesVars, settingsVars, sessionVars, codesVars, pagesVars, logsVars,
                         accountVars>>
       \/ /\ mounted = "settings" /\ SettingsNext
          /\ UNCHANGED <<tablesVars, formsVars, sessionVars, codesVars, pagesVars, logsVars,
                         accountVars>>
       \/ /\ mounted = "session" /\ SessionNext
          /\ UNCHANGED <<tablesVars, formsVars, settingsVars, codesVars, pagesVars, logsVars,
                         accountVars>>
       \/ /\ mounted = "codes" /\ CodesNext
          /\ UNCHANGED <<tablesVars, formsVars, settingsVars, sessionVars, pagesVars, logsVars,
                         accountVars>>
       \/ /\ mounted = "pages" /\ PagesNext
          /\ UNCHANGED <<tablesVars, formsVars, settingsVars, sessionVars, codesVars, logsVars,
                         accountVars>>
       \/ /\ mounted = "logs" /\ LogsNext
          /\ UNCHANGED <<tablesVars, formsVars, settingsVars, sessionVars, codesVars, pagesVars,
                         accountVars>>
       \/ /\ mounted = "account" /\ AccountNext
          /\ UNCHANGED <<tablesVars, formsVars, settingsVars, sessionVars, codesVars, pagesVars,
                         logsVars>>

PackagesNext ==
    /\ UNCHANGED <<mounted, webVars>>
    /\ \/ /\ mounted = "dashboard" /\ DashboardNext
          /\ UNCHANGED <<quotaVars, playgroundVars, designVars, brandVars, paletteVars>>
       \/ /\ mounted = "quota" /\ QuotaNext
          /\ UNCHANGED <<dashboardVars, playgroundVars, designVars, brandVars, paletteVars>>
       \/ /\ mounted = "playground" /\ PlaygroundNext
          /\ UNCHANGED <<dashboardVars, quotaVars, designVars, brandVars, paletteVars>>
       \/ /\ mounted = "design" /\ DesignNext
          /\ UNCHANGED <<dashboardVars, quotaVars, playgroundVars, brandVars, paletteVars>>
       \/ /\ mounted = "brand" /\ BrandNext
          /\ UNCHANGED <<dashboardVars, quotaVars, playgroundVars, designVars, paletteVars>>
       \/ /\ mounted = "palette" /\ PaletteNext
          /\ UNCHANGED <<dashboardVars, quotaVars, playgroundVars, designVars, brandVars>>

Spec == Init /\ [][WebNext \/ PackagesNext]_vars

----------------------------------------------------------------------------
(* The instance *)

\* Channels of named types and of others, of a status that counts and one that does not, some with
\* the models of another and some with an empty name in the list.
Channels ==
    {[id |-> 1, type |-> 17, status |-> 1, models |-> {"a", ""}, used |-> 1],
     [id |-> 2, type |-> 49, status |-> 2, models |-> {"a", "b"}, used |-> 2],
     [id |-> 3, type |-> 3, status |-> 1, models |-> {"b"}, used |-> 3]}
ChannelSets == SUBSET Channels

\* Two models on two days of the range and on one before it.
DayUsages ==
    SUBSET {[day |-> d, model |-> m, requests |-> d, tokens |-> 2] :
                d \in {1, 2, 3}, m \in {"a", "b"}}

Samples ==
    {[state |-> "closed", requests |-> 1, score |-> 100],
     [state |-> "closed", requests |-> 9, score |-> 50],
     [state |-> "half_open", requests |-> 9, score |-> 0]}

\* A Monday's first hour, the last hour of its Sunday, and the first hour of the next month; a
\* model named like none and one named like two categories; rows of two users, that have an
\* upstream cost of half a cent or none, and that have a category of their own or none.
UsageOf(time, model, told, quota, prompt) ==
    [created_at |-> time, model_name |-> model, model_category |-> told,
     username |-> IF quota = 3 THEN "u" ELSE "v", channel_id |-> 1, group |-> "g",
     quota |-> quota, count |-> 2, prompt_tokens |-> prompt, completion_tokens |-> 1,
     total_use_time |-> 5, error_count |-> 1,
     upstream_cost |-> IF quota = 3 THEN Undefined ELSE quota]
UsageRecords ==
    UNION {{UsageOf(t, m, "", 1, 0), UsageOf(t, m, "", 3, 2), UsageOf(t, m, "video", 1, 2)} :
               t \in {0, 167, 744}, m \in {{"gpt"}, {"tts", "embed"}}}

\* Bytes at both ends, about the middle, and such that a colour is kept worst.
Levels == {0, 1, 2, 60, 127, 128, 200, 228, 230, 254, 255}

\* Two endpoints of a mode, of which one streams, and one of the other, which streams too.
ThreeEndpoints == <<"a", "b", "c">>
Modes == [e \in {"a", "b", "c"} |-> IF e = "c" THEN "platform" ELSE "passthrough"]
Matches ==
    [e \in {"a", "b", "c"} |->
        [name |-> IF e = "a" THEN 0 ELSE 80, path |-> 0, summary |-> 0, param |-> 0,
         description |-> 0, child |-> IF e = "c" THEN 40 ELSE 0]]

----------------------------------------------------------------------------

\* What the packages compute: the numbers of the usage dashboard agree, whatever they are grouped by
\* (transforms/quota-transform.ts), and the colours derived for a brand are of the kind they are
\* named for (brand/color-utils.ts).  A part that is not mounted stays as it begins, and as the
\* mounted part begins too.
PackagesCompute ==
    /\ mounted = "quota" => TrendsAgree
    /\ mounted = "palette" => ColoursKeepTheirKind

\* Every variable of every part has its type.
FrontendTypeOK ==
    /\ TablesTypeOK /\ FormsTypeOK /\ SettingsTypeOK /\ SessionTypeOK /\ CodesTypeOK
    /\ PagesTypeOK /\ LogsTypeOK /\ AccountTypeOK
    /\ DashboardTypeOK /\ QuotaTypeOK /\ PlaygroundTypeOK /\ DesignTypeOK
    /\ BrandTypeOK /\ PaletteTypeOK

=============================================================================
