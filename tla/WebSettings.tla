---------------------------- MODULE WebSettings ----------------------------
(***************************************************************************)
(* The settings of the web UI: system, operation and other settings.       *)
(*                                                                         *)
(* A form shows the options of the server.  Texts are edited and saved by  *)
(* groups, one request per option that differs from what was loaded, each  *)
(* sent when the one before it has been answered; a switch is sent at      *)
(* once.  The library's Form takes no clicks while it is `loading'.        *)
(***************************************************************************)
EXTENDS Integers, Sequences, FiniteSets, SequencesExt

CONSTANTS
    Group,        \* the groups that may be on the screen
    MaxEdits,     \* bound on the edits of texts
    MaxSaves      \* bound on the saves and switches

\* A group of the system settings, of the operation settings, an option of the other settings.
SystemGroups ==
    {"general", "emailDomain", "SMTP", "GitHub", "Lark", "WeChat", "Turnstile"}
OperationGroups == {"monitor", "ratio", "quota", "operation"}
OtherGroups == {"Notice", "SystemName", "Theme", "Logo", "HomePageContent", "About", "Footer"}
Groups == SystemGroups \cup OperationGroups \cup OtherGroups

SettingsAssumption ==
    Group \subseteq Groups /\ MaxEdits \in Nat /\ MaxSaves \in Nat
ASSUME SettingsAssumption

\* The options that the button of a group saves, in the order it saves them.
submitServerAddress == <<"ServerAddress">>
submitEmailDomainWhitelist == <<"EmailDomainWhitelist">>
submitSMTP == <<"SMTPServer", "SMTPAccount", "SMTPFrom", "SMTPPort", "SMTPToken">>
submitWeChat == <<"WeChatServerAddress", "WeChatAccountQRCodeImageURL", "WeChatServerToken">>
submitGitHubOAuth == <<"GitHubClientId", "GitHubClientSecret">>
submitLarkOAuth == <<"LarkClientId", "LarkClientSecret">>
submitTurnstile == <<"TurnstileSiteKey", "TurnstileSecretKey">>
submitMonitor == <<"ChannelDisableThreshold", "QuotaRemindThreshold">>
submitRatio == <<"ModelRatio", "GroupRatio", "CompletionRatio">>
submitQuota == <<"QuotaForNewUser", "QuotaForInvitee", "QuotaForInviter", "PreConsumedQuota">>
submitGeneral == <<"TopUpLink", "ChatLink", "QuotaPerUnit", "RetryTimes">>

Options(g) ==
    CASE g = "general" -> submitServerAddress
      [] g = "emailDomain" -> submitEmailDomainWhitelist
      [] g = "SMTP" -> submitSMTP
      [] g = "WeChat" -> submitWeChat
      [] g = "GitHub" -> submitGitHubOAuth
      [] g = "Lark" -> submitLarkOAuth
      [] g = "Turnstile" -> submitTurnstile
      [] g = "monitor" -> submitMonitor
      [] g = "ratio" -> submitRatio
      [] g = "quota" -> submitQuota
      [] g = "operation" -> submitGeneral
      [] g \in OtherGroups -> <<g>>

\* The texts that the form lets a user edit.  The whitelist is not among them, the dropdown edits
\* a list of its own; saving it depends on a text of another group, though.
GeneralTexts == {"ServerAddress"}
EmailDomainTexts == {"SMTPToken"}
SMTPTexts == ToSet(submitSMTP)
GitHubTexts == ToSet(submitGitHubOAuth)
LarkTexts == ToSet(submitLarkOAuth)
WeChatTexts == ToSet(submitWeChat)
TurnstileTexts == ToSet(submitTurnstile)
QuotaTexts == ToSet(submitQuota)
RatioTexts == ToSet(submitRatio)
MonitorTexts == ToSet(submitMonitor)
OperationTexts == ToSet(submitGeneral)
OtherTexts(g) == {g}

\* Saved whether they differ or not.
Always == {"ServerAddress"} \cup OtherGroups
\* Never sent blank; all but the port are never told by the server either.
NotBlank == {"SMTPPort", "SMTPToken", "WeChatServerToken", "GitHubClientSecret",
             "LarkClientSecret", "TurnstileSecretKey"}
Secret == NotBlank \ {"SMTPPort"}
Ratios == {"ModelRatio", "GroupRatio", "CompletionRatio"}

VARIABLES
    group,        \* the group on the screen, with a switch
    server,       \* the options of the server
    shown,        \* inputs: what the form shows
    domains,      \* EmailDomainWhitelist: what the dropdown of domains shows
    origin,       \* originInputs: what was loaded
    fetched,      \* what the server answered to getOptions: not yet, lost, refused or its options
    saves,        \* saves under way: what each has still to send, by place; the first is being sent
    settingsLoading,
    warned,       \* showPasswordWarningModal
    edits, saved, \* how many edits and saves so far
    clean,        \* history: the last save sent all there was to send, nothing edited since
    early,        \* history: something was saved before the options were loaded
    rejected      \* history: a save was rejected

settingsVars == <<group, server, shown, domains, origin, fetched, saves, settingsLoading, warned,
                  edits, saved, clean, early, rejected>>

Texts ==
    CASE group = "general" -> GeneralTexts
      [] group = "emailDomain" -> EmailDomainTexts
      [] group = "SMTP" -> SMTPTexts
      [] group = "GitHub" -> GitHubTexts
      [] group = "Lark" -> LarkTexts
      [] group = "WeChat" -> WeChatTexts
      [] group = "Turnstile" -> TurnstileTexts
      [] group = "quota" -> QuotaTexts
      [] group = "ratio" -> RatioTexts
      [] group = "monitor" -> MonitorTexts
      [] group = "operation" -> OperationTexts
      [] OTHER -> OtherTexts(group)

Fields == Texts \cup ToSet(Options(group)) \cup {"switch"}

\* Values: "v" and "w" stand for texts, valid JSON for a ratio; "absent" for undefined.
Values(f) ==
    CASE f = "switch" -> {"true", "false"}
      [] f \in Ratios -> {"v", "w", "invalid"}
      [] OTHER -> {"v", "w", ""}

Blank == [f \in Fields |-> IF f \in Always THEN "" ELSE "absent"]

----------------------------------------------------------------------------
(* Loading the options *)

ServerAnswersOptions ==
    /\ fetched.kind = "asked"
    /\ fetched' \in {[kind |-> "refused", data |-> Blank],
                     [kind |-> "options", data |-> [f \in Fields |->
                         IF f \in Secret THEN "absent" ELSE server[f]]]}
    /\ UNCHANGED <<group, server, shown, domains, origin, saves, settingsLoading, warned, edits, saved,
                   clean, early, rejected>>

\* The other settings keep no originInputs.
getOptions ==
    /\ fetched.kind = "options"
    /\ shown' = fetched.data
    /\ domains' = IF group = "emailDomain" THEN fetched.data["EmailDomainWhitelist"] ELSE domains
    /\ origin' = IF group \in OtherGroups THEN origin ELSE fetched.data
    /\ fetched' = [fetched EXCEPT !.kind = "loaded"]
    /\ clean' = FALSE
    /\ UNCHANGED <<group, server, saves, settingsLoading, warned, edits, saved, early, rejected>>

----------------------------------------------------------------------------
(* Editing and saving *)

EditOption ==
    /\ ~settingsLoading /\ ~warned
    /\ edits < MaxEdits /\ edits' = edits + 1
    /\ \E f \in Texts : \E v \in Values(f) \ {shown[f]} : shown' = [shown EXCEPT ![f] = v]
    /\ clean' = FALSE
    /\ UNCHANGED <<group, server, domains, origin, fetched, saves, settingsLoading, warned, saved,
                   early, rejected>>

\* Adding and removing domains leaves inputs.EmailDomainWhitelist alone, which is what is saved.
EditDomains ==
    /\ group = "emailDomain" /\ ~settingsLoading /\ ~warned
    /\ edits < MaxEdits /\ edits' = edits + 1
    /\ domains' \in {"v", "w", ""} \ {domains}
    /\ clean' = FALSE
    /\ UNCHANGED <<group, server, shown, origin, fetched, saves, settingsLoading, warned, saved,
                   early, rejected>>

Differs(f) ==
    /\ f \in Always \/ origin[f] # shown[f]
    /\ f \in NotBlank => shown[f] # ""
    /\ f = "EmailDomainWhitelist" => shown["SMTPToken"] # "" /\ fetched.kind = "loaded"

Invalid(f) == f \in Ratios /\ shown[f] \in {"invalid", ""}

\* The options that differ, up to the first of them that is a ratio and not valid JSON.
ToSend ==
    LET differing == {i \in DOMAIN Options(group) : Differs(Options(group)[i])}
    IN  [i \in {j \in differing : \A k \in differing : k <= j => ~Invalid(Options(group)[k])} |->
            Options(group)[i]]

Begin(queue, good) ==
    /\ ~settingsLoading
    /\ saved < MaxSaves /\ saved' = saved + 1
    /\ saves' = IF DOMAIN queue = {} THEN saves
                ELSE saves \cup {[n |-> saved, good |-> good,
                                  queue |-> [i \in DOMAIN queue |->
                                      [key |-> queue[i],
                                       value |-> IF queue[i] # "switch" THEN shown[queue[i]]
                                                 ELSE IF shown["switch"] = "true" THEN "false"
                                                 ELSE "true"]]]}
    /\ settingsLoading' = (DOMAIN queue # {})
    /\ early' = (early \/ fetched.kind # "loaded")
    /\ UNCHANGED <<group, server, shown, domains, origin, fetched, edits, rejected>>

\* submitSMTP, submitWeChat, ..., submitConfig(group).
SaveGroup ==
    LET good == \A f \in Texts : ~Invalid(f)
    IN  /\ ~warned
        /\ Begin(ToSend, good)
        /\ clean' = (DOMAIN ToSend = {} /\ good)
        /\ UNCHANGED warned

\* Turning password login off asks first; so may the switch of the system settings.
FlipSwitch ==
    /\ group \notin OtherGroups /\ ~warned
    /\ \/ Begin(<<"switch">>, FALSE) /\ UNCHANGED warned
       \/ /\ group = "general" /\ shown["switch"] = "true" /\ ~settingsLoading
          /\ warned' = TRUE
          /\ UNCHANGED <<group, server, shown, domains, origin, fetched, saves, settingsLoading, edits,
                         saved, early, rejected>>
    /\ clean' = FALSE

ConfirmWarning ==
    /\ warned
    /\ warned' = FALSE
    /\ \/ Begin(<<"switch">>, FALSE)
       \/ UNCHANGED <<group, server, shown, domains, origin, fetched, saves, settingsLoading, edits,
                      saved, early, rejected>>
    /\ clean' = FALSE

First(save) == Min(DOMAIN save.queue)

\* A save when its first option has been answered.
Rest(save, success) ==
    [save EXCEPT !.queue = [i \in DOMAIN @ \ {First(save)} |-> @[i]], !.good = @ /\ success]

\* Mutant: the form shows the new value whether the server took it or not.
OptionAnsweredShowsAlways ==
    \E save \in saves : \E success \in BOOLEAN :
        LET option == save.queue[First(save)]
            rest == Rest(save, success)
        IN  /\ server' = IF success THEN [server EXCEPT ![option.key] = option.value] ELSE server
            /\ shown' = [shown EXCEPT ![option.key] = option.value]
            /\ saves' = (saves \ {save}) \cup (IF DOMAIN rest.queue = {} THEN {} ELSE {rest})
            /\ settingsLoading' = (DOMAIN rest.queue # {})
            /\ clean' = (DOMAIN rest.queue = {} /\ rest.good)
            /\ UNCHANGED <<group, domains, origin, fetched, warned, edits, saved, early, rejected>>

\* updateOption, and what its caller still has to send.  A refusal does not stop the caller.
OptionAnswered ==
    \E save \in saves : \E success \in BOOLEAN :
        LET option == save.queue[First(save)]
            rest == Rest(save, success)
        IN  /\ IF success
               THEN /\ server' = [server EXCEPT ![option.key] = option.value]
                    /\ shown' = [shown EXCEPT ![option.key] = option.value]
               ELSE UNCHANGED <<server, shown>>
            /\ saves' = (saves \ {save}) \cup (IF DOMAIN rest.queue = {} THEN {} ELSE {rest})
            /\ settingsLoading' = (DOMAIN rest.queue # {})
            /\ clean' = (DOMAIN rest.queue = {} /\ rest.good)
            /\ UNCHANGED <<group, domains, origin, fetched, warned, edits, saved, early, rejected>>

\* The caller throws and the form stays loading, whether the server got the option or not.
OptionRejected ==
    /\ \E save \in saves :
        LET option == save.queue[First(save)]
        IN  /\ server' \in {server, [server EXCEPT ![option.key] = option.value]}
            /\ saves' = saves \ {save}
    /\ rejected' = TRUE
    /\ UNCHANGED <<group, shown, domains, origin, fetched, settingsLoading, warned, edits, saved, clean,
                   early>>

----------------------------------------------------------------------------

SettingsInit ==
    /\ group \in Group
    /\ server = [f \in Fields |-> IF f = "switch" THEN "true" ELSE "v"]
    /\ shown = [f \in Fields |-> ""]
    /\ domains = ""
    /\ origin = [f \in Fields |-> "absent"]
    /\ fetched = [kind |-> "asked", data |-> Blank]
    /\ saves = {}
    /\ settingsLoading = FALSE /\ warned = FALSE
    /\ edits = 0 /\ saved = 0
    /\ clean = FALSE /\ early = FALSE /\ rejected = FALSE

SettingsNext ==
    \/ ServerAnswersOptions \/ getOptions
    \/ EditOption \/ EditDomains \/ SaveGroup \/ FlipSwitch \/ ConfirmWarning
    \/ OptionAnswered \/ OptionRejected

SettingsSpec == SettingsInit /\ [][SettingsNext]_settingsVars

----------------------------------------------------------------------------

SettingsTypeOK ==
    /\ group \in Group /\ domains \in {"v", "w", ""}
    /\ \A f \in Fields : {server[f], shown[f], origin[f]} \subseteq Values(f) \cup {"", "absent"}
    /\ \A save \in saves : DOMAIN save.queue # {} /\ \A i \in DOMAIN save.queue :
           save.queue[i].key \in Fields
    /\ fetched.kind \in {"asked", "refused", "options", "loaded"}
    /\ settingsLoading \in BOOLEAN /\ warned \in BOOLEAN
    /\ edits \in 0 .. MaxEdits /\ saved \in 0 .. MaxSaves

\* A switch shows what the server has, once the options are loaded and nothing is under way.
SwitchesShowTheServer ==
    (fetched.kind = "loaded" /\ saves = {} /\ ~early /\ ~rejected)
        => shown["switch"] = server["switch"]

\* After a save of which nothing was refused, the server has what the form shows.  The code
\* makes three exceptions: blanks that it does not send, an option put back to the value that was
\* loaded, because originInputs is never brought up to date, and the list of domains, which is
\* never sent.
SavedIsShown ==
    (clean /\ fetched.kind = "loaded" /\ ~early /\ ~rejected /\ group # "emailDomain")
        => \A f \in ToSet(Options(group)) :
               \/ server[f] = shown[f]
               \/ shown[f] = origin[f]
               \/ f \in NotBlank /\ shown[f] = ""

\* The settings show what the server has, but where a save was refused or lost.
SettingsShowTheServer == SwitchesShowTheServer /\ SavedIsShown

=============================================================================
