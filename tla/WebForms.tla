------------------------------ MODULE WebForms ------------------------------
(***************************************************************************)
(* The forms of the web UI that create or edit a record: channel, token,   *)
(* user, redemption.                                                       *)
(*                                                                         *)
(* An edit form loads its record, and the library's Form takes no clicks   *)
(* while it is `loading'.  submit() works on the object that is the        *)
(* form's state: what it changes in place stays changed.                   *)
(***************************************************************************)
EXTENDS Integers, FiniteSets

CONSTANTS
    Form,         \* the forms that may be mounted
    Model,        \* names of models that the backend knows
    Custom,       \* names that only a user types
    Complete,     \* credentials of which every field is filled in
    MaxSubmits    \* bound on the submits that the user makes

FormsAssumption ==
    /\ Form \subseteq {"channel", "token", "user", "addUser", "redemption"}
    /\ Model # {} /\ Model \cap Custom = {}
    /\ Complete \cap {"", "typed", "blank", "absent", "partial", "undefined"} = {}
    /\ MaxSubmits \in Nat
ASSUME FormsAssumption

VARIABLES
    form,         \* the form mounted
    isEdit,       \* it edits a record rather than create one
    inputs,       \* the form's state
    config,       \* the credentials of a channel that make up its key
    formLoading,
    knownModels,  \* originModelOptions and fullModels, or a token's modelOptions
    modelOptions, \* what the dropdown of models offers
    awaited,      \* loads under way
    formCalls,    \* how many submits are under way
    submitted,    \* history: the body sent last, while any is under way
    submits,      \* history: how often submit ran
    record        \* history: the record is "unknown", "loaded" or "failed" to load

formsVars == <<form, isEdit, inputs, config, formLoading, knownModels, modelOptions,
               awaited, formCalls, submitted, submits, record>>

\* Types of channel: a plain one, one whose key is made of credentials (33 and 42), a proxy (43),
\* one of which `other' holds the version of its API (3).
ChannelType == {"plain", "credentials", "proxy", "azure"}
\* Credentials: all blank, none of the fields present in what was saved, some of those filled in,
\* all filled in.
Config == {"blank", "absent", "partial"} \cup Complete

\* models is the set that the array holds; joined: the array has become a string.
originInputs ==
    [name |-> "", type |-> "plain", key |-> "", other |-> "", models |-> {}, joined |-> FALSE,
     expires |-> "never", mapping |-> "valid"]

BasicModels(type) == IF type = "proxy" THEN {} ELSE {CHOOSE m \in Model : TRUE}

----------------------------------------------------------------------------
(* Loading *)

FormOptions(known, models) ==
    IF form = "channel" THEN known \cup models ELSE known

\* What the backend holds for the record replaces what the form showed.
loadChannel ==
    /\ form = "channel"
    /\ \E ty \in ChannelType : \E ms \in {{}, Custom} :
           inputs' = [originInputs EXCEPT !.name = "n", !.type = ty, !.models = ms]
    /\ config' \in {"blank", "absent"} \cup Complete

loadToken ==
    /\ form = "token"
    /\ \E ex \in {"never", "date"} : \E ms \in {{}, Custom} :
           inputs' = [originInputs EXCEPT !.name = "n", !.expires = ex, !.models = ms]
    /\ UNCHANGED config

loadUser ==
    /\ form = "user"
    /\ inputs' = [originInputs EXCEPT !.name = "n"]
    /\ UNCHANGED config

loadRedemption ==
    /\ form = "redemption"
    /\ inputs' = [originInputs EXCEPT !.name = "n"]
    /\ UNCHANGED config

RecordLoaded ==
    /\ "load" \in awaited
    /\ \/ /\ loadChannel \/ loadToken \/ loadUser \/ loadRedemption
          /\ record' = "loaded"
       \/ /\ UNCHANGED <<inputs, config>>
          /\ record' = "failed"
    /\ modelOptions' = FormOptions(knownModels, inputs'.models)
    /\ formLoading' = FALSE
    /\ awaited' = awaited \ {"load"}
    /\ UNCHANGED <<form, isEdit, knownModels, formCalls, submitted, submits>>

\* A rejected load leaves the form loading, except that loadToken catches it.
LoadRejected ==
    /\ "load" \in awaited
    /\ formLoading' = (form # "token")
    /\ record' = "failed"
    /\ awaited' = awaited \ {"load"}
    /\ UNCHANGED <<form, isEdit, inputs, config, knownModels, modelOptions, formCalls,
                   submitted, submits>>

\* fetchModels and loadAvailableModels, before or after the record; failures are caught.
ModelsFetched ==
    /\ "models" \in awaited
    /\ knownModels' \in {Model, {}}
    /\ modelOptions' = FormOptions(knownModels', inputs.models)
    /\ awaited' = awaited \ {"models"}
    /\ UNCHANGED <<form, isEdit, inputs, config, formLoading, formCalls, submitted, submits,
                   record>>

----------------------------------------------------------------------------
(* Editing *)

\* Mutant: the form takes clicks while it is loading.
OfferedAlways == TRUE

Offered == ~formLoading

\* What the form of channels offers, by the type chosen.
OffersOther == inputs.type = "azure"
OffersModels == inputs.type # "proxy"
OffersMapping == inputs.type # "proxy"
OffersConfig == inputs.type = "credentials"
OffersKey == inputs.type # "credentials"

ChannelFields ==
    {"name", "type"}
        \cup {f \in {"other", "models", "mapping", "config", "key"} :
                CASE f = "other" -> OffersOther
                  [] f = "models" -> OffersModels
                  [] f = "mapping" -> OffersMapping
                  [] f = "config" -> OffersConfig
                  [] f = "key" -> OffersKey}

\* The fields that a form requires stand and fall together: a name, and a new user's password.
TokenFields == {"name", "models", "expires"}
UserFields == {"name"}
AddUserFields == {"name"}
RedemptionFields == {"name"}

FormFields ==
    CASE form = "channel" -> ChannelFields
      [] form = "token" -> TokenFields
      [] form = "user" -> UserFields
      [] form = "addUser" -> AddUserFields
      [] form = "redemption" -> RedemptionFields

\* handleInputChange; the options of the dropdown follow in an effect.
Enter(field, in) ==
    /\ Offered /\ field \in FormFields
    /\ inputs' = in
    /\ modelOptions' = IF in.models = inputs.models THEN modelOptions
                       ELSE FormOptions(knownModels, in.models)
    /\ UNCHANGED <<form, isEdit, formLoading, knownModels, awaited, formCalls, submitted,
                   submits, record>>

TypeName == Enter("name", [inputs EXCEPT !.name = "n"]) /\ UNCHANGED config

TypeKey == Enter("key", [inputs EXCEPT !.key = "typed"]) /\ UNCHANGED config

TypeOther == Enter("other", [inputs EXCEPT !.other = "typed"]) /\ UNCHANGED config

TypeMapping ==
    /\ \E m \in {"valid", "invalid"} : Enter("mapping", [inputs EXCEPT !.mapping = m])
    /\ UNCHANGED config

\* A new type fills in its models where none were chosen.
ChooseType ==
    /\ \E ty \in ChannelType \ {inputs.type} :
           Enter("type", [inputs EXCEPT !.type = ty,
                                        !.models = IF @ = {} THEN BasicModels(ty) ELSE @])
    /\ UNCHANGED config

\* Dropdown, fill, fill all, clear; choosing again makes the models an array.
ChooseModels ==
    /\ \E ms \in {{}, knownModels, modelOptions} \cup
                  (IF form = "channel" THEN {BasicModels(inputs.type)} ELSE {}) :
           /\ ms # inputs.models
           /\ Enter("models", [inputs EXCEPT !.models = ms, !.joined = FALSE])
    /\ UNCHANGED config

addCustomModel ==
    /\ form = "channel"
    /\ \E m \in Custom \ inputs.models :
           Enter("models", [inputs EXCEPT !.models = @ \cup {m}])
    /\ UNCHANGED config

handleConfigChange ==
    /\ config' \in Complete \cup (IF config \in {"absent", "partial"} THEN {"partial"} ELSE {})
    /\ config' # config
    /\ Enter("config", inputs)

setExpiredTime ==
    /\ \E ex \in {"never", "date"} : Enter("expires", [inputs EXCEPT !.expires = ex])
    /\ UNCHANGED config

----------------------------------------------------------------------------
(* Submitting *)

\* The key that the credentials make.  Fields that are not there are not blank either.
DerivedKey(c) ==
    CASE c = "blank" -> ""
      [] c = "absent" -> "undefined"
      [] OTHER -> c

Submit(in, refused, body) ==
    /\ Offered
    /\ submits < MaxSubmits
    /\ submits' = submits + 1
    /\ inputs' = in
    /\ IF refused THEN UNCHANGED <<submitted, formCalls>>
       ELSE /\ submitted' = {body}
            /\ formCalls' = formCalls + 1
    /\ UNCHANGED <<form, isEdit, config, formLoading, knownModels, modelOptions, awaited, record>>

Body(in, key) ==
    [name |-> in.name, type |-> in.type, key |-> key, record |-> record,
     other |-> IF in.type = "azure" /\ in.other = "" THEN "version" ELSE in.other]

\* The key is filled in on the state itself; the rest is done on a copy.
SubmitChannel ==
    LET in == IF inputs.key = "" THEN [inputs EXCEPT !.key = DerivedKey(config)] ELSE inputs
        refused == \/ ~isEdit /\ (in.name = "" \/ in.key = "")
                   \/ in.type # "proxy" /\ in.models = {}
                   \/ in.mapping = "invalid"
    IN  /\ form = "channel"
        /\ Submit(in, refused, Body(in, IF in.key = "undefined" THEN "" ELSE in.key))

\* Everything is done on the state itself: a second submit finds no array to join.
SubmitToken ==
    LET noName == ~isEdit /\ inputs.name = ""
        badTime == inputs.expires = "seconds"
        in == IF noName \/ badTime THEN inputs
              ELSE [inputs EXCEPT !.joined = TRUE,
                                  !.expires = IF @ = "date" THEN "seconds" ELSE @]
        throws == ~noName /\ ~badTime /\ inputs.joined
    IN  /\ form = "token"
        /\ Submit(in, noName \/ badTime \/ throws, Body(in, ""))

SubmitUser ==
    /\ form = "user"
    /\ Submit(inputs, FALSE, Body(inputs, ""))

SubmitAddUser ==
    /\ form = "addUser"
    /\ Submit(inputs, inputs.name = "", Body(inputs, ""))

SubmitRedemption ==
    /\ form = "redemption"
    /\ Submit(inputs, ~isEdit /\ inputs.name = "", Body(inputs, ""))

\* A record created blanks the form, whatever was typed while it was under way.
SubmitAnswered ==
    /\ formCalls > 0
    /\ formCalls' = formCalls - 1
    /\ inputs' \in {inputs, IF isEdit THEN inputs ELSE originInputs}
    /\ modelOptions' = IF inputs'.models = inputs.models THEN modelOptions
                       ELSE FormOptions(knownModels, inputs'.models)
    /\ submitted' = IF formCalls = 1 THEN {} ELSE submitted
    /\ UNCHANGED <<form, isEdit, config, formLoading, knownModels, awaited, submits, record>>

----------------------------------------------------------------------------

FormsInit ==
    /\ form \in Form
    /\ isEdit \in CASE form = "addUser" -> {FALSE}
                    [] form = "user" -> {TRUE}
                    [] OTHER -> BOOLEAN
    /\ inputs = originInputs
    /\ config = "blank"
    /\ formLoading = isEdit
    /\ knownModels = {} /\ modelOptions = {}
    /\ awaited = (IF isEdit THEN {"load"} ELSE {}) \cup
                 (IF form \in {"channel", "token"} THEN {"models"} ELSE {})
    /\ formCalls = 0
    /\ submitted = {} /\ submits = 0
    /\ record = "unknown"

FormsNext ==
    \/ RecordLoaded \/ LoadRejected \/ ModelsFetched
    \/ TypeName \/ TypeKey \/ TypeOther \/ TypeMapping \/ ChooseType \/ ChooseModels \/ addCustomModel
    \/ handleConfigChange \/ setExpiredTime
    \/ SubmitChannel \/ SubmitToken \/ SubmitUser \/ SubmitAddUser \/ SubmitRedemption
    \/ SubmitAnswered

FormsSpec == FormsInit /\ [][FormsNext]_formsVars

----------------------------------------------------------------------------

FormsTypeOK ==
    /\ form \in Form /\ isEdit \in BOOLEAN /\ formLoading \in BOOLEAN
    /\ inputs.type \in ChannelType /\ inputs.models \subseteq Model \cup Custom
    /\ config \in Config
    /\ knownModels \subseteq Model /\ modelOptions \subseteq Model \cup Custom
    /\ awaited \subseteq {"load", "models"} /\ formCalls \in 0 .. submits
    /\ submits \in 0 .. MaxSubmits
    /\ record \in {"unknown", "loaded", "failed"}

\* No form updates a record before its load has come to an end, so that the blanks it shows
\* until then never overwrite the record.  Only a load that failed lets them through.
UpdatesFollowALoad ==
    isEdit => \A body \in submitted : body.record # "unknown"

\* Nothing is created without a name, nor a channel without a key or the version its type needs:
\* the key is blanked on its way out, after it was checked, only where it cannot be a new
\* channel's.
NothingBlankIsCreated ==
    ~isEdit => \A body \in submitted :
                   /\ body.name # ""
                   /\ form = "channel" => body.key # ""
                   /\ body.type = "azure" => body.other # ""

\* A form sends what it should: no update before its load ended, no creation with blanks.
FormsSendWhatTheyShould == UpdatesFollowALoad /\ NothingBlankIsCreated

=============================================================================
