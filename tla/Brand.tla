-------------------------------- MODULE Brand --------------------------------
(***************************************************************************)
(* The brand of a page: the layers of its configuration, the engine that   *)
(* turns it into CSS variables, and the provider that mounts the engine    *)
(* and loads a remote configuration meanwhile.                             *)
(***************************************************************************)
EXTENDS Integers, FiniteSets

CONSTANTS
    CacheAge,       \* ttl of the cached remote configuration
    MaxClock, MaxLoads, MaxEditions

BrandAssumption == {CacheAge, MaxClock, MaxLoads, MaxEditions} \subseteq Nat
ASSUME BrandAssumption

VARIABLES
    phase,          \* of the provider: "set up", "mounted" or "gone"
    onTarget,       \* it has a mountTarget of its own
    props,          \* props.config
    brand,          \* the engine's configuration
    themeMode,
    cssVars,        \* what the engine put into the page last: names, and colours
    dom,            \* per element: the names of variables on it, their colours, data-theme
    listening,      \* the engine listens to the system's theme
    prefersDark,    \* the system's theme
    loads,          \* remote loads under way, with the props they started from
    brandCache,     \* the remote configuration in localStorage
    clock, loaded, editions,
    edited,         \* history: the configuration changed since its CSS was last put in
    late            \* history: a load ended after its provider was gone

brandVars == <<phase, onTarget, props, brand, themeMode, cssVars, dom, listening, prefersDark,
               loads, brandCache, clock, loaded, editions, edited, late>>

----------------------------------------------------------------------------
(* Configurations: an id, and the variables of its own that it adds. *)

DefaultConfig == [id |-> "default", custom |-> "default"]

\* deepMerge: what a partial configuration has wins.
deepMerge(target, partial) ==
    [k \in DOMAIN target |-> IF k \in DOMAIN partial THEN partial[k] ELSE target[k]]

Partial == {[id |-> "edit"], [custom |-> "edit"]}
Remote == {[id |-> "remote"], [custom |-> "remote"]}

loadBrandConfigSync(static) == deepMerge(DefaultConfig, static)

\* The provider passes props.config as the overrides at run time, so they win over the remote.
loadBrandConfig(remote, static) == deepMerge(deepMerge(DefaultConfig, remote), static)

\* The cache, once the remote has failed; too old counts as none.
getCachedConfig ==
    IF brandCache # <<>> /\ clock - brandCache[1].at <= CacheAge THEN brandCache[1].config
    ELSE <<>>

----------------------------------------------------------------------------
(* The engine *)

Effective(mode, dark) ==
    IF mode = "auto" THEN (IF dark THEN "dark" ELSE "light") ELSE mode

\* The variables of a configuration in a theme.
generateCssVariables(config, theme) ==
    [names |-> {"brand", config.custom}, colours |-> <<config.id, theme>>]

Bare == [names |-> {}, colours |-> <<>>, theme |-> "none"]

\* Mutant: nothing is cleared before the new variables are put in.
AppliedOnTop(el, config, mode, dark) ==
    LET css == generateCssVariables(config, Effective(mode, dark))
    IN  /\ cssVars' = css
        /\ dom' = [dom EXCEPT ![el] = [names |-> @.names \cup css.names,
                                       colours |-> css.colours,
                                       theme |-> Effective(mode, dark)]]
        /\ edited' = FALSE

\* _applyCssVariables on an element: what was put in last is cleared from it first.
Applied(el, config, mode, dark) ==
    LET css == generateCssVariables(config, Effective(mode, dark))
    IN  /\ cssVars' = css
        /\ dom' = [dom EXCEPT ![el] = [names |-> (@.names \ cssVars.names) \cup css.names,
                                       colours |-> css.colours,
                                       theme |-> Effective(mode, dark)]]
        /\ edited' = FALSE

Target == IF onTarget THEN "target" ELSE "root"

\* setThemeMode always applies to the root.
setThemeMode(mode) ==
    /\ themeMode' = mode
    /\ listening' = (mode = "auto")
    /\ Applied("root", brand, mode, prefersDark)

----------------------------------------------------------------------------
(* The provider *)

\* mount, and the load if there is a remote.
Mount ==
    /\ phase = "set up"
    /\ phase' = "mounted"
    /\ Applied(Target, brand, themeMode, prefersDark)
    /\ \/ loads' = loads \cup {[n |-> loaded, props |-> props]} /\ loaded' = loaded + 1
       \/ UNCHANGED <<loads, loaded>>
    /\ UNCHANGED <<onTarget, props, brand, themeMode, listening, prefersDark, brandCache, clock,
                   editions, late>>

\* The configuration loaded replaces the engine's, edits since included, and is mounted.
LoadEnds(load, remote) ==
    /\ brand' = loadBrandConfig(remote, load.props)
    /\ Applied(Target, brand', themeMode, prefersDark)
    /\ loads' = loads \ {load}
    /\ late' = (late \/ phase = "gone")
    /\ UNCHANGED <<phase, onTarget, props, themeMode, listening, prefersDark, clock, loaded,
                   editions>>

RemoteAnswers(load) ==
    \E remote \in Remote :
        /\ LoadEnds(load, remote)
        /\ brandCache' = <<[config |-> remote, at |-> clock]>>

\* Refused, broken or aborted after 5 s: the cache, or neither.
RemoteFails(load) ==
    /\ LoadEnds(load, getCachedConfig)
    /\ brandCache' = IF getCachedConfig = <<>> THEN <<>> ELSE brandCache

\* updateConfig rebuilds the engine and leaves the page alone.
updateConfig ==
    /\ phase # "gone"
    /\ editions < MaxEditions /\ editions' = editions + 1
    /\ \E p \in Partial :
        /\ brand' = deepMerge(brand, p)
        /\ props' \in {props, p}       \* by the hook, or because props.config changed
    /\ edited' = TRUE
    /\ UNCHANGED <<phase, onTarget, themeMode, cssVars, dom, listening, prefersDark, loads,
                   brandCache, clock, loaded, late>>

\* setTheme, toggleTheme, and a change of props.theme.
setTheme ==
    /\ phase = "mounted"
    /\ \E mode \in {"light", "dark", "auto"} : setThemeMode(mode)
    /\ UNCHANGED <<phase, onTarget, props, brand, prefersDark, loads, brandCache, clock, loaded,
                   editions, late>>

\* The handler of _setupAutoTheme.
SystemThemeChanges ==
    /\ prefersDark' = ~prefersDark
    /\ IF listening THEN Applied("root", brand, themeMode, prefersDark')
       ELSE UNCHANGED <<cssVars, dom, edited>>
    /\ UNCHANGED <<phase, onTarget, props, brand, themeMode, listening, loads, brandCache, clock,
                   loaded, editions, late>>

\* destroy clears the root, whatever the target was.
Unmount ==
    /\ phase = "mounted"
    /\ phase' = "gone"
    /\ listening' = FALSE
    /\ dom' = [dom EXCEPT !.root = [names |-> @.names \ cssVars.names, colours |-> <<>>,
                                    theme |-> "none"]]
    /\ UNCHANGED <<onTarget, props, brand, themeMode, cssVars, prefersDark, loads, brandCache,
                   clock, loaded, editions, edited, late>>

\* A provider anew: setup builds an engine of the props and sets its theme, before it is mounted.
SetUp ==
    /\ phase = "gone" /\ loads = {} /\ loaded < MaxLoads
    /\ phase' = "set up"
    /\ brand' = loadBrandConfigSync(props)
    /\ \E mode \in {"light", "auto"} :
        /\ themeMode' = mode
        /\ listening' = (mode = "auto")
        /\ LET css == generateCssVariables(brand', Effective(mode, prefersDark))
           IN  /\ cssVars' = css
               /\ dom' = [dom EXCEPT !.root = [names |-> @.names \cup css.names,
                                               colours |-> css.colours,
                                               theme |-> Effective(mode, prefersDark)]]
    /\ edited' = FALSE
    /\ UNCHANGED <<onTarget, props, prefersDark, loads, brandCache, clock, loaded, editions, late>>

ClockTicks ==
    /\ clock < MaxClock /\ clock' = clock + 1
    /\ UNCHANGED <<phase, onTarget, props, brand, themeMode, cssVars, dom, listening, prefersDark,
                   loads, brandCache, loaded, editions, edited, late>>

----------------------------------------------------------------------------

BrandInit ==
    /\ phase = "gone"
    /\ onTarget \in BOOLEAN
    /\ props \in {<<>>, [custom |-> "static"]}
    /\ brand = loadBrandConfigSync(props)
    /\ themeMode = "light" /\ listening = FALSE
    /\ cssVars = [names |-> {}, colours |-> <<>>]
    /\ dom = [el \in {"root", "target"} |-> Bare]
    /\ prefersDark \in BOOLEAN
    /\ loads = {} /\ brandCache = <<>>
    /\ clock = 0 /\ loaded = 0 /\ editions = 0
    /\ edited = FALSE /\ late = FALSE

BrandNext ==
    \/ SetUp \/ Mount \/ Unmount
    \/ updateConfig \/ setTheme \/ SystemThemeChanges \/ ClockTicks
    \/ \E load \in loads : RemoteAnswers(load) \/ RemoteFails(load)

BrandSpec == BrandInit /\ [][BrandNext]_brandVars

----------------------------------------------------------------------------

BrandTypeOK ==
    /\ phase \in {"set up", "mounted", "gone"}
    /\ DOMAIN brand = {"id", "custom"} /\ themeMode \in {"light", "dark", "auto"}
    /\ \A el \in {"root", "target"} : dom[el].theme \in {"light", "dark", "none"}
    /\ clock \in 0 .. MaxClock /\ loaded \in 0 .. MaxLoads /\ editions \in 0 .. MaxEditions

\* Without a mount target, and but for loads that end after the provider is gone: a page has the
\* theme in effect, in the colours and with the variables of the engine's configuration unless
\* it was edited since, and nothing is left of earlier configurations or of a provider gone.
PageHasItsBrand ==
    (~onTarget /\ ~late) =>
        IF phase = "gone" THEN dom["root"] = Bare /\ ~listening
        ELSE LET theme == Effective(themeMode, prefersDark)
             IN  /\ dom["root"].theme = theme
                 /\ dom["root"].names = cssVars.names /\ dom["root"].colours = cssVars.colours
                 /\ cssVars.colours[2] = theme
                 /\ ~edited => cssVars = generateCssVariables(brand, theme)

=============================================================================
