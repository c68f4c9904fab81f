----------------------------- MODULE DesignSystem -----------------------------
(***************************************************************************)
(* What the design system keeps outside its components: the scroll lock of *)
(* modals, the list of toasts and the theme of the page.                   *)
(*                                                                         *)
(* Watchers run right after the handler that woke them, in the order in    *)
(* which their components were created.                                    *)
(***************************************************************************)
EXTENDS Integers, Sequences, FiniteSets, SequencesExt

CONSTANTS
    Part,        \* which of "modals", "toasts" and "theme" the page uses
    Modals,      \* how many modals there are, numbered as they were created
    Themed,      \* components that use the theme
    MaxToasts,
    Lifetime     \* seconds that a toast stays, unless it is an error

DesignAssumption ==
    Part \subseteq {"modals", "toasts", "theme"} /\ {Modals, MaxToasts, Lifetime} \subseteq Nat
ASSUME DesignAssumption

VARIABLES
    part,
    kind,          \* modals made by "useModal" or "LnModal"
    openModals,    \* the modals open, in the order they were opened
    overflow,      \* document.body.style.overflow: "" or "hidden"
    previous,      \* previousOverflow of each modal of useModal
    disordered,    \* history: modals were closed in another order than the reverse of opening
    toasts,        \* the toasts shown
    timers,        \* seconds left of the toasts that have a timer
    added,         \* how many toasts were added
    system,        \* the theme that the system prefers
    persisted,     \* the mode in localStorage
    dataTheme,     \* data-theme of <html>
    themeModes,    \* mode of each component that uses the theme; "unmounted" of others
    elsewhere      \* history: another tab persisted a mode that this one has not applied

designVars == <<part, kind, openModals, overflow, previous, disordered, toasts, timers, added,
                system, persisted, dataTheme, themeModes, elsewhere>>

modalVars == <<openModals, overflow, previous, disordered>>
toastVars == <<toasts, timers, added>>
themeVars == <<system, persisted, dataTheme, themeModes, elsewhere>>

----------------------------------------------------------------------------
(* Modals *)

OpenModal(m) ==
    /\ part = "modals" /\ ~Contains(openModals, m)
    /\ openModals' = Append(openModals, m)
    /\ overflow' = "hidden"
    /\ previous' = IF kind = "useModal" THEN [previous EXCEPT ![m] = overflow] ELSE previous
    /\ UNCHANGED <<part, kind, disordered, toastVars, themeVars>>

\* useModal puts back what it found, LnModal unlocks.
Unlocked(m) == IF kind = "useModal" THEN previous[m] ELSE ""

CloseModal ==
    /\ \E i \in DOMAIN openModals :
        /\ openModals' = RemoveAt(openModals, i)
        /\ overflow' = Unlocked(openModals[i])
        /\ disordered' = (disordered \/ i # Len(openModals))
    /\ UNCHANGED <<part, kind, previous, toastVars, themeVars>>

\* Escape closes every modal: the last watcher to run belongs to the one created last.
Escape ==
    /\ openModals # <<>>
    /\ openModals' = <<>>
    /\ overflow' = Unlocked(Max(ToSet(openModals)))
    /\ disordered' = (disordered \/ Len(openModals) > 1)
    /\ UNCHANGED <<part, kind, previous, toastVars, themeVars>>

\* LnModal unlocks when it is unmounted, even if it was closed; useModal only if it was open.
UnmountModal(m) ==
    /\ part = "modals" /\ kind = "LnModal" /\ ~Contains(openModals, m)
    /\ overflow' = ""
    /\ UNCHANGED <<part, kind, openModals, previous, disordered, toastVars, themeVars>>

----------------------------------------------------------------------------
(* Toasts *)

\* An error stays until it is dismissed.
addToast ==
    /\ part = "toasts" /\ added < MaxToasts
    /\ added' = added + 1
    /\ toasts' = toasts \cup {added'}
    /\ \/ timers' = [t \in DOMAIN timers \cup {added'} |->
                        IF t = added' THEN Lifetime ELSE timers[t]]
       \/ UNCHANGED timers
    /\ UNCHANGED <<part, kind, modalVars, themeVars>>

\* Mutant: the timer of a toast that was dismissed goes on.
removeKeepsTimer(id) ==
    /\ toasts' = toasts \ {id}
    /\ UNCHANGED <<part, kind, timers, added, modalVars, themeVars>>

remove(id) ==
    /\ toasts' = toasts \ {id}
    /\ timers' = [t \in DOMAIN timers \ {id} |-> timers[t]]
    /\ UNCHANGED <<part, kind, added, modalVars, themeVars>>

Dismiss == \E id \in toasts : remove(id)

\* A timer that is due fires before more time passes.
TimerFires == \E id \in DOMAIN timers : timers[id] = 0 /\ remove(id)

clear ==
    /\ toasts # {}
    /\ toasts' = {} /\ timers' = <<>>
    /\ UNCHANGED <<part, kind, added, modalVars, themeVars>>

SecondPasses ==
    /\ DOMAIN timers # {} /\ \A id \in DOMAIN timers : timers[id] > 0
    /\ timers' = [id \in DOMAIN timers |-> timers[id] - 1]
    /\ UNCHANGED <<part, kind, toasts, added, modalVars, themeVars>>

----------------------------------------------------------------------------
(* Theme *)

Theme == {"light", "dark"}
ThemeMode == Theme \cup {"system"}

resolveTheme(m) == IF m = "system" THEN system ELSE m

MountedThemes == {c \in Themed : themeModes[c] # "unmounted"}

\* initTheme applies what is persisted, and listens to the system until it is unmounted.
MountTheme(c) ==
    /\ part = "theme" /\ c \notin MountedThemes
    /\ dataTheme' = resolveTheme(persisted)
    /\ themeModes' = [themeModes EXCEPT ![c] = persisted]
    /\ elsewhere' = FALSE
    /\ UNCHANGED <<part, kind, system, persisted, modalVars, toastVars>>

UnmountTheme(c) ==
    /\ c \in MountedThemes
    /\ themeModes' = [themeModes EXCEPT ![c] = "unmounted"]
    /\ UNCHANGED <<part, kind, system, persisted, dataTheme, elsewhere, modalVars, toastVars>>

\* Only the component that sets a mode knows: the others keep theirs.
SetThemeMode(c, m) ==
    /\ c \in MountedThemes
    /\ persisted' = m
    /\ dataTheme' = resolveTheme(m)
    /\ themeModes' = [themeModes EXCEPT ![c] = m]
    /\ elsewhere' = FALSE
    /\ UNCHANGED <<part, kind, system, modalVars, toastVars>>

\* Toggling starts from what is persisted, not from the component's mode.
toggleTheme(c) ==
    SetThemeMode(c, IF resolveTheme(persisted) = "light" THEN "dark" ELSE "light")

\* The listeners of the components mounted apply it if the persisted mode is the system's.
SystemChanges ==
    /\ part = "theme"
    /\ system' \in Theme \ {system}
    /\ IF MountedThemes # {} /\ persisted = "system"
       THEN dataTheme' = system' /\ elsewhere' = FALSE
       ELSE UNCHANGED <<dataTheme, elsewhere>>
    /\ UNCHANGED <<part, kind, persisted, themeModes, modalVars, toastVars>>

OtherTabPersists ==
    /\ part = "theme"
    /\ persisted' \in ThemeMode \ {persisted}
    /\ elsewhere' = TRUE
    /\ UNCHANGED <<part, kind, system, dataTheme, themeModes, modalVars, toastVars>>

----------------------------------------------------------------------------

DesignInit ==
    /\ part \in Part
    /\ kind \in IF part = "modals" THEN {"useModal", "LnModal"} ELSE {"useModal"}
    /\ openModals = <<>> /\ overflow = "" /\ disordered = FALSE
    /\ previous = [m \in 1 .. Modals |-> ""]
    /\ toasts = {} /\ timers = <<>> /\ added = 0
    /\ system \in IF part = "theme" THEN Theme ELSE {"light"}
    /\ persisted \in IF part = "theme" THEN ThemeMode ELSE {"system"}
    /\ dataTheme = "none"
    /\ themeModes = [c \in Themed |-> "unmounted"]
    /\ elsewhere = FALSE

DesignNext ==
    \/ \E m \in 1 .. Modals : OpenModal(m) \/ UnmountModal(m)
    \/ CloseModal \/ Escape
    \/ addToast \/ Dismiss \/ TimerFires \/ clear \/ SecondPasses
    \/ \E c \in Themed : \/ MountTheme(c) \/ UnmountTheme(c) \/ toggleTheme(c)
                         \/ \E m \in ThemeMode : SetThemeMode(c, m)
    \/ SystemChanges \/ OtherTabPersists

DesignSpec == DesignInit /\ [][DesignNext]_designVars

----------------------------------------------------------------------------

DesignTypeOK ==
    /\ part \in Part /\ kind \in {"useModal", "LnModal"}
    /\ ToSet(openModals) \subseteq 1 .. Modals /\ overflow \in {"", "hidden"}
    /\ added \in 0 .. MaxToasts /\ toasts \subseteq 1 .. added
    /\ system \in Theme /\ persisted \in ThemeMode /\ dataTheme \in Theme \cup {"none"}

\* The page scrolls again once every modal is closed, and with useModal it does not scroll while
\* one is open: unless modals of useModal were closed in another order than they were opened.
ModalsLockTheScroll ==
    /\ (openModals = <<>> /\ ~(kind = "useModal" /\ disordered)) => overflow = ""
    /\ (openModals # <<>> /\ kind = "useModal" /\ ~disordered) => overflow = "hidden"

\* A toast goes with its timer and a timer with its toast.
TimersHaveTheirToasts == DOMAIN timers \subseteq toasts

\* While a component uses the theme, the page has the mode persisted, whichever of them set it and
\* whatever the system changed to.
PageHasTheTheme ==
    (MountedThemes # {} /\ ~elsewhere) => dataTheme = resolveTheme(persisted)

\* What the design system does to the page undoes itself, and follows what it depends on.
PageIsKept == ModalsLockTheScroll /\ TimersHaveTheirToasts /\ PageHasTheTheme

=============================================================================
