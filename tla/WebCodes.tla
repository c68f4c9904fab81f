------------------------------ MODULE WebCodes ------------------------------
(***************************************************************************)
(* The forms that have the server send an e-mail or reset a password: each *)
(* shows a countdown after a click, meant to keep clicks apart.            *)
(***************************************************************************)
EXTENDS Integers

CONSTANTS
    CodeForm,     \* the forms that may be mounted
    Countdown,    \* seconds of the countdown
    MaxCodes      \* bound on the clicks

CodesAssumption ==
    /\ CodeForm \subseteq {"register", "reset", "confirm", "personal"}
    /\ Countdown \in Nat \ {0} /\ MaxCodes \in Nat
ASSUME CodesAssumption

VARIABLES
    codeForm,     \* the form mounted, "none" once it is left
    email,        \* an address was typed, or was in the link
    turnstile,    \* what the form waits for before it sends: "off", "checking" or "passed"
    disableButton,
    countdown,
    codeLoading,
    codeCalls,    \* the requests under way: their kind, and the click each was sent at
    clicks,       \* clicks so far
    asked,        \* history: the click that last asked for a code, 0 before the first
    since,        \* history: seconds since then, up to the countdown
    crossing,   \* history: another code was then still unanswered
    refusal       \* history: the click of the code refused last since then, 0 if none

codesVars == <<codeForm, email, turnstile, disableButton, countdown, codeLoading, codeCalls,
               clicks, asked, since, crossing, refusal>>

CodeCall == [kind : {"code", "other"}, n : 1 .. MaxCodes]

Unanswered == {c \in codeCalls : c.kind = "code"}

(* The buttons that ask for a code, as each form disables them: the last two by the countdown     *)
(* only, whether or not a request is under way.                                                   *)

RegisterButton == codeForm = "register" /\ ~codeLoading

EmailButton == codeForm = "personal" /\ ~(disableButton \/ codeLoading)

\* Mutant: the button is disabled while a request is under way, and not by the countdown.
ResetButtonWhileIdle == codeForm = "reset" /\ ~codeLoading

ResetButton == codeForm = "reset" /\ ~disableButton

ConfirmButton == codeForm = "confirm" /\ ~disableButton

Click == clicks < MaxCodes /\ clicks' = clicks + 1

Refused == ~email \/ turnstile = "checking"

NothingSent == UNCHANGED <<codeLoading, codeCalls, asked, since, crossing, refusal>>

AskForCode ==
    /\ codeLoading' = TRUE
    /\ codeCalls' = codeCalls \cup {[kind |-> "code", n |-> clicks + 1]}
    /\ asked' = clicks + 1
    /\ since' = 0
    /\ crossing' = (Unanswered # {})
    /\ refusal' = 0

\* sendVerificationCode of RegisterForm checks its inputs before it disables the button ...
SendRegisterCode ==
    /\ RegisterButton
    /\ Click
    /\ disableButton' = (disableButton \/ ~Refused)
    /\ IF Refused THEN NothingSent ELSE AskForCode
    /\ UNCHANGED <<codeForm, email, turnstile, countdown>>

\* ... that of PersonalSetting after,
SendEmailCode ==
    /\ EmailButton
    /\ Click
    /\ disableButton' = TRUE
    /\ IF Refused THEN NothingSent ELSE AskForCode
    /\ UNCHANGED <<codeForm, email, turnstile, countdown>>

\* and so handleSubmit of PasswordResetForm
SendReset ==
    /\ ResetButton
    /\ Click
    /\ disableButton' = TRUE
    /\ IF Refused THEN NothingSent ELSE AskForCode
    /\ UNCHANGED <<codeForm, email, turnstile, countdown>>

\* and of PasswordResetConfirm.
ConfirmReset ==
    /\ ConfirmButton
    /\ Click
    /\ disableButton' = TRUE
    /\ IF Refused THEN NothingSent ELSE AskForCode
    /\ UNCHANGED <<codeForm, email, turnstile, countdown>>

\* Registering and binding an e-mail address share the loading flag, which does not disable their
\* buttons.
SubmitForm ==
    /\ Click
    /\ codeLoading' = TRUE
    /\ codeCalls' = codeCalls \cup {[kind |-> "other", n |-> clicks + 1]}
    /\ UNCHANGED <<codeForm, email, turnstile, disableButton, countdown, asked, since, crossing,
                   refusal>>

Register == codeForm = "register" /\ turnstile # "checking" /\ SubmitForm

bindEmail == codeForm = "personal" /\ SubmitForm

\* Any answer ends the loading, whatever else is under way.
Answered(c) == codeLoading' = FALSE /\ codeCalls' = codeCalls \ {c}

CodeSent == \E c \in Unanswered :
    /\ Answered(c)
    /\ email' = (email /\ codeForm # "reset")
    /\ UNCHANGED <<codeForm, turnstile, disableButton, countdown, clicks, asked, since, crossing,
                   refusal>>

\* A failure gives the button back, in the form of registration and in the first of the reset
\* forms, whichever request it answers.
CodeFails == \E c \in Unanswered :
    /\ Answered(c)
    /\ refusal' = c.n
    /\ IF codeForm \in {"register", "reset"}
       THEN disableButton' = FALSE /\ countdown' = Countdown
       ELSE UNCHANGED <<disableButton, countdown>>
    /\ UNCHANGED <<codeForm, email, turnstile, clicks, asked, since, crossing>>

\* A registration that succeeds leaves the form for the login page.
OtherAnswered == \E c \in codeCalls \ Unanswered :
    /\ Answered(c)
    /\ codeForm' \in {codeForm} \cup (IF codeForm = "register" THEN {"none"} ELSE {})
    /\ UNCHANGED <<email, turnstile, disableButton, countdown, clicks, asked, since, crossing,
                   refusal>>

\* The handler throws, and the form stays loading until another answer.
CodeRejected == \E c \in codeCalls :
    /\ codeCalls' = codeCalls \ {c}
    /\ UNCHANGED <<codeForm, email, turnstile, disableButton, countdown, codeLoading, clicks,
                   asked, since, crossing, refusal>>

\* Mutant: the countdown is put back a second late.
SecondTooMany ==
    /\ codeForm # "none"
    /\ disableButton \/ since < Countdown
    /\ since' = IF since < Countdown THEN since + 1 ELSE since
    /\ IF disableButton
       THEN /\ countdown' = IF countdown = 0 THEN Countdown ELSE countdown - 1
            /\ disableButton' = (countdown # 0)
       ELSE UNCHANGED <<countdown, disableButton>>
    /\ UNCHANGED <<codeForm, email, turnstile, codeLoading, codeCalls, clicks, asked, crossing,
                   refusal>>

\* A second passes.  At 0 the effect puts the button and the countdown back.
Second ==
    /\ codeForm # "none"
    /\ disableButton \/ since < Countdown
    /\ since' = IF since < Countdown THEN since + 1 ELSE since
    /\ IF disableButton
       THEN /\ countdown' = IF countdown = 1 THEN Countdown ELSE countdown - 1
            /\ disableButton' = (countdown # 1)
       ELSE UNCHANGED <<countdown, disableButton>>
    /\ UNCHANGED <<codeForm, email, turnstile, codeLoading, codeCalls, clicks, asked, crossing,
                   refusal>>

TypeEmail ==
    /\ ~email /\ codeForm \notin {"confirm", "none"}
    /\ email' = TRUE
    /\ UNCHANGED <<codeForm, turnstile, disableButton, countdown, codeLoading, codeCalls, clicks,
                   asked, since, crossing, refusal>>

TurnstilePasses ==
    /\ turnstile = "checking"
    /\ turnstile' = "passed"
    /\ UNCHANGED <<codeForm, email, disableButton, countdown, codeLoading, codeCalls, clicks,
                   asked, since, crossing, refusal>>

----------------------------------------------------------------------------

CodesInit ==
    /\ codeForm \in CodeForm
    /\ email \in IF codeForm = "confirm" THEN BOOLEAN ELSE {FALSE}
    /\ turnstile \in IF codeForm = "confirm" THEN {"off"} ELSE {"off", "checking"}
    /\ disableButton = FALSE /\ countdown = Countdown
    /\ codeLoading = FALSE /\ codeCalls = {}
    /\ clicks = 0 /\ asked = 0 /\ since = Countdown /\ crossing = FALSE /\ refusal = 0

CodesNext ==
    \/ SendRegisterCode \/ SendEmailCode \/ SendReset \/ ConfirmReset
    \/ Register \/ bindEmail
    \/ CodeSent \/ CodeFails \/ OtherAnswered \/ CodeRejected
    \/ Second \/ TypeEmail \/ TurnstilePasses

CodesSpec == CodesInit /\ [][CodesNext]_codesVars

----------------------------------------------------------------------------

CodesTypeOK ==
    /\ codeForm \in CodeForm \cup {"none"} /\ email \in BOOLEAN
    /\ disableButton \in BOOLEAN /\ countdown \in 1 .. Countdown
    /\ codeLoading \in BOOLEAN /\ crossing \in BOOLEAN
    /\ turnstile \in {"off", "checking", "passed"}
    /\ codeCalls \subseteq CodeCall
    /\ clicks \in 0 .. MaxCodes /\ asked \in 0 .. clicks /\ refusal \in 0 .. clicks
    /\ since \in 0 .. Countdown

\* However long answers take and however they overlap, but for the form of registration a code is
\* asked for again only when the countdown of the last one is over; but that the first of the reset
\* forms allows it as soon as the server has refused that code or, where an earlier one was still
\* unanswered when it was asked for, that one (PasswordResetForm.js:41-54, 72-78).
CodesAreSpaced ==
    [][(asked' # asked /\ codeForm # "register")
          => \/ asked = 0 \/ since = Countdown
             \/ codeForm = "reset" /\ refusal # 0 /\ (refusal = asked \/ crossing)]_codesVars

=============================================================================
