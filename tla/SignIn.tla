------------------------------- MODULE SignIn -------------------------------
(***************************************************************************)
(* Who is signed in, as the browser sees it: the token in local storage,   *)
(* the user of AuthContext, the route guards, and the pages whose forms    *)
(* change either of them (login, registration, reset by mail, profile).    *)
(*                                                                         *)
(* A form's handler sends a request and goes on when the answer comes.     *)
(* Requests are on the way at the same time, the server takes them in any  *)
(* order, and answers arrive in any order: one action sends a request, one *)
(* serves it, one is the rest of the handler.  A handler goes on when its  *)
(* page has been left; only what it sets in the page's own state is lost.  *)
(*                                                                         *)
(* Passwords, names and mailed codes are not modelled: whether they are    *)
(* right is a choice of the server.  A TOTP code is the secret it was made *)
(* from, 0 when it is wrong.                                               *)
(***************************************************************************)
EXTENDS Naturals, FiniteSets

CONSTANTS
  Accounts,    \* the accounts people sign in to
  Nobody,      \* no account
  Fetches,     \* bound: how many requests are on the way at a time
  MaxSecrets   \* bound: how many TOTP secrets are made

ASSUME ConstantsAssumption ==
  /\ Nobody \notin Accounts
  /\ MaxSecrets \in Nat

VARIABLES
  token,    \* whose token is in local storage
  user,     \* AuthContext's user, as the server last described it
  splash,   \* AuthContext's loading
  page,     \* the route
  form,     \* the state of the page's component
  calls,    \* calls[f]: the request on its way in fetch f
  account,  \* the users table
  secrets,  \* how many TOTP secrets have been made
  app       \* the secrets in the person's authenticator app

vars == <<token, user, splash, page, form, calls, account, secrets, app>>
server == <<account, secrets, app>>
signedIn == <<token, user, splash>>

NoSecret == 0
Secrets == 1 .. MaxSecrets
SignedOut == [who |-> Nobody, mfa |-> FALSE]

GuestPages == {"login", "register", "forgot"}
MemberPages == {"home", "profile"}

\* The functions of authApi, but for me.
GuestForms == {"login", "mfaLogin", "registerRequest", "registerVerify",
               "forgotRequest", "forgotVerify"}
ProfileForms == {"updateProfile", "changePassword", "mfaSetup", "mfaEnable", "mfaDisable"}
Forms == GuestForms \cup ProfileForms

\* The forms whose handler stores a token or refreshes the user.
Lasting == {"login", "mfaLogin", "registerVerify", "updateProfile", "mfaEnable", "mfaDisable"}

\* The flag that disables a form's button: a guest page has one for its two
\* forms, the profile page one for each.
Flag(k) == IF k \in GuestForms THEN "loading" ELSE k
Flags == {Flag(k) : k \in Forms}

Form == [step : {"first", "code"}, busy : SUBSET Flags,
         typed : Accounts \cup {Nobody}, temp : Accounts \cup {Nobody},
         note : BOOLEAN, password : BOOLEAN, shown : {NoSecret} \cup Secrets,
         panels : SUBSET {"setup", "disable"}]

FreshForm == [step |-> "first", busy |-> {}, typed |-> Nobody, temp |-> Nobody,
              note |-> FALSE, password |-> FALSE, shown |-> NoSecret, panels |-> {}]

NoCall == [kind |-> "none", form |-> "none", who |-> Nobody, code |-> NoSecret,
           at |-> "page", reply |-> "none", mfa |-> FALSE]

Call == [kind : Forms \cup {"me"}, form : Forms \cup {"boot"},
         who : Accounts \cup {Nobody}, code : {NoSecret} \cup Secrets,
         at : {"page", "left", "gone"}, reply : {"pending", "ok", "second", "fail"},
         mfa : BOOLEAN]

Row == [known : BOOLEAN, mfa : BOOLEAN, secret : {NoSecret} \cup Secrets]

TypeOK ==
  /\ token \in Accounts \cup {Nobody}
  /\ user \in [who : Accounts \cup {Nobody}, mfa : BOOLEAN]
  /\ splash \in BOOLEAN
  /\ page \in GuestPages \cup MemberPages
  /\ form \in Form
  /\ calls \in [Fetches -> Call \cup {NoCall}]
  /\ account \in [Accounts -> Row]
  /\ secrets \in 0 .. MaxSecrets
  /\ app \subseteq Secrets

-----------------------------------------------------------------------------
(* Routes.                                                                 *)

\* RequireAuth and GuestOnly: where the route p leads for this user.
Guarded(p, who) ==
  CASE p \in MemberPages /\ who = Nobody -> "login"
    [] p \in GuestPages /\ who # Nobody -> "home"
    [] OTHER -> p

\* The page is left: its requests are answered to nobody's view.
Left(c) == IF c.reply # "none" /\ c.at = "page" THEN [c EXCEPT !.at = "left"] ELSE c

Arrive(p, who, remaining) ==
  /\ page' = Guarded(p, who)
  /\ form' = FreshForm
  /\ calls' = [f \in Fetches |-> IF f \in remaining THEN Left(calls[f]) ELSE NoCall]

Open(p) ==
  /\ ~splash
  /\ Guarded(p, user.who) # page
  /\ Arrive(p, user.who, Fetches)
  /\ UNCHANGED <<signedIn, server>>

\* Variant: the token stays in local storage.
LogoutKeepingToken ==
  /\ ~splash /\ page \in MemberPages
  /\ user' = SignedOut
  /\ Arrive("login", Nobody, Fetches)
  /\ UNCHANGED <<token, splash, server>>

Logout ==
  /\ ~splash /\ page \in MemberPages
  /\ token' = Nobody
  /\ user' = SignedOut
  /\ Arrive("login", Nobody, Fetches)
  /\ UNCHANGED <<splash, server>>

Boot(f) ==
  [NoCall EXCEPT !.kind = "me", !.form = "boot", !.who = token, !.reply = "pending"]

\* The tab is loaded again: everything but the token is forgotten, requests
\* that are on the way may still be served.
Reload(f) ==
  /\ calls[f] = NoCall
  /\ user' = SignedOut
  /\ splash' = (token # Nobody)
  /\ page' = IF token = Nobody THEN Guarded(page, Nobody) ELSE page
  /\ form' = FreshForm
  /\ calls' = [g \in Fetches |->
                 CASE g = f -> IF token = Nobody THEN NoCall ELSE Boot(f)
                   [] g # f /\ calls[g].reply = "pending" -> [calls[g] EXCEPT !.at = "gone"]
                   [] OTHER -> NoCall]
  /\ UNCHANGED <<token, server>>

-----------------------------------------------------------------------------
(* Forms.                                                                  *)

\* The form k is on the screen.
LoginForm(k) ==
  page = "login" /\ form.step = IF k = "login" THEN "first" ELSE "code"

RegisterForm(k) ==
  page = "register" /\ form.step = IF k = "registerRequest" THEN "first" ELSE "code"

ForgotForm(k) ==
  page = "forgot" /\ form.step = IF k = "forgotRequest" THEN "first" ELSE "code"

SetupForm(k) == ~user.mfa /\ (k = "mfaSetup" <=> "setup" \notin form.panels)

DisableForm == user.mfa /\ "disable" \in form.panels

ProfileForm(k) ==
  /\ page = "profile"
  /\ k \in {"mfaSetup", "mfaEnable"} => SetupForm(k)
  /\ k = "mfaDisable" => DisableForm

OnScreen(k) ==
  /\ ~splash
  /\ CASE k \in {"login", "mfaLogin"} -> LoginForm(k)
       [] k \in {"registerRequest", "registerVerify"} -> RegisterForm(k)
       [] k \in {"forgotRequest", "forgotVerify"} -> ForgotForm(k)
       [] k \in ProfileForms -> ProfileForm(k)

\* Once there is a message of success and a new password, the fields and the
\* button of the reset form are disabled: "Redirecting".
ResetDone == form.note /\ form.password

Enabled(k) ==
  /\ OnScreen(k)
  /\ Flag(k) \notin form.busy
  /\ k = "forgotVerify" => form.password /\ ~ResetDone

\* Whom a request is about: the account of the address typed in, that of the
\* temporary token, or, in a request with the token, the token's.
Subjects(k) ==
  CASE k = "mfaLogin" -> {form.temp}
    [] k \in ProfileForms -> {token}
    [] k = "login" -> Accounts \cup {Nobody}
    [] k = "registerVerify" -> Accounts
    [] OTHER -> {Nobody}

\* The secret on the screen is added to the app before a code of it is typed.
InApp(k) == IF k = "mfaEnable" THEN app \cup ({form.shown} \ {NoSecret}) ELSE app

\* The codes a person can type: one of the app's, or a wrong one.
CodesFor(k) ==
  IF k \in {"mfaLogin", "mfaEnable", "mfaDisable"} THEN {NoSecret} \cup InApp(k) ELSE {NoSecret}

Submit(f, k) ==
  /\ Enabled(k)
  /\ calls[f] = NoCall
  /\ \E who \in Subjects(k), code \in CodesFor(k) :
       /\ calls' = [calls EXCEPT ![f] =
                      [kind |-> k, form |-> k, who |-> who, code |-> code,
                       at |-> "page", reply |-> "pending", mfa |-> FALSE]]
       /\ form' = [form EXCEPT !.busy = @ \cup {Flag(k)},
                               !.typed = IF k = "login" THEN who ELSE @]
  /\ app' = InApp(k)
  /\ UNCHANGED <<signedIn, page, account, secrets>>

\* "Back to sign in", "Resend code", "Use a different email".
BackToFirst ==
  /\ ~splash /\ page \in GuestPages /\ form.step = "code"
  /\ form' = [form EXCEPT !.step = "first", !.note = FALSE]
  /\ UNCHANGED <<signedIn, page, calls, server>>

TypeNewPassword ==
  /\ ~splash /\ page = "forgot" /\ form.step = "code" /\ ~form.password
  /\ form' = [form EXCEPT !.password = TRUE]
  /\ UNCHANGED <<signedIn, page, calls, server>>

\* The panels of the profile page: "Disable MFA" opens one, "Cancel" closes
\* either; the setup panel opens with the answer to its request.
OpenDisable ==
  /\ ~splash /\ page = "profile" /\ user.mfa /\ "disable" \notin form.panels
  /\ form' = [form EXCEPT !.panels = @ \cup {"disable"}]
  /\ UNCHANGED <<signedIn, page, calls, server>>

Cancel ==
  /\ ~splash /\ page = "profile"
  /\ \E panel \in form.panels :
       /\ panel = IF user.mfa THEN "disable" ELSE "setup"
       /\ form' = [form EXCEPT !.panels = @ \ {panel},
                               !.shown = IF panel = "setup" THEN NoSecret ELSE @]
  /\ UNCHANGED <<signedIn, page, calls, server>>

-----------------------------------------------------------------------------
(* The server.  A refusal stands for every error before the effect: a      *)
(* wrong password, a token out of date, a request lost.                    *)

Asked(f, kinds) == calls[f].reply = "pending" /\ calls[f].kind \in kinds

Known(who) == who # Nobody /\ account[who].known

\* Something is done with the answer r to c: on its page anything, when the
\* page is left what is not in the page's own state, in a lost tab nothing.
Awaited(c, r) ==
  \/ c.at = "page"
  \/ c.at = "left" /\ (c.kind = "me" \/ (r = "ok" /\ c.kind \in Lasting))

Answered(f, r, code, mfa) ==
  calls' = [calls EXCEPT ![f] =
              IF Awaited(@, r) THEN [@ EXCEPT !.reply = r, !.code = code, !.mfa = mfa]
              ELSE NoCall]

Refuse(f) ==
  /\ calls[f].reply = "pending"
  /\ Answered(f, "fail", NoSecret, FALSE)
  /\ UNCHANGED <<signedIn, page, form, server>>

ServeLogin(f) ==
  /\ Asked(f, {"login"}) /\ Known(calls[f].who)
  /\ Answered(f, IF account[calls[f].who].mfa THEN "second" ELSE "ok", NoSecret, FALSE)
  /\ UNCHANGED <<signedIn, page, form, server>>

\* MFALoginVerify does not look at MFAEnabled.
ServeSecondStep(f) ==
  /\ Asked(f, {"mfaLogin"}) /\ Known(calls[f].who)
  /\ calls[f].code # NoSecret /\ calls[f].code = account[calls[f].who].secret
  /\ Answered(f, "ok", NoSecret, FALSE)
  /\ UNCHANGED <<signedIn, page, form, server>>

ServeMe(f) ==
  /\ Asked(f, {"me"}) /\ Known(calls[f].who)
  /\ Answered(f, "ok", NoSecret, account[calls[f].who].mfa)
  /\ UNCHANGED <<signedIn, page, form, server>>

\* The handlers whose effect is on data not modelled.
ServeOther(f) ==
  /\ \/ Asked(f, {"registerRequest", "forgotRequest", "forgotVerify"})
     \/ Asked(f, {"updateProfile", "changePassword"}) /\ Known(calls[f].who)
  /\ Answered(f, "ok", NoSecret, FALSE)
  /\ UNCHANGED <<signedIn, page, form, server>>

\* An effect on the table, after which the answer may still be lost.
Effect(f, after, code) ==
  /\ account' = [account EXCEPT ![calls[f].who] = after]
  /\ \/ Answered(f, "ok", code, FALSE)
     \/ Answered(f, "fail", NoSecret, FALSE)
  /\ UNCHANGED <<signedIn, page, form, app>>

ServeRegistration(f) ==
  /\ Asked(f, {"registerVerify"}) /\ ~account[calls[f].who].known
  /\ Effect(f, [known |-> TRUE, mfa |-> FALSE, secret |-> NoSecret], NoSecret)
  /\ UNCHANGED secrets

\* Variants: MFA stays as it is; the secret stored is not the one answered.
NewSecretKeepingMFA(row, secret) == [row EXCEPT !.secret = secret]
NewSecretAhead(row, secret) == [row EXCEPT !.mfa = FALSE, !.secret = secret + 1]

\* UpdateMFA(user, false, secret): setting up turns MFA off until confirmed.
NewSecret(row, secret) == [row EXCEPT !.mfa = FALSE, !.secret = secret]

ServeSetup(f) ==
  /\ Asked(f, {"mfaSetup"}) /\ Known(calls[f].who)
  /\ secrets < MaxSecrets
  /\ secrets' = secrets + 1
  /\ Effect(f, NewSecret(account[calls[f].who], secrets + 1), secrets + 1)

ServeEnable(f) ==
  /\ Asked(f, {"mfaEnable"}) /\ Known(calls[f].who)
  /\ calls[f].code # NoSecret /\ calls[f].code = account[calls[f].who].secret
  /\ Effect(f, [account[calls[f].who] EXCEPT !.mfa = TRUE], NoSecret)
  /\ UNCHANGED secrets

ServeDisable(f) ==
  /\ Asked(f, {"mfaDisable"}) /\ Known(calls[f].who)
  /\ account[calls[f].who].mfa /\ calls[f].code = account[calls[f].who].secret
  /\ Effect(f, [account[calls[f].who] EXCEPT !.mfa = FALSE, !.secret = NoSecret], NoSecret)
  /\ UNCHANGED secrets

Serve(f) ==
  \/ Refuse(f)
  \/ ServeLogin(f) \/ ServeSecondStep(f) \/ ServeMe(f) \/ ServeOther(f)
  \/ ServeRegistration(f) \/ ServeSetup(f) \/ ServeEnable(f) \/ ServeDisable(f)

-----------------------------------------------------------------------------
(* The rest of a handler, with the answer.                                 *)

Got(f, kinds, r) == calls[f].kind \in kinds /\ calls[f].reply = r

\* The answer is in: the page, if it is still there, becomes after and its
\* button is back.
Release(f, after) ==
  /\ calls' = [calls EXCEPT ![f] = NoCall]
  /\ form' = IF calls[f].at = "page"
             THEN [after EXCEPT !.busy = @ \ {Flag(calls[f].form)}] ELSE form

\* Variant: the flag is cleared in the try block only.
FailedWithoutFinally(f) ==
  /\ Got(f, Forms, "fail")
  /\ calls' = [calls EXCEPT ![f] = NoCall]
  /\ UNCHANGED <<signedIn, page, form, server>>

Failed(f) ==
  /\ Got(f, Forms, "fail")
  /\ Release(f, form)
  /\ UNCHANGED <<signedIn, page, server>>

\* setToken, setUser, navigate('/'): done whether or not the page is left.
LoggedIn(f) ==
  /\ Got(f, {"login"}, "ok")
  /\ token' = calls[f].who
  /\ user' = [who |-> calls[f].who, mfa |-> calls[f].mfa]
  /\ Arrive("home", calls[f].who, Fetches \ {f})
  /\ UNCHANGED <<splash, server>>

SecondStepAsked(f) ==
  /\ Got(f, {"login"}, "second")
  /\ Release(f, [form EXCEPT !.step = "code", !.temp = calls[f].who])
  /\ UNCHANGED <<signedIn, page, server>>

\* The second step and registration store the token, and navigate('/') with
\* the user AuthContext had.
TokenStored(f) ==
  /\ Got(f, {"mfaLogin", "registerVerify"}, "ok")
  /\ token' = calls[f].who
  /\ Arrive("home", user.who, Fetches \ {f})
  /\ UNCHANGED <<user, splash, server>>

Messaged(f) ==
  /\ Got(f, {"registerRequest", "forgotRequest", "forgotVerify"}, "ok")
  /\ Release(f, [form EXCEPT !.step = "code", !.note = (page = "forgot")])
  /\ UNCHANGED <<signedIn, page, server>>

PasswordChanged(f) ==
  /\ Got(f, {"changePassword"}, "ok")
  /\ Release(f, form)
  /\ UNCHANGED <<signedIn, page, server>>

SetupAnswered(f) ==
  /\ Got(f, {"mfaSetup"}, "ok")
  /\ Release(f, [form EXCEPT !.shown = calls[f].code, !.panels = @ \cup {"setup"}])
  /\ UNCHANGED <<signedIn, page, server>>

\* await refreshUser() within a handler: a request with the token of now.
Refreshing(f) ==
  /\ Got(f, {"updateProfile", "mfaEnable", "mfaDisable"}, "ok")
  /\ calls' = [calls EXCEPT ![f].kind = "me", ![f].who = token, ![f].reply = "pending"]
  /\ UNCHANGED <<signedIn, page, form, server>>

\* What the handler does after refreshUser, which never throws.
Closed(k) ==
  CASE k = "mfaEnable" -> [form EXCEPT !.panels = @ \ {"setup"}, !.shown = NoSecret]
    [] k = "mfaDisable" -> [form EXCEPT !.panels = @ \ {"disable"}]
    [] OTHER -> form

\* Variant: the route is guarded when it is entered only.
KeptOnceThere(p, who) == TRUE

\* The guards of the route see the new user at once.
Kept(p, who) == Guarded(p, who) = p

RefreshTo(f, now) ==
  /\ user' = now
  /\ splash' = (splash /\ calls[f].form # "boot")
  /\ IF splash' \/ Kept(page, now.who)
     THEN Release(f, Closed(calls[f].form)) /\ UNCHANGED page
     ELSE Arrive(page, now.who, Fetches \ {f})
  /\ UNCHANGED server

Refreshed(f) ==
  /\ Got(f, {"me"}, "ok")
  /\ RefreshTo(f, [who |-> calls[f].who, mfa |-> calls[f].mfa])
  /\ UNCHANGED token

\* Variant: an error of refreshUser is nobody's.
RefreshThrown(f) == FALSE

RefreshFailed(f) ==
  /\ Got(f, {"me"}, "fail")
  /\ RefreshTo(f, SignedOut)
  /\ token' = Nobody

Deliver(f) ==
  \/ Failed(f)
  \/ LoggedIn(f) \/ SecondStepAsked(f) \/ TokenStored(f)
  \/ Messaged(f) \/ PasswordChanged(f) \/ SetupAnswered(f)
  \/ Refreshing(f) \/ Refreshed(f) \/ RefreshFailed(f)

-----------------------------------------------------------------------------
\* The tab is opened with whatever token an earlier visit left.
Init ==
  /\ token \in Accounts \cup {Nobody}
  /\ user = SignedOut
  /\ splash = (token # Nobody)
  /\ page = "login"
  /\ form = FreshForm
  /\ \E f \in Fetches :
       calls = [g \in Fetches |-> IF g = f /\ token # Nobody THEN Boot(f) ELSE NoCall]
  /\ account \in [Accounts -> [known : BOOLEAN, mfa : {FALSE}, secret : {NoSecret}]]
  /\ token # Nobody => account[token].known
  /\ secrets = 0
  /\ app = {}

Next ==
  \/ \E p \in GuestPages \cup MemberPages : Open(p)
  \/ Logout
  \/ BackToFirst \/ TypeNewPassword \/ OpenDisable \/ Cancel
  \/ \E f \in Fetches :
       \/ Reload(f)
       \/ \E k \in Forms : Submit(f, k)
       \/ Serve(f)
       \/ Deliver(f)

Spec == Init /\ [][Next]_vars

\* A request ends, and the handler that awaits it goes on.
FairSpec == Spec /\ \A f \in Fetches : WF_vars(Serve(f)) /\ WF_vars(Deliver(f))

-----------------------------------------------------------------------------
(* Properties.                                                             *)

\* The handler of f holds the flag of a form on the screen.
Holds(f, flag) ==
  calls[f].reply # "none" /\ calls[f].at = "page" /\ Flag(calls[f].form) = flag

\* A button is disabled exactly while a request of its form is unanswered,
\* and there is never a second: setLoading(true) before the request and the
\* finally of each handler, whatever was left, opened again or loaded again.
OneRequestPerButton ==
  \A flag \in Flags :
    /\ flag \in form.busy <=> \E f \in Fetches : Holds(f, flag)
    /\ \A f, g \in Fetches : Holds(f, flag) /\ Holds(g, flag) => f = g

\* The second step of a login is that of the account typed in the first: the
\* temporary token of LoginPage is never that of an earlier attempt.
SecondStepIsOfTyped ==
  page = "login" /\ form.step = "code" => form.temp = form.typed

\* An account asks for codes only when its owner has confirmed one of the
\* secret it holds: MFA is on only for a secret that is in the app, whatever
\* setups, confirmations and answers overlap or are lost.
NoLockout ==
  \A a \in Accounts : account[a].mfa => account[a].secret \in app

\* Nobody who is signed out, by logging out or by a refresh that failed
\* meanwhile, stays on a page behind RequireAuth; nobody signed in on one
\* behind GuestOnly.
RoutesAreGuarded == ~splash => Guarded(page, user.who) = page

Agreed == user.who = token

\* The answer of f: a refresh asked with an earlier token, or a sign-in that
\* leaves AuthContext alone.
Separates(f) ==
  /\ calls[f].reply # "pending" /\ calls'[f] = NoCall
  /\ \/ calls[f].kind = "me" /\ calls[f].who # token
     \/ calls[f].kind \in {"mfaLogin", "registerVerify"}

\* The token in storage and the user on the screen are of one account, and
\* go together: only a refresh that outlived its token and the two sign-ins
\* that store a token alone take them apart.
SignedInTogether ==
  [][~splash /\ Agreed => Agreed' \/ splash' \/ \E f \in Fetches : Separates(f)]_vars

\* Every handler ends, refreshUser included, and with it (OneRequestPerButton)
\* the time its button is disabled: nothing a page leaves behind stops it.
HandlersEnd ==
  \A f \in Fetches : calls[f] # NoCall ~> calls[f] = NoCall
=============================================================================
