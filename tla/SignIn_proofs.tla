---------------------------- MODULE SignIn_proofs ----------------------------
(***************************************************************************)
(* Proofs about SignIn, for all accounts, any number of requests and any   *)
(* number of secrets.                                                      *)
(***************************************************************************)
EXTENDS SignIn, TLAPS

USE ConstantsAssumption

-----------------------------------------------------------------------------
(* Types.                                                                  *)

LEMMA FreshFormIsForm == FreshForm \in Form
BY DEF FreshForm, Form

LEMMA LiveCall ==
  ASSUME TypeOK, NEW f \in Fetches, calls[f].reply # "none"
  PROVE  calls[f] \in Call
BY DEF TypeOK, NoCall

LEMMA ArrivalTyped ==
  ASSUME TypeOK, NEW p \in GuestPages \cup MemberPages,
         NEW who \in Accounts \cup {Nobody}, NEW remaining \in SUBSET Fetches,
         Arrive(p, who, remaining)
  PROVE  /\ page' \in GuestPages \cup MemberPages
         /\ form' \in Form
         /\ calls' \in [Fetches -> Call \cup {NoCall}]
<1>1. page' \in GuestPages \cup MemberPages
  BY DEF Arrive, Guarded, GuestPages, MemberPages
<1>2. \A f \in Fetches : Left(calls[f]) \in Call \cup {NoCall}
  BY DEF TypeOK, Left, Call, NoCall
<1>3. QED BY <1>1, <1>2, FreshFormIsForm DEF Arrive

LEMMA ReleaseTyped ==
  ASSUME TypeOK, NEW f \in Fetches, NEW after \in Form, Release(f, after)
  PROVE  /\ calls' \in [Fetches -> Call \cup {NoCall}]
         /\ form' \in Form
BY DEF Release, TypeOK, Form

LEMMA AnswerTyped ==
  ASSUME TypeOK, NEW f \in Fetches, calls[f].reply = "pending",
         NEW r \in {"ok", "second", "fail"}, NEW code \in {NoSecret} \cup Secrets,
         NEW mfa \in BOOLEAN, Answered(f, r, code, mfa)
  PROVE  calls' \in [Fetches -> Call \cup {NoCall}]
<1>1. calls[f] \in Call
  BY LiveCall
<1>2. [calls[f] EXCEPT !.reply = r, !.code = code, !.mfa = mfa] \in Call
  BY <1>1 DEF Call
<1>3. QED BY <1>2 DEF Answered, TypeOK

LEMMA EffectTyped ==
  ASSUME TypeOK, NEW f \in Fetches, calls[f].reply = "pending",
         NEW after \in Row, NEW code \in {NoSecret} \cup Secrets,
         Effect(f, after, code)
  PROVE  /\ account' \in [Accounts -> Row]
         /\ calls' \in [Fetches -> Call \cup {NoCall}]
<1>1. account' \in [Accounts -> Row]
  BY DEF Effect, TypeOK
<1>2. CASE Answered(f, "ok", code, FALSE)
  BY <1>1, <1>2, AnswerTyped
<1>3. CASE Answered(f, "fail", NoSecret, FALSE)
  BY <1>1, <1>3, AnswerTyped
<1>4. QED BY <1>2, <1>3 DEF Effect

LEMMA TypeInit == Init => TypeOK
<1>1. SUFFICES ASSUME Init PROVE TypeOK
  OBVIOUS
<1>2. token # Nobody => [kind |-> "me", form |-> "boot", who |-> token, code |-> NoSecret,
                         at |-> "page", reply |-> "pending", mfa |-> FALSE] \in Call
  BY <1>1 DEF Init, Call
<1>3. calls \in [Fetches -> Call \cup {NoCall}]
  BY ZenonT(40), <1>1, <1>2 DEF Init, Boot, NoCall
<1>4. account \in [Accounts -> Row]
  BY <1>1 DEF Init, Row
<1>5. secrets \in 0 .. MaxSecrets
  BY <1>1 DEF Init, ConstantsAssumption
<1>6. QED BY <1>1, <1>3, <1>4, <1>5, FreshFormIsForm DEF Init, TypeOK, SignedOut, GuestPages

LEMMA BrowserStepTyped ==
  ASSUME TypeOK
  PROVE  /\ \A p \in GuestPages \cup MemberPages : Open(p) => TypeOK'
         /\ Logout => TypeOK'
         /\ BackToFirst => TypeOK'
         /\ TypeNewPassword => TypeOK'
         /\ OpenDisable => TypeOK'
         /\ Cancel => TypeOK'
<1>1. ASSUME NEW p \in GuestPages \cup MemberPages, Open(p) PROVE TypeOK'
  <2>1. user.who \in Accounts \cup {Nobody}
    BY DEF TypeOK
  <2>2. QED BY <1>1, <2>1, ArrivalTyped DEF Open, TypeOK, signedIn, server
<1>2. ASSUME Logout PROVE TypeOK'
  <2>1. /\ page' \in GuestPages \cup MemberPages
        /\ form' \in Form
        /\ calls' \in [Fetches -> Call \cup {NoCall}]
    BY <1>2, ArrivalTyped DEF Logout, GuestPages
  <2>2. QED BY <1>2, <2>1 DEF Logout, TypeOK, SignedOut, server
<1>3. ASSUME BackToFirst PROVE TypeOK'
  BY <1>3 DEF BackToFirst, TypeOK, Form, signedIn, server
<1>4. ASSUME TypeNewPassword PROVE TypeOK'
  BY <1>4 DEF TypeNewPassword, TypeOK, Form, signedIn, server
<1>5. ASSUME OpenDisable PROVE TypeOK'
  BY <1>5 DEF OpenDisable, TypeOK, Form, signedIn, server
<1>6. ASSUME Cancel PROVE TypeOK'
  <2>1. PICK panel \in form.panels :
          form' = [form EXCEPT !.panels = @ \ {panel},
                               !.shown = IF panel = "setup" THEN NoSecret ELSE @]
    BY <1>6 DEF Cancel
  <2>2. form' \in Form
    BY <2>1 DEF TypeOK, Form
  <2>3. QED BY <1>6, <2>2 DEF Cancel, TypeOK, signedIn, server
<1>7. QED BY <1>1, <1>2, <1>3, <1>4, <1>5, <1>6

LEMMA ReloadTyped ==
  ASSUME TypeOK, NEW f \in Fetches, Reload(f)
  PROVE  TypeOK'
<1>1. token # Nobody => Boot(f) \in Call
  BY DEF TypeOK, Boot, NoCall, Call
<1>2. \A g \in Fetches : calls[g].reply = "pending" =>
        [calls[g] EXCEPT !.at = "gone"] \in Call
  BY LiveCall DEF Call
<1>3. calls' \in [Fetches -> Call \cup {NoCall}]
  BY <1>1, <1>2 DEF Reload
<1>4. page' \in GuestPages \cup MemberPages
  BY DEF Reload, Guarded, TypeOK, GuestPages, MemberPages
<1>5. QED BY <1>3, <1>4, FreshFormIsForm DEF Reload, TypeOK, SignedOut, server

LEMMA SubmitTyped ==
  ASSUME TypeOK, NEW f \in Fetches, NEW k \in Forms, Submit(f, k)
  PROVE  TypeOK'
<1>1. app' \subseteq Secrets /\ InApp(k) \subseteq Secrets
  BY DEF Submit, InApp, TypeOK, Form
<1>2. Subjects(k) \subseteq Accounts \cup {Nobody}
  BY DEF Subjects, TypeOK, Form
<1>3. CodesFor(k) \subseteq {NoSecret} \cup Secrets
  BY <1>1 DEF CodesFor
<1>4. PICK who \in Subjects(k), code \in CodesFor(k) :
        /\ calls' = [calls EXCEPT ![f] =
                       [kind |-> k, form |-> k, who |-> who, code |-> code,
                        at |-> "page", reply |-> "pending", mfa |-> FALSE]]
        /\ form' = [form EXCEPT !.busy = @ \cup {Flag(k)},
                                !.typed = IF k = "login" THEN who ELSE @]
  BY DEF Submit
<1>5. calls' \in [Fetches -> Call \cup {NoCall}]
  BY <1>2, <1>3, <1>4 DEF TypeOK, Call
<1>6. form' \in Form
  BY <1>2, <1>4 DEF TypeOK, Form, Flags
<1>7. QED BY <1>1, <1>5, <1>6 DEF Submit, TypeOK, signedIn

LEMMA ServeTyped ==
  ASSUME TypeOK, NEW f \in Fetches, Serve(f)
  PROVE  TypeOK'
<1>1. calls[f].reply = "pending"
  BY DEF Serve, Refuse, ServeLogin, ServeSecondStep, ServeMe, ServeOther,
         ServeRegistration, ServeSetup, ServeEnable, ServeDisable, Asked
<1>2. calls[f] \in Call
  BY <1>1, LiveCall
<1>3. ASSUME \E r \in {"ok", "second", "fail"}, mfa \in BOOLEAN :
               Answered(f, r, NoSecret, mfa),
             UNCHANGED <<signedIn, page, form, server>>
      PROVE  TypeOK'
  <2>1. calls' \in [Fetches -> Call \cup {NoCall}]
    BY <1>1, <1>3, AnswerTyped
  <2>2. QED BY <1>3, <2>1 DEF TypeOK, signedIn, server
<1>4. ASSUME NEW after \in Row, NEW code \in {NoSecret} \cup Secrets,
             Effect(f, after, code), secrets' \in 0 .. MaxSecrets
      PROVE  TypeOK'
  <2>1. /\ account' \in [Accounts -> Row]
        /\ calls' \in [Fetches -> Call \cup {NoCall}]
    BY <1>1, <1>4, EffectTyped
  <2>2. QED BY <1>4, <2>1 DEF TypeOK, Effect, signedIn
<1>5. CASE Refuse(f)
  BY <1>3, <1>5 DEF Refuse
<1>6. CASE ServeLogin(f)
  BY <1>3, <1>6 DEF ServeLogin
<1>7. CASE ServeSecondStep(f)
  BY <1>3, <1>7 DEF ServeSecondStep
<1>8. CASE ServeMe(f)
  <2>1. account[calls[f].who].mfa \in BOOLEAN
    BY <1>2, <1>8 DEF ServeMe, Known, TypeOK, Row, Call
  <2>2. QED BY <1>3, <1>8, <2>1 DEF ServeMe
<1>9. CASE ServeOther(f)
  BY <1>3, <1>9 DEF ServeOther
<1>10. CASE ServeRegistration(f)
  <2>1. [known |-> TRUE, mfa |-> FALSE, secret |-> NoSecret] \in Row
    BY DEF Row
  <2>2. QED BY <1>4, <1>10, <2>1 DEF ServeRegistration, TypeOK
<1>11. CASE ServeSetup(f)
  <2>1. secrets + 1 \in Secrets /\ secrets' \in 0 .. MaxSecrets
    BY <1>11 DEF ServeSetup, TypeOK, Secrets
  <2>2. NewSecret(account[calls[f].who], secrets + 1) \in Row
    BY ZenonT(40), <1>2, <1>11, <2>1 DEF ServeSetup, Known, NewSecret, TypeOK, Row, Call
  <2>3. QED BY <1>4, <1>11, <2>1, <2>2 DEF ServeSetup
<1>12. CASE ServeEnable(f)
  <2>1. [account[calls[f].who] EXCEPT !.mfa = TRUE] \in Row
    BY ZenonT(40), <1>2, <1>12 DEF ServeEnable, Known, TypeOK, Row, Call
  <2>2. QED BY <1>4, <1>12, <2>1 DEF ServeEnable, TypeOK
<1>13. CASE ServeDisable(f)
  <2>1. [account[calls[f].who] EXCEPT !.mfa = FALSE, !.secret = NoSecret] \in Row
    BY ZenonT(40), <1>2, <1>13 DEF ServeDisable, Known, TypeOK, Row, Call
  <2>2. QED BY <1>4, <1>13, <2>1 DEF ServeDisable, TypeOK
<1>14. QED BY <1>5, <1>6, <1>7, <1>8, <1>9, <1>10, <1>11, <1>12, <1>13 DEF Serve

LEMMA RefreshTyped ==
  ASSUME TypeOK, NEW f \in Fetches, calls[f].reply # "none",
         NEW now \in [who : Accounts \cup {Nobody}, mfa : BOOLEAN], RefreshTo(f, now),
         token' \in Accounts \cup {Nobody}
  PROVE  TypeOK'
<1>1. CASE splash' \/ Kept(page, now.who)
  <2>1. Closed(calls[f].form) \in Form
    BY DEF Closed, TypeOK, Form
  <2>2. /\ calls' \in [Fetches -> Call \cup {NoCall}]
        /\ form' \in Form
    BY <1>1, <2>1, ReleaseTyped DEF RefreshTo
  <2>3. QED BY <1>1, <2>2 DEF RefreshTo, TypeOK, server
<1>2. CASE ~(splash' \/ Kept(page, now.who))
  <2>1. page \in GuestPages \cup MemberPages /\ now.who \in Accounts \cup {Nobody}
    BY DEF TypeOK
  <2>2. /\ page' \in GuestPages \cup MemberPages
        /\ form' \in Form
        /\ calls' \in [Fetches -> Call \cup {NoCall}]
    BY <1>2, <2>1, ArrivalTyped DEF RefreshTo
  <2>3. QED BY <2>2 DEF RefreshTo, TypeOK, server
<1>3. QED BY <1>1, <1>2

LEMMA DeliverTyped ==
  ASSUME TypeOK, NEW f \in Fetches, Deliver(f)
  PROVE  TypeOK'
<1>1. calls[f].reply # "none"
  BY DEF Deliver, Failed, LoggedIn, SecondStepAsked, TokenStored, Messaged, PasswordChanged,
         SetupAnswered, Refreshing, Refreshed, RefreshFailed, Got
<1>2. calls[f] \in Call
  BY <1>1, LiveCall
<1>3. ASSUME NEW after \in Form, Release(f, after), UNCHANGED <<signedIn, page, server>>
      PROVE  TypeOK'
  <2>1. /\ calls' \in [Fetches -> Call \cup {NoCall}]
        /\ form' \in Form
    BY <1>3, ReleaseTyped
  <2>2. QED BY <1>3, <2>1 DEF TypeOK, signedIn, server
<1>4. form \in Form
  BY DEF TypeOK
<1>5. CASE Failed(f)
  BY <1>3, <1>4, <1>5 DEF Failed
<1>6. CASE LoggedIn(f)
  <2>1. calls[f].who \in Accounts \cup {Nobody} /\ calls[f].mfa \in BOOLEAN
    BY <1>2 DEF Call
  <2>2. /\ page' \in GuestPages \cup MemberPages
        /\ form' \in Form
        /\ calls' \in [Fetches -> Call \cup {NoCall}]
    BY <1>6, <2>1, ArrivalTyped DEF LoggedIn, MemberPages
  <2>3. QED BY <1>6, <2>1, <2>2 DEF LoggedIn, TypeOK, server
<1>7. CASE SecondStepAsked(f)
  <2>1. [form EXCEPT !.step = "code", !.temp = calls[f].who] \in Form
    BY <1>2, <1>4 DEF Form, Call
  <2>2. QED BY <1>3, <1>7, <2>1 DEF SecondStepAsked
<1>8. CASE TokenStored(f)
  <2>1. calls[f].who \in Accounts \cup {Nobody} /\ user.who \in Accounts \cup {Nobody}
    BY <1>2 DEF Call, TypeOK
  <2>2. /\ page' \in GuestPages \cup MemberPages
        /\ form' \in Form
        /\ calls' \in [Fetches -> Call \cup {NoCall}]
    BY <1>8, <2>1, ArrivalTyped DEF TokenStored, MemberPages
  <2>3. QED BY <1>8, <2>1, <2>2 DEF TokenStored, TypeOK, server
<1>9. CASE Messaged(f)
  <2>1. [form EXCEPT !.step = "code", !.note = (page = "forgot")] \in Form
    BY <1>4 DEF Form
  <2>2. QED BY <1>3, <1>9, <2>1 DEF Messaged
<1>10. CASE PasswordChanged(f)
  BY <1>3, <1>4, <1>10 DEF PasswordChanged
<1>11. CASE SetupAnswered(f)
  <2>1. [form EXCEPT !.shown = calls[f].code, !.panels = @ \cup {"setup"}] \in Form
    BY <1>2, <1>4 DEF Form, Call
  <2>2. QED BY <1>3, <1>11, <2>1 DEF SetupAnswered
<1>12. CASE Refreshing(f)
  <2>1. [calls[f] EXCEPT !.kind = "me", !.who = token, !.reply = "pending"] \in Call
    BY <1>2 DEF Call, TypeOK
  <2>2. calls' \in [Fetches -> Call \cup {NoCall}]
    BY <1>12, <2>1 DEF Refreshing, TypeOK
  <2>3. QED BY <1>12, <2>2 DEF Refreshing, TypeOK, signedIn, server
<1>13. CASE Refreshed(f)
  <2>1. [who |-> calls[f].who, mfa |-> calls[f].mfa]
          \in [who : Accounts \cup {Nobody}, mfa : BOOLEAN]
    BY <1>2 DEF Call
  <2>2. token' \in Accounts \cup {Nobody}
    BY <1>13 DEF Refreshed, TypeOK
  <2>3. QED BY <1>1, <1>13, <2>1, <2>2, RefreshTyped DEF Refreshed
<1>14. CASE RefreshFailed(f)
  <2>1. SignedOut \in [who : Accounts \cup {Nobody}, mfa : BOOLEAN]
    BY DEF SignedOut
  <2>2. token' \in Accounts \cup {Nobody}
    BY <1>14 DEF RefreshFailed
  <2>3. QED BY <1>1, <1>14, <2>1, <2>2, RefreshTyped DEF RefreshFailed
<1>15. QED BY <1>5, <1>6, <1>7, <1>8, <1>9, <1>10, <1>11, <1>12, <1>13, <1>14 DEF Deliver

LEMMA TypeStep == TypeOK /\ [Next]_vars => TypeOK'
<1>1. SUFFICES ASSUME TypeOK, [Next]_vars PROVE TypeOK'
  OBVIOUS
<1>2. CASE UNCHANGED vars
  BY <1>1, <1>2 DEF vars, TypeOK
<1>3. CASE Next
  BY <1>1, <1>3, BrowserStepTyped, ReloadTyped, SubmitTyped, ServeTyped, DeliverTyped DEF Next
<1>4. QED BY <1>1, <1>2, <1>3

\* The state is well-typed.
THEOREM TypeCorrect == Spec => []TypeOK
BY TypeInit, TypeStep, PTL DEF Spec

-----------------------------------------------------------------------------
(* Codes of MFA.  A confirmation on its way carries a code of a secret     *)
(* that was in the app when it was typed, and the app forgets none.        *)

CodesAreFromApp ==
  \A f \in Fetches : calls[f].kind = "mfaEnable" /\ calls[f].reply = "pending" =>
    calls[f].code \in {NoSecret} \cup app

ConfirmedInv == NoLockout /\ CodesAreFromApp

\* No confirmation is sent.
NothingConfirmed ==
  \A f \in Fetches : calls'[f].kind = "mfaEnable" /\ calls'[f].reply = "pending" =>
    /\ calls[f].kind = "mfaEnable" /\ calls[f].reply = "pending"
    /\ calls'[f].code = calls[f].code

LEMMA QuietCodes ==
  ASSUME ConfirmedInv, NothingConfirmed, UNCHANGED <<account, app>>
  PROVE  ConfirmedInv'
BY DEF ConfirmedInv, NoLockout, CodesAreFromApp, NothingConfirmed

LEMMA ArrivalConfirmsNothing ==
  ASSUME TypeOK, NEW p, NEW who, NEW remaining \in SUBSET Fetches, Arrive(p, who, remaining)
  PROVE  NothingConfirmed
<1>1. ASSUME NEW f \in Fetches, calls'[f].kind = "mfaEnable", calls'[f].reply = "pending"
      PROVE  /\ calls[f].kind = "mfaEnable" /\ calls[f].reply = "pending"
             /\ calls'[f].code = calls[f].code
  <2>1. calls'[f] = IF f \in remaining THEN Left(calls[f]) ELSE NoCall
    BY DEF Arrive
  <2>2. calls[f] \in Call \cup {NoCall}
    BY DEF TypeOK
  <2>3. QED BY <1>1, <2>1, <2>2 DEF Left, NoCall, Call
<1>2. QED BY <1>1 DEF NothingConfirmed

LEMMA ReleaseConfirmsNothing ==
  ASSUME TypeOK, NEW f \in Fetches, NEW after, Release(f, after)
  PROVE  NothingConfirmed
BY DEF Release, NothingConfirmed, TypeOK, NoCall

LEMMA AnswerConfirmsNothing ==
  ASSUME TypeOK, NEW f \in Fetches, calls[f].reply = "pending",
         NEW r \in {"ok", "second", "fail"}, NEW code, NEW mfa, Answered(f, r, code, mfa)
  PROVE  NothingConfirmed
<1>1. calls[f] \in Call
  BY LiveCall
<1>2. [calls[f] EXCEPT !.reply = r, !.code = code, !.mfa = mfa].reply = r
  BY <1>1 DEF Call
<1>3. calls'[f].reply # "pending"
  BY <1>2 DEF Answered, TypeOK, NoCall
<1>4. \A g \in Fetches \ {f} : calls'[g] = calls[g]
  BY DEF Answered, TypeOK
<1>5. QED BY <1>3, <1>4 DEF NothingConfirmed

LEMMA ConfirmedInit == Init => ConfirmedInv
<1>1. SUFFICES ASSUME Init PROVE ConfirmedInv
  OBVIOUS
<1>2. \A f \in Fetches : calls[f].kind # "mfaEnable"
  BY <1>1 DEF Init, NoCall, Boot
<1>3. \A a \in Accounts : ~account[a].mfa
  BY <1>1 DEF Init
<1>4. QED BY <1>2, <1>3 DEF ConfirmedInv, NoLockout, CodesAreFromApp

LEMMA ConfirmedSubmit ==
  ASSUME TypeOK, ConfirmedInv, NEW f \in Fetches, NEW k \in Forms, Submit(f, k)
  PROVE  ConfirmedInv'
<1>1. app \subseteq app' /\ app' = InApp(k) /\ account' = account
  BY DEF Submit, InApp
<1>2. PICK who \in Subjects(k), code \in CodesFor(k) :
        calls' = [calls EXCEPT ![f] =
                    [kind |-> k, form |-> k, who |-> who, code |-> code,
                     at |-> "page", reply |-> "pending", mfa |-> FALSE]]
  BY DEF Submit
<1>3. code \in {NoSecret} \cup app'
  BY <1>1 DEF CodesFor
<1>4. ASSUME NEW g \in Fetches, calls'[g].kind = "mfaEnable", calls'[g].reply = "pending"
      PROVE  calls'[g].code \in {NoSecret} \cup app'
  <2>1. CASE g = f
    BY <1>2, <1>3, <2>1 DEF TypeOK
  <2>2. CASE g # f
    <3>1. calls'[g] = calls[g]
      BY <1>2, <2>2 DEF TypeOK
    <3>2. QED BY <1>1, <1>4, <3>1 DEF ConfirmedInv, CodesAreFromApp
  <2>3. QED BY <2>1, <2>2
<1>5. QED BY <1>1, <1>4 DEF ConfirmedInv, NoLockout, CodesAreFromApp

LEMMA ConfirmedServe ==
  ASSUME TypeOK, ConfirmedInv, NEW f \in Fetches, Serve(f)
  PROVE  ConfirmedInv'
<1>1. calls[f].reply = "pending"
  BY DEF Serve, Refuse, ServeLogin, ServeSecondStep, ServeMe, ServeOther,
         ServeRegistration, ServeSetup, ServeEnable, ServeDisable, Asked
<1>2. calls[f] \in Call
  BY <1>1, LiveCall
<1>3. ASSUME \E r \in {"ok", "second", "fail"}, mfa \in BOOLEAN :
               Answered(f, r, NoSecret, mfa),
             UNCHANGED server
      PROVE  ConfirmedInv'
  BY <1>1, <1>3, AnswerConfirmsNothing, QuietCodes DEF server
<1>4. ASSUME NEW after, NEW code, Effect(f, after, code), calls[f].who \in Accounts,
             after.mfa => after.secret \in app
      PROVE  ConfirmedInv'
  <2>1. NothingConfirmed /\ app' = app
    BY <1>1, <1>4, AnswerConfirmsNothing DEF Effect
  <2>2. CodesAreFromApp'
    BY <2>1 DEF ConfirmedInv, CodesAreFromApp, NothingConfirmed
  <2>3. \A a \in Accounts : account'[a] = IF a = calls[f].who THEN after ELSE account[a]
    BY <1>4 DEF Effect, TypeOK
  <2>4. NoLockout'
    BY <1>4, <2>1, <2>3 DEF ConfirmedInv, NoLockout
  <2>5. QED BY <2>2, <2>4 DEF ConfirmedInv
<1>5. CASE Refuse(f)
  BY <1>3, <1>5 DEF Refuse
<1>6. CASE ServeLogin(f)
  BY <1>3, <1>6 DEF ServeLogin
<1>7. CASE ServeSecondStep(f)
  BY <1>3, <1>7 DEF ServeSecondStep
<1>8. CASE ServeMe(f)
  <2>1. account[calls[f].who].mfa \in BOOLEAN
    BY <1>2, <1>8 DEF ServeMe, Known, TypeOK, Row, Call
  <2>2. QED BY <1>3, <1>8, <2>1 DEF ServeMe
<1>9. CASE ServeOther(f)
  BY <1>3, <1>9 DEF ServeOther
<1>10. CASE ServeRegistration(f)
  <2>1. CASE calls[f].who \in Accounts
    BY <1>4, <1>10, <2>1 DEF ServeRegistration
  <2>2. CASE calls[f].who \notin Accounts
    <3>1. account' = account
      BY <1>10, <2>2 DEF ServeRegistration, Effect, TypeOK
    <3>2. NothingConfirmed /\ app' = app
      BY <1>1, <1>10, AnswerConfirmsNothing DEF ServeRegistration, Effect
    <3>3. QED BY <3>1, <3>2, QuietCodes
  <2>3. QED BY <2>1, <2>2
<1>11. CASE ServeSetup(f)
  <2>1. calls[f].who \in Accounts
    BY <1>2, <1>11 DEF ServeSetup, Known, Call
  <2>2. ~NewSecret(account[calls[f].who], secrets + 1).mfa
    BY <2>1 DEF NewSecret, TypeOK, Row
  <2>3. QED BY <1>4, <1>11, <2>1, <2>2 DEF ServeSetup
<1>12. CASE ServeEnable(f)
  <2>1. calls[f].who \in Accounts
    BY <1>2, <1>12 DEF ServeEnable, Known, Call
  <2>2. account[calls[f].who].secret \in app
    BY <1>1, <1>12 DEF ServeEnable, Asked, ConfirmedInv, CodesAreFromApp
  <2>3. [account[calls[f].who] EXCEPT !.mfa = TRUE].secret = account[calls[f].who].secret
    BY <2>1 DEF TypeOK, Row
  <2>4. QED BY <1>4, <1>12, <2>1, <2>2, <2>3 DEF ServeEnable
<1>13. CASE ServeDisable(f)
  <2>1. calls[f].who \in Accounts
    BY <1>2, <1>13 DEF ServeDisable, Known, Call
  <2>2. ~[account[calls[f].who] EXCEPT !.mfa = FALSE, !.secret = NoSecret].mfa
    BY <2>1 DEF TypeOK, Row
  <2>3. QED BY <1>4, <1>13, <2>1, <2>2 DEF ServeDisable
<1>14. QED BY <1>5, <1>6, <1>7, <1>8, <1>9, <1>10, <1>11, <1>12, <1>13 DEF Serve

LEMMA RefreshConfirmsNothing ==
  ASSUME TypeOK, NEW f \in Fetches, NEW now, RefreshTo(f, now)
  PROVE  NothingConfirmed
<1>1. CASE splash' \/ Kept(page, now.who)
  BY <1>1, ReleaseConfirmsNothing DEF RefreshTo
<1>2. CASE ~(splash' \/ Kept(page, now.who))
  BY <1>2, ArrivalConfirmsNothing DEF RefreshTo
<1>3. QED BY <1>1, <1>2

LEMMA ConfirmedDeliver ==
  ASSUME TypeOK, ConfirmedInv, NEW f \in Fetches, Deliver(f)
  PROVE  ConfirmedInv'
<1>1. account' = account /\ app' = app
  BY DEF Deliver, Failed, LoggedIn, SecondStepAsked, TokenStored, Messaged, PasswordChanged,
         SetupAnswered, Refreshing, Refreshed, RefreshFailed, RefreshTo, server
<1>2. CASE Failed(f) \/ SecondStepAsked(f) \/ Messaged(f) \/ PasswordChanged(f) \/ SetupAnswered(f)
  BY <1>2, ReleaseConfirmsNothing, <1>1, QuietCodes
     DEF Failed, SecondStepAsked, Messaged, PasswordChanged, SetupAnswered
<1>3. CASE LoggedIn(f) \/ TokenStored(f)
  BY <1>3, ArrivalConfirmsNothing, <1>1, QuietCodes DEF LoggedIn, TokenStored
<1>4. CASE Refreshing(f)
  <2>1. calls[f] \in Call
    BY <1>4, LiveCall DEF Refreshing, Got
  <2>2. [calls[f] EXCEPT !.kind = "me", !.who = token, !.reply = "pending"].kind = "me"
    BY <2>1 DEF Call
  <2>3. NothingConfirmed
    BY <1>4, <2>2 DEF Refreshing, NothingConfirmed, TypeOK
  <2>4. QED BY <1>1, <2>3, QuietCodes
<1>5. CASE Refreshed(f) \/ RefreshFailed(f)
  BY <1>5, RefreshConfirmsNothing, <1>1, QuietCodes DEF Refreshed, RefreshFailed
<1>6. QED BY <1>2, <1>3, <1>4, <1>5 DEF Deliver

LEMMA ConfirmedReload ==
  ASSUME TypeOK, ConfirmedInv, NEW f \in Fetches, Reload(f)
  PROVE  ConfirmedInv'
<1>1. ASSUME NEW g \in Fetches, calls'[g].kind = "mfaEnable", calls'[g].reply = "pending"
      PROVE  /\ calls[g].kind = "mfaEnable" /\ calls[g].reply = "pending"
             /\ calls'[g].code = calls[g].code
  <2>1. g # f /\ calls[g].reply = "pending" /\ calls'[g] = [calls[g] EXCEPT !.at = "gone"]
    BY <1>1 DEF Reload, Boot, NoCall
  <2>2. calls[g] \in Call
    BY <2>1, LiveCall
  <2>3. QED BY <1>1, <2>1, <2>2 DEF Call
<1>2. account' = account /\ app' = app
  BY DEF Reload, server
<1>3. QED BY <1>1, <1>2, QuietCodes DEF NothingConfirmed

LEMMA ConfirmedStep == TypeOK /\ ConfirmedInv /\ [Next]_vars => ConfirmedInv'
<1>1. SUFFICES ASSUME TypeOK, ConfirmedInv, [Next]_vars PROVE ConfirmedInv'
  OBVIOUS
<1>2. CASE UNCHANGED vars
  BY <1>1, <1>2, QuietCodes DEF vars, NothingConfirmed
<1>3. ASSUME NEW p \in GuestPages \cup MemberPages, Open(p) PROVE ConfirmedInv'
  BY <1>1, <1>3, ArrivalConfirmsNothing, QuietCodes DEF Open, server
<1>4. CASE Logout
  BY <1>1, <1>4, ArrivalConfirmsNothing, QuietCodes DEF Logout, server
<1>5. CASE BackToFirst \/ TypeNewPassword \/ OpenDisable \/ Cancel
  BY <1>1, <1>5, QuietCodes
     DEF BackToFirst, TypeNewPassword, OpenDisable, Cancel, NothingConfirmed, server
<1>6. QED
  BY <1>1, <1>2, <1>3, <1>4, <1>5, ConfirmedReload, ConfirmedSubmit, ConfirmedServe,
     ConfirmedDeliver DEF Next

\* MFA is on only with a secret in its owner's app.
THEOREM MfaNeedsConfirmation == Spec => []NoLockout
<1>1. TypeOK /\ ConfirmedInv /\ [Next]_vars => TypeOK' /\ ConfirmedInv'
  BY TypeStep, ConfirmedStep
<1>2. ConfirmedInv => NoLockout
  BY DEF ConfirmedInv
<1>3. QED BY TypeInit, ConfirmedInit, <1>1, <1>2, PTL DEF Spec

-----------------------------------------------------------------------------
(* Routes, and the token and the user.                                     *)

LEMMA GuardedTwice ==
  ASSUME NEW p, NEW who
  PROVE  Guarded(Guarded(p, who), who) = Guarded(p, who)
BY DEF Guarded, GuestPages, MemberPages

LEMMA RoutesInit == Init => RoutesAreGuarded
BY DEF Init, RoutesAreGuarded, Guarded, SignedOut, GuestPages, MemberPages

LEMMA RoutesStep == RoutesAreGuarded /\ [Next]_vars => RoutesAreGuarded'
<1>1. SUFFICES ASSUME RoutesAreGuarded, [Next]_vars PROVE RoutesAreGuarded'
  OBVIOUS
<1>2. ASSUME UNCHANGED <<user, splash, page>> PROVE RoutesAreGuarded'
  BY <1>1, <1>2 DEF RoutesAreGuarded, Guarded
<1>3. ASSUME NEW p, Arrive(p, user'.who, Fetches) PROVE RoutesAreGuarded'
  BY <1>3, GuardedTwice DEF Arrive, RoutesAreGuarded
<1>4. CASE UNCHANGED vars
  BY <1>2, <1>4 DEF vars
<1>5. ASSUME NEW p \in GuestPages \cup MemberPages, Open(p) PROVE RoutesAreGuarded'
  BY <1>3, <1>5 DEF Open, signedIn
<1>6. CASE Logout
  BY <1>3, <1>6 DEF Logout, SignedOut
<1>7. CASE BackToFirst \/ TypeNewPassword \/ OpenDisable \/ Cancel
  BY <1>2, <1>7 DEF BackToFirst, TypeNewPassword, OpenDisable, Cancel, signedIn
<1>8. ASSUME NEW f \in Fetches, Reload(f) PROVE RoutesAreGuarded'
  BY <1>8, GuardedTwice DEF Reload, RoutesAreGuarded, SignedOut
<1>9. ASSUME NEW f \in Fetches, NEW k \in Forms, Submit(f, k) PROVE RoutesAreGuarded'
  BY <1>2, <1>9 DEF Submit, signedIn
<1>10. ASSUME NEW f \in Fetches, Serve(f) PROVE RoutesAreGuarded'
  BY <1>2, <1>10
     DEF Serve, Refuse, ServeLogin, ServeSecondStep, ServeMe, ServeOther, ServeRegistration,
         ServeSetup, ServeEnable, ServeDisable, Effect, signedIn
<1>11. ASSUME NEW f \in Fetches, Deliver(f) PROVE RoutesAreGuarded'
  <2>1. CASE Failed(f) \/ SecondStepAsked(f) \/ Messaged(f) \/ PasswordChanged(f)
               \/ SetupAnswered(f) \/ Refreshing(f)
    BY <1>2, <2>1
       DEF Failed, SecondStepAsked, Messaged, PasswordChanged, SetupAnswered, Refreshing, signedIn
  <2>2. CASE LoggedIn(f) \/ TokenStored(f)
    BY <2>2, GuardedTwice DEF LoggedIn, TokenStored, Arrive, RoutesAreGuarded
  <2>3. ASSUME NEW now, RefreshTo(f, now) PROVE RoutesAreGuarded'
    <3>1. CASE splash' \/ Kept(page, now.who)
      BY <2>3, <3>1 DEF RefreshTo, Kept, RoutesAreGuarded, Guarded
    <3>2. CASE ~(splash' \/ Kept(page, now.who))
      BY <2>3, <3>2, GuardedTwice DEF RefreshTo, Arrive, RoutesAreGuarded
    <3>3. QED BY <3>1, <3>2
  <2>4. CASE Refreshed(f) \/ RefreshFailed(f)
    BY <2>3, <2>4 DEF Refreshed, RefreshFailed
  <2>5. QED BY <1>11, <2>1, <2>2, <2>4 DEF Deliver
<1>12. QED BY <1>1, <1>4, <1>5, <1>6, <1>7, <1>8, <1>9, <1>10, <1>11 DEF Next

\* The route on the screen is one its guard admits the user to.
THEOREM RoutesGuarded == Spec => []RoutesAreGuarded
BY RoutesInit, RoutesStep, PTL DEF Spec

LEMMA RefreshSeparates ==
  ASSUME TypeOK, NEW f \in Fetches, NEW now, RefreshTo(f, now)
  PROVE  calls'[f] = NoCall
<1>1. CASE splash' \/ Kept(page, now.who)
  BY <1>1 DEF RefreshTo, Release, TypeOK
<1>2. CASE ~(splash' \/ Kept(page, now.who))
  BY <1>2 DEF RefreshTo, Arrive
<1>3. QED BY <1>1, <1>2

LEMMA TogetherStep ==
  ASSUME TypeOK, [Next]_vars, ~splash, Agreed
  PROVE  Agreed' \/ splash' \/ \E f \in Fetches : Separates(f)
<1>1. ASSUME UNCHANGED <<token, user>> PROVE Agreed'
  BY <1>1 DEF Agreed
<1>2. CASE UNCHANGED vars
  BY <1>1, <1>2 DEF vars
<1>3. CASE (\E p \in GuestPages \cup MemberPages : Open(p))
             \/ BackToFirst \/ TypeNewPassword \/ OpenDisable \/ Cancel
  BY <1>1, <1>3 DEF Open, BackToFirst, TypeNewPassword, OpenDisable, Cancel, signedIn
<1>4. CASE Logout
  BY <1>4 DEF Logout, Agreed, SignedOut
<1>5. ASSUME NEW f \in Fetches, Reload(f) PROVE Agreed' \/ splash'
  BY <1>5 DEF Reload, Agreed, SignedOut
<1>6. ASSUME NEW f \in Fetches, NEW k \in Forms, Submit(f, k) PROVE Agreed'
  BY <1>1, <1>6 DEF Submit, signedIn
<1>7. ASSUME NEW f \in Fetches, Serve(f) PROVE Agreed'
  BY <1>1, <1>7
     DEF Serve, Refuse, ServeLogin, ServeSecondStep, ServeMe, ServeOther, ServeRegistration,
         ServeSetup, ServeEnable, ServeDisable, Effect, signedIn
<1>8. ASSUME NEW f \in Fetches, Deliver(f) PROVE Agreed' \/ Separates(f)
  <2>1. CASE Failed(f) \/ SecondStepAsked(f) \/ Messaged(f) \/ PasswordChanged(f)
               \/ SetupAnswered(f) \/ Refreshing(f)
    BY <1>1, <2>1
       DEF Failed, SecondStepAsked, Messaged, PasswordChanged, SetupAnswered, Refreshing, signedIn
  <2>2. CASE LoggedIn(f)
    BY <2>2 DEF LoggedIn, Agreed
  <2>3. CASE TokenStored(f)
    BY <2>3 DEF TokenStored, Got, Arrive, Separates
  <2>4. CASE Refreshed(f)
    <3>1. calls'[f] = NoCall
      BY <2>4, RefreshSeparates DEF Refreshed
    <3>2. CASE calls[f].who = token
      BY <2>4, <3>2 DEF Refreshed, RefreshTo, Agreed
    <3>3. CASE calls[f].who # token
      BY <2>4, <3>1, <3>3 DEF Refreshed, Got, Separates
    <3>4. QED BY <3>2, <3>3
  <2>5. CASE RefreshFailed(f)
    BY <2>5 DEF RefreshFailed, RefreshTo, SignedOut, Agreed
  <2>6. QED BY <1>8, <2>1, <2>2, <2>3, <2>4, <2>5 DEF Deliver
<1>9. QED BY <1>2, <1>3, <1>4, <1>5, <1>6, <1>7, <1>8 DEF Next

\* The token and the user are of one account until a late refresh or a
\* sign-in that leaves AuthContext alone.
THEOREM TokenAndUserTogether == Spec => SignedInTogether
<1>1. TypeOK /\ [Next]_vars =>
        [~splash /\ Agreed => Agreed' \/ splash' \/ \E f \in Fetches : Separates(f)]_vars
  BY TogetherStep
<1>2. QED BY TypeCorrect, <1>1, PTL DEF Spec, SignedInTogether

-----------------------------------------------------------------------------
(* Buttons and requests.  A request whose page is still there belongs to a *)
(* form of that page, and a login to the address typed last; so the flags, *)
(* the requests and the second step of a login fit each other.             *)

Home(k) ==
  CASE k \in {"login", "mfaLogin"} -> "login"
    [] k \in {"registerRequest", "registerVerify"} -> "register"
    [] k \in {"forgotRequest", "forgotVerify"} -> "forgot"
    [] OTHER -> "profile"

Fits(c) ==
  c.reply # "none" =>
    /\ c.kind \in Forms => c.form = c.kind
    /\ c.at = "page" /\ c.form \in Forms => page = Home(c.form)
    /\ c.at = "page" /\ c.kind = "login" => c.who = form.typed

ButtonInv ==
  /\ OneRequestPerButton
  /\ SecondStepIsOfTyped
  /\ \A f \in Fetches : Fits(calls[f])

LEMMA FlagsAre == "boot" \notin Flags /\ "none" \notin Flags /\ \A k \in Forms : Flag(k) \in Flags
BY DEF Flags, Flag, Forms, GuestForms, ProfileForms

\* A request as it was, answered or passed on: it still holds its flag.
SameHold(c, d) ==
  /\ d.reply # "none" => /\ c.reply # "none" /\ d.form = c.form /\ d.at = c.at
                         /\ d.kind \in {c.kind, "me"}
                         /\ d.kind = "login" => d.who = c.who
  /\ c.reply # "none" /\ c.at = "page" => d.reply # "none"

LEMMA SameHolders ==
  ASSUME ButtonInv, UNCHANGED page, form'.busy = form.busy, form'.typed = form.typed,
         \A f \in Fetches : SameHold(calls[f], calls'[f])
  PROVE  OneRequestPerButton' /\ \A f \in Fetches : Fits(calls[f])'
<1>1. \A f \in Fetches, flag \in Flags : Holds(f, flag)' <=> Holds(f, flag)
  BY DEF SameHold, Holds
<1>2. OneRequestPerButton'
  BY <1>1 DEF ButtonInv, OneRequestPerButton
<1>3. "me" \notin Forms
  BY DEF Forms, GuestForms, ProfileForms
<1>4. \A f \in Fetches : Fits(calls[f])'
  BY <1>3 DEF ButtonInv, Fits, SameHold
<1>5. QED BY <1>2, <1>4

LEMMA NothingHeld ==
  ASSUME ButtonInv, form' = FreshForm,
         \A f \in Fetches : calls'[f].reply # "none" =>
           \/ calls'[f].at # "page" /\ calls[f].reply # "none"
                /\ calls'[f].kind = calls[f].kind /\ calls'[f].form = calls[f].form
           \/ calls'[f].form = "boot" /\ calls'[f].kind = "me"
  PROVE  ButtonInv'
<1>1. \A f \in Fetches, flag \in Flags : ~Holds(f, flag)'
  BY FlagsAre DEF Holds, Flag, GuestForms
<1>2. OneRequestPerButton'
  BY <1>1 DEF OneRequestPerButton, FreshForm
<1>3. SecondStepIsOfTyped'
  BY DEF SecondStepIsOfTyped, FreshForm
<1>4. "me" \notin Forms /\ "boot" \notin Forms
  BY DEF Forms, GuestForms, ProfileForms
<1>5. \A f \in Fetches : Fits(calls[f])'
  BY <1>4 DEF ButtonInv, Fits
<1>6. QED BY <1>2, <1>3, <1>5 DEF ButtonInv

LEMMA ArrivalHolds ==
  ASSUME TypeOK, ButtonInv, NEW p, NEW who, NEW remaining \in SUBSET Fetches,
         Arrive(p, who, remaining)
  PROVE  ButtonInv'
<1>1. ASSUME NEW f \in Fetches, calls'[f].reply # "none"
      PROVE  /\ calls'[f].at # "page" /\ calls[f].reply # "none"
             /\ calls'[f].kind = calls[f].kind /\ calls'[f].form = calls[f].form
  <2>1. calls'[f] = Left(calls[f])
    BY <1>1 DEF Arrive, NoCall
  <2>2. calls[f] \in Call \cup {NoCall}
    BY DEF TypeOK
  <2>3. QED BY <1>1, <2>1, <2>2 DEF Left, Call, NoCall
<1>2. QED BY <1>1, NothingHeld DEF Arrive

LEMMA ReleaseHolds ==
  ASSUME TypeOK, ButtonInv, NEW f \in Fetches, calls[f].reply # "none",
         NEW after \in Form, Release(f, after), UNCHANGED page,
         after.busy = form.busy, after.typed = form.typed
  PROVE  OneRequestPerButton' /\ \A g \in Fetches : Fits(calls[g])'
<1>1. /\ calls'[f] = NoCall
      /\ \A g \in Fetches \ {f} : calls'[g] = calls[g]
  BY DEF Release, TypeOK
<1>2. /\ form'.typed = form.typed
      /\ form'.busy = IF calls[f].at = "page" THEN form.busy \ {Flag(calls[f].form)}
                      ELSE form.busy
  BY DEF Release, Form
<1>3. \A g \in Fetches, flag \in Flags : Holds(g, flag)' <=> g # f /\ Holds(g, flag)
  BY <1>1 DEF Holds, NoCall
<1>4. ASSUME NEW flag \in Flags
      PROVE  /\ flag \in form'.busy <=> \E g \in Fetches : Holds(g, flag)'
             /\ \A g, h \in Fetches : Holds(g, flag)' /\ Holds(h, flag)' => g = h
  <2>1. /\ flag \in form.busy <=> \E g \in Fetches : Holds(g, flag)
        /\ \A g, h \in Fetches : Holds(g, flag) /\ Holds(h, flag) => g = h
    BY DEF ButtonInv, OneRequestPerButton
  <2>2. CASE Holds(f, flag)
    BY <1>2, <1>3, <2>1, <2>2 DEF Holds
  <2>3. CASE ~Holds(f, flag)
    BY <1>2, <1>3, <2>1, <2>3 DEF Holds
  <2>4. QED BY <2>2, <2>3
<1>5. \A g \in Fetches : Fits(calls[g])'
  BY <1>1, <1>2 DEF ButtonInv, Fits, NoCall
<1>6. QED BY <1>4, <1>5 DEF OneRequestPerButton

LEMMA ButtonInit == Init => ButtonInv
<1>1. SUFFICES ASSUME Init PROVE ButtonInv
  OBVIOUS
<1>2. form = FreshForm /\ \A f \in Fetches : calls[f].reply # "none" =>
        calls[f].form = "boot" /\ calls[f].kind = "me"
  BY <1>1 DEF Init, NoCall, Boot
<1>3. \A f \in Fetches, flag \in Flags : ~Holds(f, flag)
  BY <1>2, FlagsAre DEF Holds, Flag, GuestForms
<1>4. OneRequestPerButton /\ SecondStepIsOfTyped
  BY <1>2, <1>3 DEF OneRequestPerButton, SecondStepIsOfTyped, FreshForm
<1>5. \A f \in Fetches : Fits(calls[f])
  BY <1>2 DEF Fits, Forms, GuestForms, ProfileForms
<1>6. QED BY <1>4, <1>5 DEF ButtonInv

LEMMA ButtonSubmit ==
  ASSUME TypeOK, ButtonInv, NEW f \in Fetches, NEW k \in Forms, Submit(f, k)
  PROVE  ButtonInv'
<1>1. PICK who \in Subjects(k), code \in CodesFor(k) :
        /\ calls' = [calls EXCEPT ![f] =
                       [kind |-> k, form |-> k, who |-> who, code |-> code,
                        at |-> "page", reply |-> "pending", mfa |-> FALSE]]
        /\ form' = [form EXCEPT !.busy = @ \cup {Flag(k)},
                                !.typed = IF k = "login" THEN who ELSE @]
  BY DEF Submit
<1>2. /\ calls'[f] = [kind |-> k, form |-> k, who |-> who, code |-> code,
                      at |-> "page", reply |-> "pending", mfa |-> FALSE]
      /\ \A g \in Fetches \ {f} : calls'[g] = calls[g]
      /\ form'.busy = form.busy \cup {Flag(k)}
      /\ form'.typed = IF k = "login" THEN who ELSE form.typed
      /\ form'.step = form.step /\ form'.temp = form.temp
      /\ page' = page
  BY ZenonT(40), <1>1 DEF TypeOK, Form, Submit
<1>3. Flag(k) \notin form.busy /\ ~Holds(f, Flag(k))
  BY DEF Submit, Enabled, Holds, NoCall
<1>4. \A g \in Fetches : ~Holds(g, Flag(k))
  BY <1>3, FlagsAre DEF ButtonInv, OneRequestPerButton
<1>5. \A flag \in Flags : Holds(f, flag)' <=> flag = Flag(k)
  BY <1>2 DEF Holds
<1>6. \A g \in Fetches \ {f}, flag \in Flags : Holds(g, flag)' <=> Holds(g, flag)
  BY <1>2 DEF Holds
<1>7. \A flag \in Flags : ~Holds(f, flag)
  BY DEF Submit, Holds, NoCall
<1>8. OneRequestPerButton'
  <2>1. ASSUME NEW flag \in Flags
        PROVE  /\ flag \in form'.busy <=> \E g \in Fetches : Holds(g, flag)'
               /\ \A g, h \in Fetches : Holds(g, flag)' /\ Holds(h, flag)' => g = h
    <3>1. /\ flag \in form.busy <=> \E g \in Fetches : Holds(g, flag)
          /\ \A g, h \in Fetches : Holds(g, flag) /\ Holds(h, flag) => g = h
      BY DEF ButtonInv, OneRequestPerButton
    <3>2. CASE flag = Flag(k)
      BY <1>2, <1>4, <1>5, <1>6, <3>2
    <3>3. CASE flag # Flag(k)
      BY <1>2, <1>5, <1>6, <1>7, <3>1, <3>3
    <3>4. QED BY <3>2, <3>3
  <2>2. QED BY <2>1 DEF OneRequestPerButton
<1>9. page = Home(k) /\ (k = "login" => page = "login" /\ form.step = "first")
  BY DEF Submit, Enabled, OnScreen, LoginForm, RegisterForm, ForgotForm, ProfileForm, Home,
         Forms, GuestForms, ProfileForms
<1>10. SecondStepIsOfTyped'
  BY <1>2, <1>9 DEF ButtonInv, SecondStepIsOfTyped
<1>11. \A g \in Fetches : Fits(calls[g])'
  <2>1. Fits(calls[f])'
    BY <1>2, <1>9 DEF Fits
  <2>2. ASSUME NEW g \in Fetches \ {f} PROVE Fits(calls[g])'
    <3>1. CASE k # "login"
      BY <1>2, <3>1 DEF ButtonInv, Fits
    <3>2. CASE k = "login"
      <4>1. ~(calls[g].reply # "none" /\ calls[g].at = "page" /\ calls[g].form = "login")
        BY <1>4, <3>2 DEF Holds, Flag, GuestForms
      <4>2. QED BY <1>2, <4>1 DEF ButtonInv, Fits, Forms, GuestForms
    <3>3. QED BY <3>1, <3>2
  <2>3. QED BY <2>1, <2>2
<1>12. QED BY <1>8, <1>10, <1>11 DEF ButtonInv

LEMMA ButtonServe ==
  ASSUME TypeOK, ButtonInv, NEW f \in Fetches, Serve(f)
  PROVE  ButtonInv'
<1>1. calls[f].reply = "pending" /\ UNCHANGED <<page, form>>
  BY DEF Serve, Refuse, ServeLogin, ServeSecondStep, ServeMe, ServeOther,
         ServeRegistration, ServeSetup, ServeEnable, ServeDisable, Asked, Effect
<1>2. \E r, code, mfa : Answered(f, r, code, mfa) /\ r # "none"
  <2>1. ASSUME NEW after, NEW code, Effect(f, after, code)
        PROVE  \E r, c, mfa : Answered(f, r, c, mfa) /\ r # "none"
    BY <2>1, "ok" # "none", "fail" # "none" DEF Effect
  <2>2. CASE Refuse(f) \/ ServeSecondStep(f) \/ ServeOther(f)
    BY <2>2, "ok" # "none", "fail" # "none" DEF Refuse, ServeSecondStep, ServeOther
  <2>3. CASE ServeMe(f)
    BY <2>3, "ok" # "none" DEF ServeMe
  <2>4. CASE ServeLogin(f)
    BY <2>4, "ok" # "none", "second" # "none" DEF ServeLogin
  <2>5. CASE ServeRegistration(f) \/ ServeSetup(f) \/ ServeEnable(f) \/ ServeDisable(f)
    BY <2>1, <2>5 DEF ServeRegistration, ServeSetup, ServeEnable, ServeDisable
  <2>6. QED BY <2>2, <2>3, <2>4, <2>5 DEF Serve
<1>3. PICK r, code, mfa : Answered(f, r, code, mfa) /\ r # "none"
  BY <1>2
<1>4. calls[f] \in Call
  BY <1>1, LiveCall
<1>5. LET d == [calls[f] EXCEPT !.reply = r, !.code = code, !.mfa = mfa]
      IN  /\ d.form = calls[f].form /\ d.at = calls[f].at /\ d.kind = calls[f].kind
          /\ d.who = calls[f].who /\ d.reply = r
  BY <1>4 DEF Call
<1>6. SameHold(calls[f], calls'[f])
  BY <1>1, <1>3, <1>5 DEF Answered, Awaited, SameHold, TypeOK, NoCall
<1>7. \A g \in Fetches \ {f} : calls'[g] = calls[g]
  BY <1>3 DEF Answered, TypeOK
<1>8. \A g \in Fetches : SameHold(calls[g], calls'[g])
  BY <1>6, <1>7 DEF SameHold
<1>9. SecondStepIsOfTyped'
  BY <1>1 DEF ButtonInv, SecondStepIsOfTyped
<1>10. QED BY <1>1, <1>8, <1>9, SameHolders DEF ButtonInv

LEMMA ButtonRefresh ==
  ASSUME TypeOK, ButtonInv, NEW f \in Fetches, calls[f].reply # "none", NEW now,
         RefreshTo(f, now)
  PROVE  ButtonInv'
<1>1. CASE splash' \/ Kept(page, now.who)
  <2>1. /\ Closed(calls[f].form) \in Form
        /\ Closed(calls[f].form).busy = form.busy /\ Closed(calls[f].form).typed = form.typed
        /\ Closed(calls[f].form).step = form.step /\ Closed(calls[f].form).temp = form.temp
    BY DEF Closed, TypeOK, Form
  <2>2. Release(f, Closed(calls[f].form)) /\ page' = page
    BY <1>1 DEF RefreshTo
  <2>3. OneRequestPerButton' /\ \A g \in Fetches : Fits(calls[g])'
    BY <2>1, <2>2, ReleaseHolds
  <2>4. form'.step = form.step /\ form'.temp = form.temp /\ form'.typed = form.typed
    BY <2>1, <2>2 DEF Release, Form
  <2>5. QED BY <2>2, <2>3, <2>4 DEF ButtonInv, SecondStepIsOfTyped
<1>2. CASE ~(splash' \/ Kept(page, now.who))
  BY <1>2, ArrivalHolds DEF RefreshTo
<1>3. QED BY <1>1, <1>2

LEMMA ButtonDeliver ==
  ASSUME TypeOK, ButtonInv, NEW f \in Fetches, Deliver(f)
  PROVE  ButtonInv'
<1>1. calls[f].reply # "none"
  BY DEF Deliver, Failed, LoggedIn, SecondStepAsked, TokenStored, Messaged, PasswordChanged,
         SetupAnswered, Refreshing, Refreshed, RefreshFailed, Got
<1>2. calls[f] \in Call
  BY <1>1, LiveCall
<1>3. ASSUME NEW after \in Form, Release(f, after), UNCHANGED page,
             after.busy = form.busy, after.typed = form.typed,
             after.step = "code" /\ page = "login" /\ calls[f].at = "page" =>
               after.temp = form.typed
      PROVE  ButtonInv'
  <2>1. OneRequestPerButton' /\ \A g \in Fetches : Fits(calls[g])'
    BY <1>1, <1>3, ReleaseHolds
  <2>2. calls[f].at = "page" => /\ form'.step = after.step /\ form'.temp = after.temp
                               /\ form'.typed = form.typed
    BY <1>3 DEF Release, Form
  <2>3. calls[f].at # "page" => form' = form
    BY <1>3 DEF Release
  <2>4. SecondStepIsOfTyped'
    BY <1>3, <2>2, <2>3 DEF ButtonInv, SecondStepIsOfTyped
  <2>5. QED BY <2>1, <2>4 DEF ButtonInv
<1>4. form \in Form /\ Fits(calls[f])
  BY DEF TypeOK, ButtonInv
<1>5. CASE Failed(f) \/ PasswordChanged(f)
  BY <1>3, <1>4, <1>5 DEF Failed, PasswordChanged, ButtonInv, SecondStepIsOfTyped
<1>6. CASE SecondStepAsked(f)
  <2>1. LET after == [form EXCEPT !.step = "code", !.temp = calls[f].who]
        IN  /\ after \in Form /\ after.busy = form.busy /\ after.typed = form.typed
            /\ after.temp = calls[f].who
    BY <1>2, <1>4 DEF Form, Call
  <2>2. calls[f].at = "page" => calls[f].who = form.typed
    BY <1>1, <1>4, <1>6 DEF Fits, SecondStepAsked, Got
  <2>3. QED BY <1>3, <1>6, <2>1, <2>2 DEF SecondStepAsked
<1>7. CASE Messaged(f)
  <2>1. LET after == [form EXCEPT !.step = "code", !.note = (page = "forgot")]
        IN  after \in Form /\ after.busy = form.busy /\ after.typed = form.typed
    BY <1>4 DEF Form
  <2>2. calls[f].at = "page" => page # "login"
    BY <1>1, <1>4, <1>7 DEF Fits, Messaged, Got, Home, Forms, GuestForms
  <2>3. QED BY <1>3, <1>7, <2>1, <2>2 DEF Messaged
<1>8. CASE SetupAnswered(f)
  <2>1. LET after == [form EXCEPT !.shown = calls[f].code, !.panels = @ \cup {"setup"}]
        IN  /\ after \in Form /\ after.busy = form.busy /\ after.typed = form.typed
            /\ after.step = form.step /\ after.temp = form.temp
    BY <1>2, <1>4 DEF Form, Call
  <2>2. QED BY <1>3, <1>8, <2>1 DEF SetupAnswered, ButtonInv, SecondStepIsOfTyped
<1>9. CASE LoggedIn(f) \/ TokenStored(f)
  BY <1>9, ArrivalHolds DEF LoggedIn, TokenStored
<1>10. CASE Refreshing(f)
  <2>1. LET d == [calls[f] EXCEPT !.kind = "me", !.who = token, !.reply = "pending"]
        IN  d.form = calls[f].form /\ d.at = calls[f].at /\ d.kind = "me" /\ d.reply = "pending"
    BY <1>2 DEF Call
  <2>2. /\ calls'[f].form = calls[f].form /\ calls'[f].at = calls[f].at
        /\ calls'[f].kind = "me" /\ calls'[f].reply = "pending"
        /\ \A g \in Fetches \ {f} : calls'[g] = calls[g]
    BY <1>10, <2>1 DEF Refreshing, TypeOK
  <2>3. \A g \in Fetches : SameHold(calls[g], calls'[g])
    BY <1>1, <2>2 DEF SameHold
  <2>4. UNCHANGED <<page, form>>
    BY <1>10 DEF Refreshing
  <2>5. QED BY <2>3, <2>4, SameHolders DEF ButtonInv, SecondStepIsOfTyped
<1>11. CASE Refreshed(f) \/ RefreshFailed(f)
  BY <1>1, <1>11, ButtonRefresh DEF Refreshed, RefreshFailed
<1>12. QED BY <1>5, <1>6, <1>7, <1>8, <1>9, <1>10, <1>11 DEF Deliver

LEMMA ButtonReload ==
  ASSUME TypeOK, ButtonInv, NEW f \in Fetches, Reload(f)
  PROVE  ButtonInv'
<1>1. form' = FreshForm
  BY DEF Reload
<1>2. ASSUME NEW g \in Fetches, calls'[g].reply # "none"
      PROVE  \/ calls'[g].at # "page" /\ calls[g].reply # "none"
                  /\ calls'[g].kind = calls[g].kind /\ calls'[g].form = calls[g].form
             \/ calls'[g].form = "boot" /\ calls'[g].kind = "me"
  <2>1. CASE g = f
    BY <1>2, <2>1 DEF Reload, Boot, NoCall
  <2>2. CASE g # f
    <3>1. calls[g].reply = "pending" /\ calls'[g] = [calls[g] EXCEPT !.at = "gone"]
      BY <1>2, <2>2 DEF Reload, NoCall
    <3>2. calls[g] \in Call
      BY <3>1, LiveCall
    <3>3. QED BY <3>1, <3>2 DEF Call
  <2>3. QED BY <2>1, <2>2
<1>3. QED BY <1>1, <1>2, NothingHeld

LEMMA ButtonStep == TypeOK /\ ButtonInv /\ [Next]_vars => ButtonInv'
<1>1. SUFFICES ASSUME TypeOK, ButtonInv, [Next]_vars PROVE ButtonInv'
  OBVIOUS
<1>2. \A f \in Fetches : SameHold(calls[f], calls[f])
  BY DEF SameHold
<1>3. CASE UNCHANGED vars
  BY <1>1, <1>2, <1>3, SameHolders DEF vars, ButtonInv, SecondStepIsOfTyped
<1>4. ASSUME NEW p \in GuestPages \cup MemberPages, Open(p) PROVE ButtonInv'
  BY <1>1, <1>4, ArrivalHolds DEF Open
<1>5. CASE Logout
  BY <1>1, <1>5, ArrivalHolds DEF Logout
<1>6. CASE BackToFirst \/ TypeNewPassword \/ OpenDisable \/ Cancel
  <2>1. /\ form'.busy = form.busy /\ form'.typed = form.typed /\ form'.temp = form.temp
        /\ form'.step \in {form.step, "first"} /\ UNCHANGED <<page, calls>>
    <3>1. CASE BackToFirst \/ TypeNewPassword \/ OpenDisable
      BY ZenonT(40), <1>1, <3>1 DEF BackToFirst, TypeNewPassword, OpenDisable, TypeOK, Form
    <3>2. CASE Cancel
      <4>1. PICK panel \in form.panels :
              form' = [form EXCEPT !.panels = @ \ {panel},
                                   !.shown = IF panel = "setup" THEN NoSecret ELSE @]
        BY <3>2 DEF Cancel
      <4>2. QED BY <1>1, <3>2, <4>1 DEF Cancel, TypeOK, Form
    <3>3. QED BY <1>6, <3>1, <3>2
  <2>2. SecondStepIsOfTyped'
    BY <1>1, <2>1 DEF ButtonInv, SecondStepIsOfTyped
  <2>3. QED BY <1>1, <1>2, <2>1, <2>2, SameHolders DEF ButtonInv
<1>7. QED BY <1>1, <1>3, <1>4, <1>5, <1>6, ButtonReload, ButtonSubmit, ButtonServe, ButtonDeliver
          DEF Next

\* A button is disabled while one request of its form is unanswered, and a
\* second step of a login is that of the address typed.
THEOREM ButtonsCorrect == Spec => []OneRequestPerButton /\ []SecondStepIsOfTyped
<1>1. TypeOK /\ ButtonInv /\ [Next]_vars => TypeOK' /\ ButtonInv'
  BY TypeStep, ButtonStep
<1>2. ButtonInv => OneRequestPerButton /\ SecondStepIsOfTyped
  BY DEF ButtonInv
<1>3. QED BY TypeInit, ButtonInit, <1>1, <1>2, PTL DEF Spec

=============================================================================
