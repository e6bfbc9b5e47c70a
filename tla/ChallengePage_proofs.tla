------------------------- MODULE ChallengePage_proofs -------------------------
(***************************************************************************)
(* Proofs about ChallengePage, for any challenges, any number of requests  *)
(* on the way, and any number of sessions.                                 *)
(***************************************************************************)
EXTENDS ChallengePage, TLAPS

USE ConstantsAssumption

-----------------------------------------------------------------------------
(* Types.                                                                  *)

LEMMA LiveCall ==
  ASSUME TypeOK, NEW f \in Fetches, calls[f].reply # "none"
  PROVE  calls[f] \in Call
BY DEF TypeOK, NoCall

LEMMA FreshViewIsView == FreshView \in View /\ NoPane \in Pane
BY DEF FreshView, View, Progress, NoPane, Pane, NoSession

LEMMA RequestTyped ==
  ASSUME NEW kind \in SessionKinds \cup {"submitFlag"}, NEW c \in Challenges \cup {Zero},
         NEW key \in {NoSession} \cup Sessions
  PROVE  Request(kind, c, key) \in Call
BY DEF Request, Call, Progress

\* What Show makes of the page: the pane is that of the session.
LEMMA ShowTyped ==
  ASSUME TypeInv, NEW v \in View, Show(v)
  PROVE  view' \in View /\ pane' \in Pane /\ TerminalIsOfSession'
<1>1. PaneKey(v) \in {NoSession} \cup Sessions
  BY DEF PaneKey, View
<1>2. Leftover \in {0, 1} /\ pane.closing + Leftover \in 0 .. MaxClosing
  BY DEF Show, Leftover, TypeInv, TypeOK, Pane
<1>3. PaneFor(PaneKey(v)) \in Pane
  BY <1>1, <1>2, FreshViewIsView DEF PaneFor, TypeInv, TypeOK, Pane
<1>4. PaneFor(PaneKey(v)).key = PaneKey(v)
  BY <1>1, FreshViewIsView DEF PaneFor, TypeInv, TypeOK, Pane, NoPane
<1>5. PaneKey(v) = NoSession <=> PaneFor(PaneKey(v)).socket = "none"
  <2>1. CASE PaneKey(v) = pane.key
    <3>1. PaneFor(PaneKey(v)) = pane
      BY <2>1 DEF PaneFor
    <3>2. pane.key = NoSession <=> pane.socket = "none"
      BY DEF TypeInv, TerminalIsOfSession
    <3>3. QED BY <2>1, <3>1, <3>2
  <2>2. CASE PaneKey(v) # pane.key /\ PaneKey(v) = NoSession
    BY <2>2 DEF PaneFor, NoPane
  <2>3. CASE PaneKey(v) # pane.key /\ PaneKey(v) # NoSession
    BY <2>3 DEF PaneFor, NoPane, TypeInv, TypeOK, Pane
  <2>4. QED BY <2>1, <2>2, <2>3
<1>6. QED BY <1>3, <1>4, <1>5 DEF Show, TerminalIsOfSession, PaneKey

LEMMA AnsweredTyped ==
  ASSUME TypeInv, NEW f \in Fetches, calls[f].reply # "none",
         NEW r \in {"ok", "zero", "unwritten", "fail"}, NEW key \in {NoSession} \cup Sessions,
         NEW found \in Progress, Answered(f, r, key, found)
  PROVE  /\ calls' \in [Fetches -> Call \cup {NoCall}]
         /\ \A g \in Fetches : calls'[g].key \in {calls[g].key, key, NoSession}
<1>1. calls[f] \in Call
  BY LiveCall DEF TypeInv
<1>2. [calls[f] EXCEPT !.reply = r, !.key = key, !.found = found] \in Call
  BY <1>1 DEF Call
<1>3. calls' \in [Fetches -> Call \cup {NoCall}]
  BY <1>2 DEF Answered, TypeInv, TypeOK
<1>4. calls'[f].key \in {key, NoSession}
  BY <1>1 DEF Answered, TypeInv, TypeOK, Call, NoCall
<1>5. QED BY <1>3, <1>4 DEF Answered, TypeInv, TypeOK

LEMMA DoneTyped ==
  ASSUME TypeInv, NEW f \in Fetches, Done(f)
  PROVE  /\ calls' \in [Fetches -> Call \cup {NoCall}]
         /\ \A g \in Fetches : calls'[g].key \in {calls[g].key, NoSession}
BY DEF Done, TypeInv, TypeOK, NoCall

\* A session that is on the page is there, and so is its terminal's.
LEMMA SessionIsThere ==
  ASSUME TypeInv
  PROVE  /\ view.session # NoSession => sessions[view.session] \in Challenges
         /\ pane.key # NoSession => view.session = pane.key
BY DEF TypeInv, TypeOK, KeysExist, TerminalIsOfSession, PaneKey, View, NoSession, Sessions

LEMMA TypeInit == Init => TypeInv
<1>1. SUFFICES ASSUME Init PROVE TypeInv
  OBVIOUS
<1>2. PICK f \in Fetches :
        calls = [g \in Fetches |-> IF g = f THEN Request("get", id, NoSession) ELSE NoCall]
  BY <1>1 DEF Init
<1>3. Request("get", id, NoSession) \in Call
  BY <1>1, RequestTyped DEF Init, SessionKinds
<1>4. calls \in [Fetches -> Call \cup {NoCall}]
  BY <1>2, <1>3
<1>5. TypeOK
  <2>1. sessions \in Seq(Challenges) /\ Len(sessions) <= MaxSessions
    BY <1>1 DEF Init
  <2>2. live \in [Challenges -> {NoSession} \cup Sessions] /\ rows \in [Challenges -> Nat]
    BY <1>1 DEF Init
  <2>3. id \in Challenges /\ view \in View /\ pane \in Pane /\ disturbed \in BOOLEAN
    BY <1>1, FreshViewIsView DEF Init
  <2>4. QED BY <1>4, <2>1, <2>2, <2>3 DEF TypeOK
<1>6. KeysExist
  BY <1>1, <1>2 DEF Init, KeysExist, FreshView, Request, NoCall, NoSession
<1>7. TerminalIsOfSession
  BY <1>1 DEF Init, TerminalIsOfSession, PaneKey, FreshView, NoPane
<1>8. QED BY <1>5, <1>6, <1>7 DEF TypeInv

LEMMA NavigationTyped ==
  ASSUME TypeInv, NEW f \in Fetches, NEW c \in Challenges
  PROVE  (Visit(f, c) \/ Jump(f, c)) => TypeInv'
<1>1. Request("get", c, NoSession) \in Call /\ Request("get", c, NoSession).key = 0
  BY RequestTyped DEF SessionKinds, Request, NoSession
<1>2. ASSUME Visit(f, c) PROVE TypeInv'
  <2>1. ASSUME NEW g \in Fetches
        PROVE  /\ calls'[g] \in Call \cup {NoCall}
               /\ calls'[g].key \in {calls[g].key, 0}
    <3>1. CASE g = f
      BY <1>1, <1>2, <3>1 DEF Visit
    <3>2. CASE g # f /\ StillMatters(g)
      <4>1. calls[g] \in Call
        BY <3>2, LiveCall DEF StillMatters, TypeInv
      <4>2. calls'[g] = [calls[g] EXCEPT !.here = FALSE]
        BY <1>2, <3>2 DEF Visit
      <4>3. QED BY <4>1, <4>2 DEF Call
    <3>3. CASE g # f /\ ~StillMatters(g)
      BY <1>2, <3>3 DEF Visit, NoCall, NoSession
    <3>4. QED BY <3>1, <3>2, <3>3
  <2>2. calls' \in [Fetches -> Call \cup {NoCall}]
    BY <1>2, <2>1 DEF Visit
  <2>3. TypeOK'
    BY <1>2, <2>2, FreshViewIsView DEF Visit, TypeInv, TypeOK, store
  <2>4. KeysExist'
    <3>1. view'.session = 0 /\ UNCHANGED <<live, sessions>>
      BY <1>2 DEF Visit, FreshView, NoSession, store
    <3>2. Len(sessions) \in Nat
      BY DEF TypeInv, TypeOK
    <3>3. QED BY <2>1, <3>1, <3>2 DEF TypeInv, KeysExist
  <2>5. TerminalIsOfSession'
    BY <1>2 DEF Visit, TerminalIsOfSession, PaneKey, FreshView, NoPane
  <2>6. QED BY <2>3, <2>4, <2>5 DEF TypeInv
<1>3. ASSUME Jump(f, c) PROVE TypeInv'
  <2>1. calls' \in [Fetches -> Call \cup {NoCall}]
    BY <1>1, <1>3 DEF Jump, TypeInv, TypeOK
  <2>2. TypeOK'
    BY <1>3, <2>1 DEF Jump, TypeInv, TypeOK, store
  <2>3. KeysExist'
    BY <1>1, <1>3 DEF Jump, TypeInv, TypeOK, KeysExist, store
  <2>4. QED BY <1>3, <2>2, <2>3 DEF Jump, TypeInv, TerminalIsOfSession, PaneKey
<1>4. QED BY <1>2, <1>3

LEMMA ButtonsTyped ==
  ASSUME TypeInv
  PROVE  /\ \A f \in Fetches : (StartSession(f) \/ Terminate(f) \/ SubmitFlag(f)) => TypeInv'
         /\ ToggleTerminal => TypeInv'
<1>1. ASSUME NEW f \in Fetches, StartSession(f) \/ SubmitFlag(f) PROVE TypeInv'
  <2>1. view.challenge \in Challenges \cup {Zero}
    BY <1>1 DEF StartSession, SubmitFlag, MayStart, MaySubmit, Shown, TypeInv, TypeOK, View
  <2>2. PICK kind \in {"start", "submitFlag"} :
          /\ calls' = [calls EXCEPT ![f] = Request(kind, view.challenge, NoSession)]
          /\ view' = [view EXCEPT !.busy = @ \cup {kind}]
    BY <1>1 DEF StartSession, SubmitFlag
  <2>3. Request(kind, view.challenge, NoSession) \in Call
    BY <2>1, RequestTyped DEF SessionKinds
  <2>4. view' \in View /\ view'.session = view.session /\ PaneKey(view') = PaneKey(view)
    BY <2>2 DEF TypeInv, TypeOK, View, PaneKey
  <2>5. UNCHANGED <<id, pane, live, sessions, rows, disturbed>>
    BY <1>1 DEF StartSession, SubmitFlag, store
  <2>6. TypeOK'
    BY <2>2, <2>3, <2>4, <2>5 DEF TypeInv, TypeOK
  <2>7. KeysExist'
    BY <2>2, <2>4, <2>5 DEF TypeInv, TypeOK, KeysExist, Request, NoSession
  <2>8. QED BY <2>4, <2>5, <2>6, <2>7 DEF TypeInv, TerminalIsOfSession, PaneKey
<1>2. ASSUME NEW f \in Fetches, Terminate(f) PROVE TypeInv'
  <2>1. sessions[view.session] \in Challenges /\ view.session \in Sessions
    BY <1>2, SessionIsThere DEF Terminate, TypeInv, TypeOK, View
  <2>2. Request("terminate", sessions[view.session], view.session) \in Call
    BY <2>1, RequestTyped DEF SessionKinds
  <2>3. TypeOK'
    BY <1>2, <2>2 DEF Terminate, TypeInv, TypeOK, browser, store
  <2>4. KeysExist'
    BY <1>2 DEF Terminate, TypeInv, TypeOK, KeysExist, browser, store, Request
  <2>5. QED BY <1>2, <2>3, <2>4 DEF Terminate, TypeInv, TerminalIsOfSession, PaneKey, browser
<1>3. ASSUME ToggleTerminal PROVE TypeInv'
  <2>1. [view EXCEPT !.visible = ~@] \in View
    BY DEF TypeInv, TypeOK, View
  <2>2. view' \in View /\ pane' \in Pane /\ TerminalIsOfSession'
    BY <1>3, <2>1, ShowTyped DEF ToggleTerminal
  <2>3. view'.session = view.session
    BY <1>3 DEF ToggleTerminal, Show, TypeInv, TypeOK, View
  <2>4. QED BY <1>3, <2>2, <2>3 DEF ToggleTerminal, TypeInv, TypeOK, KeysExist, store
<1>4. QED BY <1>1, <1>2, <1>3

LEMMA SocketTyped ==
  ASSUME TypeInv, OnOpen \/ OnClose \/ OnCloseOfLeftover
  PROVE  TypeInv'
<1>1. pane' \in Pane /\ pane'.key = pane.key /\ (pane'.socket = "none" <=> pane.socket = "none")
  <2>1. CASE OnOpen
    BY <2>1 DEF OnOpen, TypeInv, TypeOK, Pane
  <2>2. CASE OnClose
    BY <2>2 DEF OnClose, TypeInv, TypeOK, Pane
  <2>3. CASE OnCloseOfLeftover
    <3>1. pane.closing - 1 \in 0 .. MaxClosing
      BY <2>3 DEF OnCloseOfLeftover, TypeInv, TypeOK, Pane
    <3>2. QED BY <2>3, <3>1 DEF OnCloseOfLeftover, TypeInv, TypeOK, Pane
  <2>4. QED BY <2>1, <2>2, <2>3
<1>2. UNCHANGED <<id, view, calls, live, sessions, rows, disturbed>>
  BY DEF OnOpen, OnClose, OnCloseOfLeftover, store
<1>3. QED BY <1>1, <1>2 DEF TypeInv, TypeOK, KeysExist, TerminalIsOfSession, PaneKey

LEMMA ServerTyped ==
  ASSUME TypeInv
  PROVE  /\ \A c \in Challenges : Elsewhere(c) => TypeInv'
         /\ \A f \in Fetches : Serve(f) => TypeInv'
<1>1. Len(sessions) \in Nat /\ \A k \in 1 .. Len(sessions) : sessions[k] \in Challenges
  BY DEF TypeInv, TypeOK
\* What the server keeps, after a session has been started.
<1>2. ASSUME NEW c \in Challenges, live[c] = NoSession, NewSession(c)
      PROVE  /\ sessions' \in Seq(Challenges) /\ Len(sessions') = Len(sessions) + 1
             /\ Len(sessions') <= MaxSessions
             /\ live' \in [Challenges -> {NoSession} \cup Sessions]
             /\ \A k \in 1 .. Len(sessions) : sessions'[k] = sessions[k]
             /\ \A d \in Challenges :
                  /\ live'[d] <= Len(sessions')
                  /\ live'[d] # NoSession => sessions'[live'[d]] = d
  <2>1. /\ sessions' = Append(sessions, c) /\ Len(sessions) + 1 <= MaxSessions
        /\ live' = [live EXCEPT ![c] = Len(sessions) + 1]
    BY <1>1, <1>2 DEF NewSession
  <2>2. /\ sessions' \in Seq(Challenges) /\ Len(sessions') = Len(sessions) + 1
        /\ sessions'[Len(sessions) + 1] = c
        /\ \A k \in 1 .. Len(sessions) : sessions'[k] = sessions[k]
    BY <2>1 DEF TypeInv, TypeOK
  <2>3. live' \in [Challenges -> {NoSession} \cup Sessions]
    BY <1>1, <2>1 DEF TypeInv, TypeOK, Sessions
  <2>4. ASSUME NEW d \in Challenges
        PROVE  live'[d] <= Len(sessions') /\ (live'[d] # NoSession => sessions'[live'[d]] = d)
    <3>1. CASE d = c
      BY <1>1, <2>1, <2>2, <3>1 DEF TypeInv, TypeOK
    <3>2. CASE d # c
      <4>1. live'[d] = live[d] /\ live[d] <= Len(sessions) /\ live[d] \in {NoSession} \cup Sessions
        BY <2>1, <3>2 DEF TypeInv, TypeOK, KeysExist
      <4>2. CASE live[d] = NoSession
        BY <1>1, <2>2, <4>1, <4>2 DEF NoSession
      <4>3. CASE live[d] # NoSession
        BY <1>1, <2>2, <4>1, <4>3 DEF TypeInv, KeysExist, Sessions
      <4>4. QED BY <4>2, <4>3
    <3>3. QED BY <3>1, <3>2
  <2>5. QED BY <1>1, <2>1, <2>2, <2>3, <2>4
\* ... or one has ended.
<1>3. ASSUME NEW c \in Challenges \cup {Zero}, NEW now \in {NoSession, live[c]},
             live' = [live EXCEPT ![c] = now], sessions' = sessions
      PROVE  /\ live' \in [Challenges -> {NoSession} \cup Sessions]
             /\ \A d \in Challenges :
                  /\ live'[d] <= Len(sessions')
                  /\ live'[d] # NoSession => sessions'[live'[d]] = d
  <2>1. ASSUME NEW d \in Challenges PROVE live'[d] \in {NoSession, live[d]}
    BY <1>3, <2>1 DEF TypeInv, TypeOK
  <2>2. \A d \in Challenges : NoSession <= Len(sessions)
    BY <1>1 DEF NoSession
  <2>3. live' \in [Challenges -> {NoSession} \cup Sessions]
    BY <1>3, <2>1 DEF TypeInv, TypeOK
  <2>4. QED BY <1>1, <1>3, <2>1, <2>2, <2>3 DEF TypeInv, KeysExist
<1>4. ASSUME /\ sessions' \in Seq(Challenges) /\ Len(sessions') <= MaxSessions
             /\ Len(sessions) <= Len(sessions')
             /\ live' \in [Challenges -> {NoSession} \cup Sessions]
             /\ \A d \in Challenges :
                  /\ live'[d] <= Len(sessions')
                  /\ live'[d] # NoSession => sessions'[live'[d]] = d,
             rows' \in [Challenges -> Nat], disturbed' \in BOOLEAN, UNCHANGED browser,
             calls' \in [Fetches -> Call \cup {NoCall}],
             \A g \in Fetches : calls'[g].key <= Len(sessions')
      PROVE  TypeInv'
  <2>1. TypeOK'
    BY <1>4 DEF TypeInv, TypeOK, browser
  <2>2. Len(sessions') \in Nat /\ view.session \in Nat
    BY <1>4 DEF TypeInv, TypeOK, View, NoSession, Sessions
  <2>3. KeysExist'
    BY <1>1, <1>4, <2>2 DEF TypeInv, KeysExist, browser
  <2>4. QED BY <1>4, <2>1, <2>3 DEF TypeInv, TerminalIsOfSession, PaneKey, browser
<1>5. /\ sessions \in Seq(Challenges) /\ Len(sessions) <= MaxSessions
      /\ live \in [Challenges -> {NoSession} \cup Sessions]
      /\ \A d \in Challenges :
           /\ live[d] <= Len(sessions)
           /\ live[d] # NoSession => sessions[live[d]] = d
      /\ rows \in [Challenges -> Nat] /\ disturbed \in BOOLEAN
      /\ calls \in [Fetches -> Call \cup {NoCall}]
      /\ \A g \in Fetches : calls[g].key <= Len(sessions) /\ calls[g].key \in Nat
  <2>1. ASSUME NEW g \in Fetches PROVE calls[g].key \in {NoSession} \cup Sessions
    BY DEF TypeInv, TypeOK, Call, NoCall
  <2>2. \A g \in Fetches : calls[g].key \in Nat
    BY <2>1 DEF NoSession, Sessions
  <2>3. QED BY <2>2 DEF TypeInv, TypeOK, KeysExist
<1>6. ASSUME NEW c \in Challenges, Elsewhere(c) PROVE TypeInv'
  <2>1. UNCHANGED <<browser, calls, rows>> /\ disturbed' = TRUE
    BY <1>6 DEF Elsewhere
  <2>2. CASE live[c] = NoSession /\ NewSession(c)
    BY <1>1, <1>2, <1>4, <1>5, <2>1, <2>2
  <2>3. CASE live' = [live EXCEPT ![c] = NoSession] /\ UNCHANGED sessions
    <3>1. /\ live' \in [Challenges -> {NoSession} \cup Sessions]
          /\ \A d \in Challenges :
               /\ live'[d] <= Len(sessions')
               /\ live'[d] # NoSession => sessions'[live'[d]] = d
      BY <1>3, <2>3
    <3>2. QED BY <1>1, <1>4, <1>5, <2>1, <2>3, <3>1 DEF browser
  <2>4. QED BY <1>6, <2>2, <2>3 DEF Elsewhere
<1>7. ASSUME NEW f \in Fetches, Serve(f) PROVE TypeInv'
  <2>1. calls[f] \in Call /\ calls[f].on \in Challenges \cup {Zero}
    BY <1>7, LiveCall DEF Serve, Refuse, ServeGet, ServeReconnect, ServeStart, ServeTerminate,
         FindProgress, ServeSubmit, Asked, TypeInv, Call
  <2>2. calls[f].reply # "none"
    BY <1>7 DEF Serve, Refuse, ServeGet, ServeReconnect, ServeStart, ServeTerminate,
         FindProgress, ServeSubmit, Asked
  <2>3. Stored(calls[f].on) \in Progress
    BY DEF Stored, Progress
  <2>4. CASE Refuse(f)
    <3>1. /\ calls' \in [Fetches -> Call \cup {NoCall}]
          /\ \A g \in Fetches : calls'[g].key \in {calls[g].key, NoSession}
      BY <2>2, <2>4, AnsweredTyped DEF Refuse, Failed, Progress
    <3>2. UNCHANGED <<browser, live, sessions, rows>> /\ disturbed' \in BOOLEAN
      BY <1>5, <2>4 DEF Refuse, store
    <3>3. \A g \in Fetches : calls'[g].key <= Len(sessions)
      BY <1>1, <1>5, <3>1 DEF NoSession
    <3>4. QED BY <1>1, <1>4, <1>5, <3>1, <3>2, <3>3
  <2>5. CASE ServeGet(f)
    <3>1. /\ calls' \in [Fetches -> Call \cup {NoCall}]
          /\ \A g \in Fetches : calls'[g].key \in {calls[g].key, NoSession}
      <4>1. CASE \E p \in {"none", "blank"} : Answered(f, "zero", NoSession, p)
        BY <2>2, <4>1, AnsweredTyped DEF Progress
      <4>2. CASE \E p \in {Stored(calls[f].on), "blank"} : Answered(f, "ok", NoSession, p)
        BY <2>2, <2>3, <4>2, AnsweredTyped DEF Progress
      <4>3. QED BY <2>5, <4>1, <4>2 DEF ServeGet
    <3>2. UNCHANGED <<browser, live, sessions, rows>> /\ disturbed' \in BOOLEAN
      BY <1>5, <2>5 DEF ServeGet, store
    <3>3. \A g \in Fetches : calls'[g].key <= Len(sessions)
      BY <1>1, <1>5, <3>1 DEF NoSession
    <3>4. QED BY <1>1, <1>4, <1>5, <3>1, <3>2, <3>3
  <2>6. CASE ServeReconnect(f)
    <3>1. /\ calls' \in [Fetches -> Call \cup {NoCall}]
          /\ \A g \in Fetches : calls'[g].key \in {calls[g].key, NoSession, Running(calls[f].on)}
      <4>1. Running(calls[f].on) \in {NoSession} \cup Sessions
        BY <1>5, <2>1 DEF Running
      <4>2. QED BY <2>1, <2>2, <2>6, <4>1, AnsweredTyped DEF ServeReconnect, Failed, Progress
    <3>2. \A g \in Fetches : calls'[g].key <= Len(sessions)
      <4>1. Running(calls[f].on) <= Len(sessions)
        BY <1>1, <1>5, <2>1 DEF Running, NoSession
      <4>2. QED BY <1>1, <1>5, <3>1, <4>1 DEF NoSession
    <3>3. UNCHANGED <<browser, live, sessions, rows>> /\ disturbed' \in BOOLEAN
      BY <1>5, <2>6 DEF ServeReconnect, store
    <3>4. QED BY <1>1, <1>4, <1>5, <3>1, <3>2, <3>3
  <2>7. CASE ServeStart(f)
    <3> calls[f].on \in Challenges
      BY <2>1, <2>7 DEF ServeStart
    <3>1. CASE live[calls[f].on] # NoSession /\ UNCHANGED <<store, disturbed>>
               /\ Answered(f, "ok", live[calls[f].on], "none")
      <4>1. /\ calls' \in [Fetches -> Call \cup {NoCall}]
            /\ \A g \in Fetches : calls'[g].key \in {calls[g].key, NoSession, live[calls[f].on]}
        BY <1>5, <2>1, <2>2, <3>1, AnsweredTyped DEF Progress
      <4>2. \A g \in Fetches : calls'[g].key <= Len(sessions)
        BY <1>1, <1>5, <2>1, <4>1 DEF NoSession
      <4>3. QED BY <1>1, <1>4, <1>5, <2>7, <3>1, <4>1, <4>2 DEF ServeStart, store
    <3>2. CASE live[calls[f].on] = NoSession /\ NewSession(calls[f].on)
      <4>1. Len(sessions) + 1 \in Sessions
        BY <1>1, <3>2 DEF NewSession, Sessions
      <4>2. /\ calls' \in [Fetches -> Call \cup {NoCall}]
            /\ \A g \in Fetches : calls'[g].key \in {calls[g].key, NoSession, Len(sessions) + 1}
            /\ disturbed' \in BOOLEAN
        <5>1. CASE Answered(f, "ok", Len(sessions) + 1, "none") /\ UNCHANGED disturbed
          BY <1>5, <2>2, <4>1, <5>1, AnsweredTyped DEF Progress
        <5>2. CASE Failed(f) /\ disturbed' = TRUE
          <6>1. /\ calls' \in [Fetches -> Call \cup {NoCall}]
                /\ \A g \in Fetches : calls'[g].key \in {calls[g].key, NoSession}
            BY <2>2, <5>2, AnsweredTyped DEF Failed, Progress
          <6>2. QED BY <5>2, <6>1
        <5>3. QED BY <2>7, <3>2, <5>1, <5>2 DEF ServeStart
      <4>3. \A g \in Fetches : calls'[g].key <= Len(sessions) + 1
        <5>1. ASSUME NEW g \in Fetches PROVE calls'[g].key <= Len(sessions) + 1
          <6>1. calls[g].key \in Nat /\ calls[g].key <= Len(sessions)
            BY <1>5
          <6>2. CASE calls'[g].key = calls[g].key
            BY <1>1, <6>1, <6>2
          <6>3. CASE calls'[g].key \in {NoSession, Len(sessions) + 1}
            BY <1>1, <6>3 DEF NoSession
          <6>4. QED BY <4>2, <6>2, <6>3
        <5>2. QED BY <5>1
      <4>4. QED BY <1>1, <1>2, <1>4, <1>5, <2>1, <2>7, <3>2, <4>2, <4>3 DEF ServeStart
    <3>3. QED BY <2>7, <3>1, <3>2 DEF ServeStart
  <2>8. CASE ServeTerminate(f)
    <3>1. calls[f].key \in {NoSession} \cup Sessions
      BY <2>1 DEF Call
    <3>2. /\ calls' \in [Fetches -> Call \cup {NoCall}]
          /\ \A g \in Fetches : calls'[g].key \in {calls[g].key, NoSession, calls[f].key}
          /\ disturbed' \in BOOLEAN
      <4>1. CASE Answered(f, "ok", calls[f].key, "none") /\ UNCHANGED disturbed
        <5>1. "ok" \in {"ok", "zero", "unwritten", "fail"} /\ "none" \in Progress
          BY DEF Progress
        <5>2. /\ calls' \in [Fetches -> Call \cup {NoCall}]
              /\ \A g \in Fetches : calls'[g].key \in {calls[g].key, calls[f].key, NoSession}
          BY <2>2, <3>1, <4>1, <5>1, AnsweredTyped
        <5>3. QED BY <1>5, <4>1, <5>2
      <4>2. CASE Failed(f) /\ disturbed' = TRUE
        <5>1. /\ calls' \in [Fetches -> Call \cup {NoCall}]
              /\ \A g \in Fetches : calls'[g].key \in {calls[g].key, NoSession}
          BY <2>2, <4>2, AnsweredTyped DEF Failed, Progress
        <5>2. QED BY <4>2, <5>1
      <4>3. QED BY <2>8, <4>1, <4>2 DEF ServeTerminate
    <3>3. PICK now \in {NoSession, live[calls[f].on]} :
            live' = [live EXCEPT ![calls[f].on] = now]
      BY <2>8 DEF ServeTerminate
    <3>4. /\ live' \in [Challenges -> {NoSession} \cup Sessions]
          /\ \A d \in Challenges :
               /\ live'[d] <= Len(sessions')
               /\ live'[d] # NoSession => sessions'[live'[d]] = d
      BY <1>3, <2>1, <2>8, <3>3 DEF ServeTerminate
    <3>5. \A g \in Fetches : calls'[g].key <= Len(sessions)
      BY <1>1, <1>5, <3>2 DEF NoSession
    <3>6. UNCHANGED <<browser, sessions, rows>>
      BY <2>8 DEF ServeTerminate
    <3>7. Len(sessions) <= Len(sessions')
      BY <1>1, <3>6
    <3>8. QED BY <1>4, <1>5, <3>2, <3>4, <3>5, <3>6, <3>7
  <2>9. CASE FindProgress(f)
    <3>1. [calls[f] EXCEPT !.reply = "checked", !.found = Stored(calls[f].on)] \in Call
      BY <2>1, <2>3 DEF Call
    <3>2. /\ calls' = [calls EXCEPT ![f] =
                        [calls[f] EXCEPT !.reply = "checked", !.found = Stored(calls[f].on)]]
      BY <1>5, <2>1, <2>9 DEF FindProgress, Call
    <3>3. /\ calls' \in [Fetches -> Call \cup {NoCall}]
          /\ \A g \in Fetches : calls'[g].key = calls[g].key
      BY <1>5, <2>1, <3>1, <3>2 DEF Call
    <3>4. UNCHANGED <<browser, live, sessions, rows>> /\ disturbed' \in BOOLEAN
      BY <1>5, <2>9 DEF FindProgress, store
    <3>5. QED BY <1>1, <1>4, <1>5, <3>3, <3>4
  <2>10. CASE ServeSubmit(f)
    <3>1. /\ calls' \in [Fetches -> Call \cup {NoCall}]
          /\ \A g \in Fetches : calls'[g].key \in {calls[g].key, NoSession}
      BY <2>2, <2>10, AnsweredTyped DEF ServeSubmit, Progress
    <3>2. rows' \in [Challenges -> Nat]
      BY <1>5, <2>10 DEF ServeSubmit, Record, Insert
    <3>3. \A g \in Fetches : calls'[g].key <= Len(sessions)
      BY <1>1, <1>5, <3>1 DEF NoSession
    <3>4. UNCHANGED <<browser, live, sessions, disturbed>>
      BY <2>10 DEF ServeSubmit, store
    <3>5. QED BY <1>1, <1>4, <1>5, <3>1, <3>2, <3>3, <3>4
  <2>11. QED BY <1>7, <2>4, <2>5, <2>6, <2>7, <2>8, <2>9, <2>10 DEF Serve
<1>8. QED BY <1>6, <1>7

LEMMA DeliverTyped ==
  ASSUME TypeInv, NEW f \in Fetches, Deliver(f)
  PROVE  TypeInv'
<1>1. calls[f] \in Call
  BY LiveCall DEF Deliver, GotChallenge, GetFailed, Reconnected, NothingToDo, Started, Terminated,
     SubmitAnswered, Got, TypeInv
\* A handler that goes on in the page, which may change the session it shows.
<1>2. ASSUME NEW v \in View, v.session <= Len(sessions), Show(v),
             calls' \in [Fetches -> Call \cup {NoCall}],
             \A g \in Fetches : calls'[g].key \in {calls[g].key, NoSession},
             UNCHANGED <<id, store, rows, disturbed>>
      PROVE  TypeInv'
  <2>1. view' \in View /\ pane' \in Pane /\ TerminalIsOfSession'
    BY <1>2, ShowTyped
  <2>2. TypeOK'
    BY <1>2, <2>1 DEF TypeInv, TypeOK, store
  <2>3. KeysExist'
    <3>1. view' = v /\ UNCHANGED <<live, sessions>>
      BY <1>2 DEF Show, store
    <3>2. Len(sessions) \in Nat
      BY DEF TypeInv, TypeOK
    <3>3. \A g \in Fetches : calls'[g].key <= Len(sessions)
      BY <1>2, <3>2 DEF TypeInv, KeysExist, NoSession
    <3>4. QED BY <1>2, <3>1, <3>3 DEF TypeInv, KeysExist
  <2>4. QED BY <2>1, <2>2, <2>3 DEF TypeInv
<1>3. view \in View /\ Len(sessions) \in Nat
      /\ view.session <= Len(sessions) /\ calls[f].key <= Len(sessions)
      /\ NoSession <= Len(sessions)
  BY DEF TypeInv, TypeOK, KeysExist, NoSession
<1>4. CASE GotChallenge(f)
  <2> DEFINE c == IF calls[f].reply = "zero" THEN Zero ELSE calls[f].on
  <2>1. c \in Challenges \cup {Zero} /\ Request("reconnect", c, NoSession) \in Call
    BY <1>1, RequestTyped DEF Call, SessionKinds
  <2>2. /\ calls' \in [Fetches -> Call \cup {NoCall}]
        /\ \A g \in Fetches : calls'[g].key \in {calls[g].key, NoSession}
    BY <1>4, <2>1 DEF GotChallenge, TypeInv, TypeOK, Request
  <2>3. [view EXCEPT !.loading = FALSE, !.challenge = c, !.progress = calls[f].found]
          \in View
    BY <1>1, <1>3, <2>1 DEF View, Call
  <2>4. [view EXCEPT !.loading = FALSE, !.challenge = c,
                     !.progress = calls[f].found].session = view.session
    BY <1>3 DEF View
  <2>5. QED BY <1>2, <1>3, <1>4, <2>2, <2>3, <2>4 DEF GotChallenge
<1>5. CASE GetFailed(f)
  <2>1. [view EXCEPT !.loading = FALSE] \in View
        /\ [view EXCEPT !.loading = FALSE].session = view.session
    BY <1>3 DEF View
  <2>2. QED BY <1>2, <1>3, <1>5, <2>1, DoneTyped DEF GetFailed
<1>6. CASE Reconnected(f)
  <2>1. [view EXCEPT !.session = calls[f].key] \in View
        /\ [view EXCEPT !.session = calls[f].key].session = calls[f].key
    BY <1>1, <1>3 DEF View, Call
  <2>2. QED BY <1>2, <1>3, <1>6, <2>1, DoneTyped DEF Reconnected
<1>7. CASE NothingToDo(f)
  <2>1. /\ calls' \in [Fetches -> Call \cup {NoCall}]
        /\ \A g \in Fetches : calls'[g].key \in {calls[g].key, NoSession}
    BY <1>7, DoneTyped DEF NothingToDo
  <2>2. UNCHANGED <<id, view, pane, live, sessions, rows, disturbed>>
    BY <1>7 DEF NothingToDo, browser, store
  <2>3. \A g \in Fetches : calls'[g].key <= Len(sessions)
    BY <1>3, <2>1 DEF TypeInv, KeysExist
  <2>4. QED BY <2>1, <2>2, <2>3 DEF TypeInv, TypeOK, KeysExist, TerminalIsOfSession, PaneKey
<1>8. CASE Started(f)
  <2>1. PICK k \in {calls[f].key, view.session} :
          Show([view EXCEPT !.session = k, !.busy = @ \ {"start"}])
    BY <1>8 DEF Started
  <2>2. [view EXCEPT !.session = k, !.busy = @ \ {"start"}] \in View
        /\ [view EXCEPT !.session = k, !.busy = @ \ {"start"}].session = k
    BY <1>1, <1>3 DEF View, Call
  <2>3. QED BY <1>2, <1>3, <1>8, <2>1, <2>2, DoneTyped DEF Started
<1>9. CASE Terminated(f)
  <2>1. [view EXCEPT !.session = NoSession] \in View
        /\ [view EXCEPT !.session = NoSession].session = NoSession
    BY <1>3 DEF View
  <2>2. QED BY <1>2, <1>3, <1>9, <2>1, DoneTyped DEF Terminated
<1>10. CASE SubmitAnswered(f)
  <2>1. PICK p \in {view.progress, CompletedAfter(view)} :
          view' = [view EXCEPT !.busy = @ \ {"submitFlag"}, !.progress = p]
    BY <1>10 DEF SubmitAnswered
  <2>2. p \in Progress
    BY <1>3 DEF CompletedAfter, View, Progress
  <2>3. view' \in View /\ view'.session = view.session /\ PaneKey(view') = PaneKey(view)
    BY <1>3, <2>1, <2>2 DEF View, PaneKey
  <2>4. /\ calls' \in [Fetches -> Call \cup {NoCall}]
        /\ \A g \in Fetches : calls'[g].key \in {calls[g].key, NoSession}
        /\ UNCHANGED <<id, pane, live, sessions, rows, disturbed>>
    BY <1>10, DoneTyped DEF SubmitAnswered, store
  <2>5. \A g \in Fetches : calls'[g].key <= Len(sessions)
    BY <1>3, <2>4 DEF TypeInv, KeysExist
  <2>6. QED BY <2>3, <2>4, <2>5 DEF TypeInv, TypeOK, KeysExist, TerminalIsOfSession, PaneKey
<1>11. QED BY <1>4, <1>5, <1>6, <1>7, <1>8, <1>9, <1>10 DEF Deliver

LEMMA TypeStep == TypeInv /\ [Next]_vars => TypeInv'
<1>1. SUFFICES ASSUME TypeInv, [Next]_vars PROVE TypeInv'
  OBVIOUS
<1>2. CASE UNCHANGED vars
  BY <1>1, <1>2 DEF vars, TypeInv, TypeOK, KeysExist, TerminalIsOfSession, PaneKey
<1>3. CASE Next
  BY <1>1, <1>3, NavigationTyped, ButtonsTyped, SocketTyped, ServerTyped, DeliverTyped DEF Next
<1>4. QED BY <1>1, <1>2, <1>3

\* Every reachable state is well-typed, and every session the page, a request
\* or the server names has been started for the challenge it is named for.
THEOREM TypeCorrect == Spec => [](TypeOK /\ KeysExist)
<1>1. TypeInv => TypeOK /\ KeysExist
  BY DEF TypeInv
<1>2. QED BY TypeInit, TypeStep, <1>1, PTL DEF Spec

\* The terminal on the page is that of the session on the page, and there is
\* none without a session: setSession, in whichever handler, and the panel's
\* toggle mount, unmount and reconnect TerminalPane.
THEOREM TerminalFollowsSession == Spec => []TerminalIsOfSession
<1>1. TypeInv => TerminalIsOfSession
  BY DEF TypeInv
<1>2. QED BY TypeInit, TypeStep, <1>1, PTL DEF Spec

-----------------------------------------------------------------------------
(* The light.                                                              *)

LEMMA ConnectedStep == TypeInv /\ ConnectedIsBacked /\ [Next]_vars => ConnectedIsBacked'
<1>1. SUFFICES ASSUME TypeInv, ConnectedIsBacked, [Next]_vars PROVE ConnectedIsBacked'
  OBVIOUS
<1>2. pane \in Pane /\ MaxClosing \in Nat
  BY <1>1 DEF TypeInv, TypeOK
<1>3. CASE UNCHANGED pane
  BY <1>1, <1>3 DEF ConnectedIsBacked
<1>4. ASSUME pane' = NoPane PROVE ConnectedIsBacked'
  BY <1>4 DEF ConnectedIsBacked, NoPane
\* A socket that is closed while the light is on is to report it.
<1>5. ASSUME NEW v, Show(v) PROVE ConnectedIsBacked'
  <2>1. PICK key : pane' = PaneFor(key)
    BY <1>5 DEF Show
  <2>2. CASE key = pane.key
    BY <1>1, <2>1, <2>2 DEF PaneFor, ConnectedIsBacked
  <2>3. CASE key # pane.key /\ (key = NoSession \/ pane.key = NoSession)
    BY <2>1, <2>3 DEF PaneFor, ConnectedIsBacked, NoPane
  <2>4. CASE key # pane.key /\ key # NoSession /\ pane.key # NoSession
    <3>1. pane' = [pane EXCEPT !.key = key, !.socket = "connecting", !.closing = @ + Leftover]
      BY <2>1, <2>4 DEF PaneFor
    <3>2. pane.connected => pane.closing + Leftover > 0
      BY <1>1, <1>2 DEF ConnectedIsBacked, Leftover, Pane
    <3>3. QED BY <1>2, <3>1, <3>2 DEF ConnectedIsBacked, Pane
  <2>5. QED BY <2>2, <2>3, <2>4
<1>6. CASE OnOpen
  BY <1>2, <1>6 DEF OnOpen, ConnectedIsBacked, Pane
<1>7. CASE OnClose \/ OnCloseOfLeftover
  BY <1>2, <1>7 DEF OnClose, OnCloseOfLeftover, ConnectedIsBacked, Pane
<1>8. ASSUME NEW f \in Fetches, Deliver(f) PROVE ConnectedIsBacked'
  BY <1>3, <1>5, <1>8 DEF Deliver, GotChallenge, GetFailed, Reconnected, NothingToDo, Started,
     Terminated, SubmitAnswered, browser
<1>9. ASSUME NEW f \in Fetches, Serve(f) PROVE UNCHANGED pane
  BY <1>9 DEF Serve, Refuse, ServeGet, ServeReconnect, ServeStart, ServeTerminate,
     FindProgress, ServeSubmit, browser
<1>10. ASSUME NEW f \in Fetches, NEW c \in Challenges, Visit(f, c) \/ Jump(f, c)
       PROVE  ConnectedIsBacked'
  BY <1>3, <1>4, <1>10 DEF Visit, Jump
<1>11. ASSUME NEW f \in Fetches, StartSession(f) \/ Terminate(f) \/ SubmitFlag(f)
       PROVE  UNCHANGED pane
  BY <1>11 DEF StartSession, Terminate, SubmitFlag, browser
<1>12. ASSUME NEW c \in Challenges, Elsewhere(c) PROVE UNCHANGED pane
  BY <1>12 DEF Elsewhere, browser
<1>13. CASE ToggleTerminal
  BY <1>5, <1>13 DEF ToggleTerminal
<1>14. CASE UNCHANGED vars
  BY <1>3, <1>14 DEF vars
<1>15. QED BY <1>1, <1>3, <1>6, <1>7, <1>8, <1>9, <1>10, <1>11, <1>12, <1>13, <1>14 DEF Next

\* The light is on only while the pane's socket is open, or one that it has
\* replaced is still to report that it is closed (ws.onclose).
THEOREM LightIsBacked == Spec => []ConnectedIsBacked
<1>1. Init => ConnectedIsBacked
  BY DEF Init, ConnectedIsBacked, NoPane
<1>2. QED BY TypeInit, TypeStep, <1>1, ConnectedStep, PTL DEF Spec

-----------------------------------------------------------------------------
(* Progress.                                                               *)

\* What a request says of the rows is so.
Backed(call) ==
  /\ call.kind = "get" => call.on \in Challenges
  /\ call.reply = "checked" => call.on \in Known
  /\ call.found = "done" => call.reply # "zero" /\ call.on \in Challenges /\ rows[call.on] > 0
  /\ call.kind = "submitFlag" /\ call.reply = "ok" => call.on \in Challenges /\ rows[call.on] > 0

LEMMA RecordMeans ==
  RecordInv <=> /\ \A c \in Challenges : rows[c] <= 1
                /\ \A f \in Fetches : Backed(calls[f])
                /\ CompletedIsRecorded
BY DEF RecordInv, FlagsAreRecorded, ProgressOnce, AcceptedIsRecorded, FoundIsSo, Got, Backed

LEMMA NoCallBacked == Backed(NoCall)
BY DEF Backed, NoCall

LEMMA RequestBacked ==
  ASSUME NEW kind, NEW c, NEW key, kind = "get" => c \in Challenges
  PROVE  Backed(Request(kind, c, key))
BY DEF Backed, Request

LEMMA RecordKept ==
  ASSUME RecordInv, UNCHANGED rows, \A g \in Fetches : Backed(calls'[g]),
         view'.progress = "done" => view.progress = "done" /\ view'.challenge = view.challenge
  PROVE  RecordInv'
BY RecordMeans DEF RecordInv, FlagsAreRecorded, ProgressOnce, AcceptedIsRecorded, FoundIsSo, Got,
   Backed, CompletedIsRecorded

LEMMA AnsweredBacked ==
  ASSUME TypeInv, RecordInv, NEW f \in Fetches, calls[f].reply # "none",
         NEW r, NEW key, NEW found,
         Answered(f, r, key, found), r # "checked",
         found = "done" => r # "zero" /\ calls[f].on \in Challenges /\ rows[calls[f].on] > 0,
         calls[f].kind = "submitFlag" => r # "ok"
  PROVE  \A g \in Fetches : Backed(calls'[g])
<1>1. calls[f] \in Call /\ calls \in [Fetches -> Call \cup {NoCall}]
  BY LiveCall DEF TypeInv, TypeOK
<1>2. Backed([calls[f] EXCEPT !.reply = r, !.key = key, !.found = found])
  BY <1>1, RecordMeans DEF Backed, Call
<1>3. Backed(calls'[f])
  BY <1>1, <1>2, NoCallBacked DEF Answered
<1>4. ASSUME NEW g \in Fetches, g # f PROVE Backed(calls'[g])
  BY <1>1, <1>4, RecordMeans DEF Answered
<1>5. QED BY <1>3, <1>4

LEMMA SubmitKeepsRecord ==
  ASSUME TypeInv, RecordInv, NEW f \in Fetches, ServeSubmit(f)
  PROVE  RecordInv'
<1>1. calls[f] \in Call /\ calls \in [Fetches -> Call \cup {NoCall}] /\ rows \in [Challenges -> Nat]
  BY LiveCall DEF ServeSubmit, TypeInv, TypeOK
<1>2. PICK r \in {"ok", "unwritten"} :
        /\ Answered(f, r, NoSession, "none")
        /\ r = "ok" => Record(calls[f].on, calls[f].found)
        /\ r # "ok" => UNCHANGED rows
  BY DEF ServeSubmit
<1>3. calls[f].on \in Challenges /\ Backed(calls[f])
  BY RecordMeans DEF ServeSubmit, Backed
<1>4. /\ \A c \in Challenges :
           rows[c] \in Nat /\ rows'[c] \in Nat /\ rows'[c] >= rows[c] /\ rows'[c] <= 1
      /\ r = "ok" => rows'[calls[f].on] > 0
  BY <1>1, <1>2, <1>3, RecordMeans DEF Record, Insert, Backed
<1>5. CompletedIsRecorded'
  <2>1. view' = view /\ view \in View
    BY DEF ServeSubmit, browser, TypeInv, TypeOK
  <2>2. view.progress = "done" => view.challenge \in Challenges /\ rows[view.challenge] > 0
    BY <2>1 DEF RecordInv, CompletedIsRecorded, View
  <2>3. QED BY <1>1, <1>4, <2>1, <2>2 DEF CompletedIsRecorded
<1>6. ASSUME NEW g \in Fetches PROVE Backed(calls[g])'
  <2>1. CASE g = f
    <3>1. calls'[f] = IF calls[f].here
                      THEN [calls[f] EXCEPT !.reply = r, !.key = NoSession, !.found = "none"]
                      ELSE NoCall
      BY <1>1, <1>2 DEF Answered
    <3>2. CASE calls[f].here
      BY <1>1, <1>2, <1>3, <1>4, <2>1, <3>1, <3>2 DEF Backed, Call
    <3>3. CASE ~calls[f].here
      BY <2>1, <3>1, <3>3 DEF Backed, NoCall
    <3>4. QED BY <3>2, <3>3
  <2>2. CASE g # f
    <3>1. calls'[g] = calls[g] /\ Backed(calls[g])
      BY <1>1, <1>2, <2>2, RecordMeans DEF Answered
    <3>2. CASE calls[g] = NoCall
      BY <3>1, <3>2 DEF Backed, NoCall
    <3>3. CASE calls[g] \in Call
      BY <1>1, <1>4, <3>1, <3>3 DEF Backed, Call
    <3>4. QED BY <1>1, <3>2, <3>3
  <2>3. QED BY <2>1, <2>2
<1>7. QED BY <1>4, <1>5, <1>6
          DEF RecordInv, FlagsAreRecorded, ProgressOnce, AcceptedIsRecorded, FoundIsSo, Got, Backed

LEMMA RecordServe ==
  ASSUME TypeInv, RecordInv, NEW f \in Fetches, Serve(f)
  PROVE  RecordInv'
<1>1. calls \in [Fetches -> Call \cup {NoCall}] /\ \A g \in Fetches : Backed(calls[g])
  BY RecordMeans DEF TypeInv, TypeOK
<1>2. CASE Refuse(f)
  BY <1>2, AnsweredBacked, RecordKept DEF Refuse, Failed, browser
<1>3. CASE ServeGet(f)
  <2>1. PICK r \in {"ok", "zero"}, p \in {"none", "blank", Stored(calls[f].on)} :
          Answered(f, r, NoSession, p) /\ (r = "zero" => p \in {"none", "blank"})
    BY <1>3 DEF ServeGet
  <2>2. p = "done" => r # "zero" /\ calls[f].on \in Challenges /\ rows[calls[f].on] > 0
    <3>1. calls[f].on \in Challenges
      BY <1>1, <1>3 DEF ServeGet, Asked, Backed
    <3>2. QED BY <2>1, <3>1 DEF Stored
  <2>3. QED BY <1>3, <2>1, <2>2, AnsweredBacked, RecordKept DEF ServeGet, Asked, browser
<1>4. CASE ServeReconnect(f)
  BY <1>4, AnsweredBacked, RecordKept DEF ServeReconnect, Failed, Asked, browser
<1>5. CASE ServeStart(f)
  <2>1. \E r, key : Answered(f, r, key, "none") /\ r # "checked"
    BY <1>5 DEF ServeStart, Failed
  <2>2. QED BY <1>5, <2>1, AnsweredBacked, RecordKept DEF ServeStart, Asked, browser
<1>6. CASE ServeTerminate(f)
  <2>1. \E r, key : Answered(f, r, key, "none") /\ r # "checked"
    BY <1>6 DEF ServeTerminate, Failed
  <2>2. QED BY <1>6, <2>1, AnsweredBacked, RecordKept DEF ServeTerminate, Asked, browser
<1>7. CASE FindProgress(f)
  <2>1. calls[f] \in Call /\ calls[f].on \in Known
    BY <1>7, LiveCall DEF FindProgress, Asked, TypeInv
  <2>2. calls' = [calls EXCEPT ![f] =
                    [calls[f] EXCEPT !.reply = "checked", !.found = Stored(calls[f].on)]]
    BY <1>1, <1>7, <2>1 DEF FindProgress, Call
  <2>3. Backed([calls[f] EXCEPT !.reply = "checked", !.found = Stored(calls[f].on)])
    BY <2>1 DEF Backed, Call, Stored
  <2>4. \A g \in Fetches : Backed(calls'[g])
    BY <1>1, <2>2, <2>3
  <2>5. QED BY <1>7, <2>4, RecordKept DEF FindProgress, browser
<1>8. CASE ServeSubmit(f)
  BY <1>8, SubmitKeepsRecord
<1>9. QED BY <1>2, <1>3, <1>4, <1>5, <1>6, <1>7, <1>8 DEF Serve

LEMMA RecordDeliver ==
  ASSUME TypeInv, RecordInv, NEW f \in Fetches, Deliver(f)
  PROVE  RecordInv'
<1>1. /\ calls \in [Fetches -> Call \cup {NoCall}] /\ view \in View
      /\ \A g \in Fetches : Backed(calls[g])
  BY RecordMeans DEF TypeInv, TypeOK
<1>2. ASSUME Done(f) PROVE \A g \in Fetches : Backed(calls'[g])
  BY <1>1, <1>2, NoCallBacked DEF Done
<1>3. CASE GotChallenge(f)
  <2>1. calls[f] \in Call
    BY <1>3, LiveCall DEF GotChallenge, Got, TypeInv
  <2>2. \A g \in Fetches : Backed(calls'[g])
    BY <1>1, <1>3, RequestBacked DEF GotChallenge
  <2>3. /\ view'.progress = calls[f].found /\ UNCHANGED rows
        /\ calls[f].reply # "zero" => view'.challenge = calls[f].on
    BY <1>1, <1>3 DEF GotChallenge, Show, View
  <2>4. calls[f].found = "done" =>
          calls[f].reply # "zero" /\ calls[f].on \in Challenges /\ rows[calls[f].on] > 0
    BY <1>1 DEF Backed
  <2>5. QED BY <2>2, <2>3, <2>4 DEF RecordInv, FlagsAreRecorded, ProgressOnce,
               AcceptedIsRecorded, FoundIsSo, Got, Backed, CompletedIsRecorded
<1>4. CASE SubmitAnswered(f)
  <2>1. view'.progress = "done" => view.progress = "done"
    BY <1>1, <1>4 DEF SubmitAnswered, CompletedAfter, View
  <2>2. view'.challenge = view.challenge
    BY <1>1, <1>4 DEF SubmitAnswered, View
  <2>3. QED BY <1>2, <1>4, <2>1, <2>2, RecordKept DEF SubmitAnswered
<1>5. CASE GetFailed(f) \/ Reconnected(f) \/ Started(f) \/ Terminated(f)
  <2>1. view'.progress = view.progress /\ view'.challenge = view.challenge
    BY <1>1, <1>5 DEF GetFailed, Reconnected, Started, Terminated, Show, View
  <2>2. QED BY <1>2, <1>5, <2>1, RecordKept DEF GetFailed, Reconnected, Started, Terminated
<1>6. CASE NothingToDo(f)
  BY <1>2, <1>6, RecordKept DEF NothingToDo, browser
<1>7. QED BY <1>3, <1>4, <1>5, <1>6 DEF Deliver

LEMMA RecordStep == TypeInv /\ RecordInv /\ [Next]_vars => RecordInv'
<1>1. SUFFICES ASSUME TypeInv, RecordInv, [Next]_vars PROVE RecordInv'
  OBVIOUS
<1>2. /\ calls \in [Fetches -> Call \cup {NoCall}] /\ view \in View
      /\ \A g \in Fetches : Backed(calls[g])
  BY <1>1, RecordMeans DEF TypeInv, TypeOK
<1>3. CASE UNCHANGED vars
  BY <1>1, <1>2, <1>3, RecordKept DEF vars
<1>4. ASSUME NEW f \in Fetches, NEW c \in Challenges, Visit(f, c) PROVE RecordInv'
  <2>1. ASSUME NEW g \in Fetches PROVE Backed(calls'[g])
    <3>1. CASE g = f
      BY <1>4, <3>1, RequestBacked DEF Visit
    <3>2. CASE g # f /\ StillMatters(g)
      <4>1. calls[g] \in Call
        BY <1>1, <3>2, LiveCall DEF StillMatters, TypeInv
      <4>2. calls'[g] = [calls[g] EXCEPT !.here = FALSE]
        BY <1>4, <3>2 DEF Visit
      <4>3. QED BY <1>2, <4>1, <4>2 DEF Backed, Call
    <3>3. CASE g # f /\ ~StillMatters(g)
      BY <1>4, <3>3, NoCallBacked DEF Visit
    <3>4. QED BY <3>1, <3>2, <3>3
  <2>2. view'.progress = "none" /\ UNCHANGED rows
    BY <1>4 DEF Visit, FreshView
  <2>3. QED BY <1>1, <2>1, <2>2, RecordKept
<1>5. ASSUME NEW f \in Fetches, NEW c \in Challenges, Jump(f, c) PROVE RecordInv'
  BY <1>1, <1>2, <1>5, RequestBacked, RecordKept DEF Jump
<1>6. ASSUME NEW f \in Fetches, StartSession(f) \/ SubmitFlag(f) PROVE RecordInv'
  <2>1. \A g \in Fetches : Backed(calls'[g])
    BY <1>2, <1>6, RequestBacked DEF StartSession, SubmitFlag
  <2>2. view'.progress = view.progress /\ view'.challenge = view.challenge
    BY <1>2, <1>6 DEF StartSession, SubmitFlag, View
  <2>3. QED BY <1>1, <1>6, <2>1, <2>2, RecordKept DEF StartSession, SubmitFlag
<1>7. ASSUME NEW f \in Fetches, Terminate(f) PROVE RecordInv'
  <2>1. \A g \in Fetches : Backed(calls'[g])
    BY <1>2, <1>7, RequestBacked DEF Terminate
  <2>2. QED BY <1>1, <1>7, <2>1, RecordKept DEF Terminate, browser
<1>8. CASE ToggleTerminal
  <2>1. view'.progress = view.progress /\ view'.challenge = view.challenge
    BY <1>2, <1>8 DEF ToggleTerminal, Show, View
  <2>2. QED BY <1>1, <1>2, <1>8, <2>1, RecordKept DEF ToggleTerminal
<1>9. CASE OnOpen \/ OnClose \/ OnCloseOfLeftover
  BY <1>1, <1>2, <1>9, RecordKept DEF OnOpen, OnClose, OnCloseOfLeftover
<1>10. ASSUME NEW c \in Challenges, Elsewhere(c) PROVE RecordInv'
  BY <1>1, <1>2, <1>10, RecordKept DEF Elsewhere, browser
<1>11. QED BY <1>1, <1>3, <1>4, <1>5, <1>6, <1>7, <1>8, <1>9, <1>10, RecordServe, RecordDeliver
           DEF Next

LEMMA RecordInit == Init => RecordInv
<1>1. SUFFICES ASSUME Init PROVE RecordInv
  OBVIOUS
<1>2. \A f \in Fetches : Backed(calls[f])
  BY <1>1, NoCallBacked, RequestBacked DEF Init
<1>3. CompletedIsRecorded
  BY <1>1 DEF Init, CompletedIsRecorded, FreshView
<1>4. QED BY <1>1, <1>2, <1>3, RecordMeans DEF Init

\* However many submissions of a flag overlap, each challenge has one progress
\* row at most, and a submission that wrote and was answered as accepted has
\* one (ChallengeHandler.SubmitFlag, ProgressRepository.Upsert).
THEOREM FlagsStayRecorded == Spec => []FlagsAreRecorded
<1>1. RecordInv => FlagsAreRecorded
  BY DEF RecordInv
<1>2. QED BY TypeInit, TypeStep, RecordInit, RecordStep, <1>1, PTL DEF Spec

\* The badge "Completed" is shown for a challenge whose completed row the
\* server has, whichever route and answer come late.
THEOREM BadgeIsRight == Spec => []CompletedIsRecorded
<1>1. RecordInv => CompletedIsRecorded
  BY DEF RecordInv
<1>2. QED BY TypeInit, TypeStep, RecordInit, RecordStep, <1>1, PTL DEF Spec

-----------------------------------------------------------------------------
(* The start button.                                                       *)

Starts(call) == call.kind = "start" /\ call.here
Dropped(call) == call.reply \in {"ok", "zero", "unwritten", "fail"} => call.here

LEMMA ButtonMeans ==
  ButtonInv <=> /\ \A f \in Fetches : Dropped(calls[f])
                /\ "start" \in view.busy <=> \E f \in Fetches : Starts(calls[f])
                /\ \A f, g \in Fetches : Starts(calls[f]) /\ Starts(calls[g]) => f = g
BY DEF ButtonInv, AnsweredHere, OneStart, Starts, Dropped

LEMMA NoCallStarts == ~Starts(NoCall) /\ Dropped(NoCall)
BY DEF Starts, Dropped, NoCall

LEMMA RequestStarts ==
  ASSUME NEW kind, NEW c, NEW key
  PROVE  /\ Starts(Request(kind, c, key)) <=> kind = "start"
         /\ Dropped(Request(kind, c, key))
BY DEF Starts, Dropped, Request

LEMMA ButtonKept ==
  ASSUME ButtonInv, "start" \in view'.busy <=> "start" \in view.busy,
         \A g \in Fetches : Dropped(calls'[g]) /\ (Starts(calls'[g]) <=> Starts(calls[g]))
  PROVE  ButtonInv'
BY ButtonMeans DEF ButtonInv, AnsweredHere, OneStart, Starts, Dropped

LEMMA AnsweredStarts ==
  ASSUME TypeInv, ButtonInv, NEW f \in Fetches, calls[f].reply # "none",
         NEW r, NEW key, NEW found, Answered(f, r, key, found)
  PROVE  \A g \in Fetches : Dropped(calls'[g]) /\ (Starts(calls'[g]) <=> Starts(calls[g]))
<1>1. calls[f] \in Call /\ calls \in [Fetches -> Call \cup {NoCall}]
  BY LiveCall DEF TypeInv, TypeOK
<1>2. Dropped(calls'[f]) /\ (Starts(calls'[f]) <=> Starts(calls[f]))
  <2>1. CASE calls[f].here
    BY <1>1, <2>1 DEF Answered, Call, Dropped, Starts
  <2>2. CASE ~calls[f].here
    BY <1>1, <2>2, NoCallStarts DEF Answered, Starts
  <2>3. QED BY <2>1, <2>2
<1>3. QED BY <1>1, <1>2, ButtonMeans DEF Answered

LEMMA ButtonServe ==
  ASSUME TypeInv, ButtonInv, NEW f \in Fetches, Serve(f)
  PROVE  ButtonInv'
<1>1. calls \in [Fetches -> Call \cup {NoCall}] /\ \A g \in Fetches : Dropped(calls[g])
  BY ButtonMeans DEF TypeInv, TypeOK
<1>2. CASE FindProgress(f)
  <2>1. calls[f] \in Call
    BY <1>2, LiveCall DEF FindProgress, Asked, TypeInv
  <2>2. calls' = [calls EXCEPT ![f] =
                    [calls[f] EXCEPT !.reply = "checked", !.found = Stored(calls[f].on)]]
    BY <1>1, <1>2, <2>1 DEF FindProgress, Call
  <2>3. \A g \in Fetches : Dropped(calls'[g]) /\ (Starts(calls'[g]) <=> Starts(calls[g]))
    BY <1>1, <2>1, <2>2 DEF Dropped, Starts, Call
  <2>4. QED BY <1>2, <2>3, ButtonKept DEF FindProgress, browser
<1>3. CASE ~FindProgress(f)
  <2>1. /\ calls[f].reply # "none" /\ UNCHANGED view
        /\ \E r, key, found : Answered(f, r, key, found)
    BY <1>3 DEF Serve, Refuse, ServeGet, ServeReconnect, ServeStart, ServeTerminate, ServeSubmit,
       Asked, Failed, browser
  <2>2. QED BY <2>1, AnsweredStarts, ButtonKept
<1>4. QED BY <1>2, <1>3

LEMMA ButtonDeliver ==
  ASSUME TypeInv, ButtonInv, NEW f \in Fetches, Deliver(f)
  PROVE  ButtonInv'
<1>1. /\ calls \in [Fetches -> Call \cup {NoCall}] /\ view \in View
      /\ \A g \in Fetches : Dropped(calls[g])
  BY ButtonMeans DEF TypeInv, TypeOK
<1>2. CASE Started(f)
  <2>1. Starts(calls[f])
    BY <1>1, <1>2 DEF Started, Starts, Dropped
  <2>2. calls' = [calls EXCEPT ![f] = NoCall]
    BY <1>2 DEF Started, Done
  <2>3. \A g \in Fetches : ~Starts(calls'[g]) /\ Dropped(calls'[g])
    BY <1>1, <2>1, <2>2, NoCallStarts, ButtonMeans
  <2>4. "start" \notin view'.busy
    BY <1>1, <1>2 DEF Started, Show, View
  <2>5. QED BY <2>3, <2>4 DEF ButtonInv, AnsweredHere, OneStart, Starts, Dropped
<1>3. CASE GotChallenge(f)
  <2>1. ~Starts(calls[f])
    BY <1>3 DEF GotChallenge, Got, Starts
  <2>2. \A g \in Fetches : Dropped(calls'[g]) /\ (Starts(calls'[g]) <=> Starts(calls[g]))
    BY <1>1, <1>3, <2>1, RequestStarts DEF GotChallenge
  <2>3. view'.busy = view.busy
    BY <1>1, <1>3 DEF GotChallenge, Show, View
  <2>4. QED BY <2>2, <2>3, ButtonKept
<1>4. CASE GetFailed(f) \/ Reconnected(f) \/ NothingToDo(f) \/ Terminated(f) \/ SubmitAnswered(f)
  <2>1. calls' = [calls EXCEPT ![f] = NoCall]
    BY <1>4 DEF GetFailed, Reconnected, NothingToDo, Terminated, SubmitAnswered, Done
  <2>2. ~Starts(calls[f])
    BY <1>4 DEF GetFailed, Reconnected, NothingToDo, Terminated, SubmitAnswered, Got, Starts
  <2>3. \A g \in Fetches : Dropped(calls'[g]) /\ (Starts(calls'[g]) <=> Starts(calls[g]))
    BY <1>1, <2>1, <2>2, NoCallStarts
  <2>4. "start" \in view'.busy <=> "start" \in view.busy
    <3>1. CASE GetFailed(f) \/ Reconnected(f) \/ Terminated(f)
      BY <1>1, <3>1 DEF GetFailed, Reconnected, Terminated, Show, View
    <3>2. CASE NothingToDo(f)
      BY <3>2 DEF NothingToDo, browser
    <3>3. CASE SubmitAnswered(f)
      <4>1. view'.busy = view.busy \ {"submitFlag"}
        BY <1>1, <3>3 DEF SubmitAnswered, View
      <4>2. QED BY <4>1
    <3>4. QED BY <1>4, <3>1, <3>2, <3>3
  <2>5. QED BY <2>3, <2>4, ButtonKept
<1>5. QED BY <1>2, <1>3, <1>4 DEF Deliver

LEMMA ButtonStep == TypeInv /\ ButtonInv /\ [Next]_vars => ButtonInv'
<1>1. SUFFICES ASSUME TypeInv, ButtonInv, [Next]_vars PROVE ButtonInv'
  OBVIOUS
<1>2. /\ calls \in [Fetches -> Call \cup {NoCall}] /\ view \in View
      /\ \A g \in Fetches : Dropped(calls[g])
  BY <1>1, ButtonMeans DEF TypeInv, TypeOK
<1>3. ASSUME view'.busy = view.busy, UNCHANGED calls PROVE ButtonInv'
  BY <1>1, <1>2, <1>3, ButtonKept
<1>4. ASSUME NEW f \in Fetches, NEW c \in Challenges, Visit(f, c) PROVE ButtonInv'
  <2>1. ASSUME NEW g \in Fetches PROVE ~Starts(calls'[g]) /\ Dropped(calls'[g])
    <3>1. CASE g = f
      BY <1>4, <3>1, RequestStarts DEF Visit
    <3>2. CASE g # f /\ StillMatters(g)
      <4>1. calls[g] \in Call /\ calls[g].reply \notin {"ok", "zero", "unwritten", "fail"}
        BY <1>1, <3>2, LiveCall DEF StillMatters, TypeInv
      <4>2. calls'[g] = [calls[g] EXCEPT !.here = FALSE]
        BY <1>4, <3>2 DEF Visit
      <4>3. QED BY <4>1, <4>2 DEF Starts, Dropped, Call
    <3>3. CASE g # f /\ ~StillMatters(g)
      BY <1>4, <3>3, NoCallStarts DEF Visit
    <3>4. QED BY <3>1, <3>2, <3>3
  <2>2. view'.busy = {}
    BY <1>4 DEF Visit, FreshView
  <2>3. QED BY <2>1, <2>2 DEF ButtonInv, AnsweredHere, OneStart, Starts, Dropped
<1>5. ASSUME NEW f \in Fetches, calls[f] = NoCall, NEW kind \in SessionKinds \cup {"submitFlag"},
             NEW c, NEW key, kind # "start",
             calls' = [calls EXCEPT ![f] = Request(kind, c, key)],
             "start" \in view'.busy <=> "start" \in view.busy
      PROVE  ButtonInv'
  <2>1. \A g \in Fetches : Dropped(calls'[g]) /\ (Starts(calls'[g]) <=> Starts(calls[g]))
    BY <1>2, <1>5, RequestStarts, NoCallStarts
  <2>2. QED BY <1>1, <1>5, <2>1, ButtonKept
<1>6. ASSUME NEW f \in Fetches, StartSession(f) PROVE ButtonInv'
  <2>1. "start" \notin view.busy /\ \A g \in Fetches : ~Starts(calls[g])
    BY <1>1, <1>6, ButtonMeans DEF StartSession, MayStart
  <2>2. \A g \in Fetches : Dropped(calls'[g]) /\ (Starts(calls'[g]) <=> g = f)
    BY <1>2, <1>6, <2>1, RequestStarts DEF StartSession
  <2>3. "start" \in view'.busy
    BY <1>2, <1>6 DEF StartSession, View
  <2>4. QED BY <2>2, <2>3 DEF ButtonInv, AnsweredHere, OneStart, Starts, Dropped
<1>7. ASSUME NEW f \in Fetches, SubmitFlag(f) PROVE ButtonInv'
  <2>1. "start" \in view'.busy <=> "start" \in view.busy
    BY <1>2, <1>7 DEF SubmitFlag, View
  <2>2. QED BY <1>5, <1>7, <2>1 DEF SubmitFlag
<1>8. ASSUME NEW f \in Fetches, Terminate(f) PROVE ButtonInv'
  BY <1>5, <1>8 DEF Terminate, browser, SessionKinds
<1>9. ASSUME NEW f \in Fetches, NEW c \in Challenges, Jump(f, c) PROVE ButtonInv'
  BY <1>5, <1>9 DEF Jump, SessionKinds
<1>10. CASE ToggleTerminal
  <2>1. view'.busy = view.busy
    BY <1>2, <1>10 DEF ToggleTerminal, Show, View
  <2>2. QED BY <1>3, <1>10, <2>1 DEF ToggleTerminal
<1>11. CASE OnOpen \/ OnClose \/ OnCloseOfLeftover
  BY <1>3, <1>11 DEF OnOpen, OnClose, OnCloseOfLeftover
<1>12. ASSUME NEW c \in Challenges, Elsewhere(c) PROVE ButtonInv'
  BY <1>3, <1>12 DEF Elsewhere, browser
<1>13. CASE UNCHANGED vars
  BY <1>3, <1>13 DEF vars
<1>14. QED BY <1>1, <1>4, <1>6, <1>7, <1>8, <1>9, <1>10, <1>11, <1>12, <1>13, ButtonServe,
              ButtonDeliver DEF Next

LEMMA ButtonInit == Init => ButtonInv
<1>1. SUFFICES ASSUME Init PROVE ButtonInv
  OBVIOUS
<1>2. \A f \in Fetches : ~Starts(calls[f]) /\ Dropped(calls[f])
  BY <1>1, NoCallStarts, RequestStarts DEF Init
<1>3. QED BY <1>1, <1>2, ButtonMeans DEF Init, FreshView

\* The start button is disabled exactly while its one request is unanswered
\* (handleStartSession's starting), so a page starts one session at a time.
THEOREM OneStartAtATime == Spec => []OneStart
<1>1. ButtonInv => OneStart
  BY DEF ButtonInv
<1>2. QED BY TypeInit, TypeStep, ButtonInit, ButtonStep, <1>1, PTL DEF Spec

-----------------------------------------------------------------------------
(* The session on an undisturbed page.                                     *)

ForSession(call) == call.kind \in SessionKinds

\* Of some requests there is never another beside them.
Sole(call) == call.kind \in {"get", "terminate"}

\* The page of the empty challenge, and that of a challenge there is.
Empty ==
  /\ view.challenge = Zero /\ view.session = NoSession
  /\ \A f \in Fetches : ForSession(calls[f]) => Vain(calls[f])

Ordered ==
  /\ view.challenge \in {Nothing, id} /\ view.challenge # Zero
  /\ view.session # NoSession => sessions[view.session] = id
  /\ \A f \in Fetches : ForSession(calls[f]) => Orderly(calls[f], id, view.session, live[id])
  /\ \/ view.session = live[id]
     \/ \E f \in Fetches : ForSession(calls[f]) /\ Settles(calls[f], view.session)

LEMMA QuietMeans ==
  QuietInv <=>
    (~disturbed =>
       /\ \A f, g \in Fetches :
            ForSession(calls[f]) /\ ForSession(calls[g]) /\ Sole(calls[f]) => g = f
       /\ \A f \in Fetches : calls[f].kind = "get" => view = FreshView
       /\ Empty \/ Ordered)
<1>1. \A f \in Fetches : f \in SessionCalls <=> ForSession(calls[f])
  BY DEF SessionCalls, ForSession
<1>2. \A f \in Fetches : calls[f].kind = "get" => f \in SessionCalls
  BY DEF SessionCalls, SessionKinds
<1>3. SessionCalls \subseteq Fetches
  BY DEF SessionCalls
<1>4. (\A f \in SessionCalls : calls[f].kind = "get" => view = FreshView)
        <=> \A f \in Fetches : calls[f].kind = "get" => view = FreshView
  BY <1>2, <1>3
<1>5. (\A f, g \in SessionCalls : calls[f].kind \in {"get", "terminate"} => g = f)
        <=> \A f, g \in Fetches :
              ForSession(calls[f]) /\ ForSession(calls[g]) /\ Sole(calls[f]) => g = f
  BY <1>1, <1>3 DEF Sole
<1>6. (\A f \in SessionCalls : Vain(calls[f]))
        <=> \A f \in Fetches : ForSession(calls[f]) => Vain(calls[f])
  BY <1>1, <1>3
<1>7. (\A f \in SessionCalls : Orderly(calls[f], id, view.session, live[id]))
        <=> \A f \in Fetches :
              ForSession(calls[f]) => Orderly(calls[f], id, view.session, live[id])
  BY <1>1, <1>3
<1>8. (\E f \in SessionCalls : Settles(calls[f], view.session))
        <=> \E f \in Fetches : ForSession(calls[f]) /\ Settles(calls[f], view.session)
  BY <1>1, <1>3
<1> HIDE DEF SessionCalls
<1>9. QED BY <1>4, <1>5, <1>6, <1>7, <1>8 DEF QuietInv, Empty, Ordered

LEMMA NoCallForNothing == ~ForSession(NoCall) /\ NoCall.kind # "get"
BY DEF ForSession, NoCall, SessionKinds

\* To establish it of the next state.
LEMMA QuietFrom ==
  ASSUME \A f, g \in Fetches :
           ForSession(calls'[f]) /\ ForSession(calls'[g]) /\ Sole(calls'[f]) => g = f,
         \A f \in Fetches : calls'[f].kind = "get" => view' = FreshView,
         Empty' \/ Ordered'
  PROVE  QuietInv'
<1>1. (SessionCalls \subseteq Fetches)' /\ (\A f \in SessionCalls : ForSession(calls[f]))'
  BY DEF SessionCalls, ForSession
<1>2. (\A f, g \in SessionCalls : calls[f].kind \in {"get", "terminate"} => g = f)'
  BY <1>1 DEF Sole
<1>3. (\A f \in SessionCalls : calls[f].kind = "get" => view = FreshView)'
  BY <1>1
<1>4. CASE Empty'
  <2>1. (\A f \in SessionCalls : Vain(calls[f]))'
    BY <1>1, <1>4 DEF Empty
  <2>2. QED BY <1>2, <1>3, <1>4, <2>1 DEF Empty, QuietInv
<1>5. CASE Ordered'
  <2>1. (\A f \in SessionCalls : Orderly(calls[f], id, view.session, live[id]))'
    BY <1>1, <1>5 DEF Ordered
  <2>2. (\/ view.session = live[id]
         \/ \E f \in SessionCalls : Settles(calls[f], view.session))'
    BY <1>5 DEF Ordered, SessionCalls, ForSession
  <2>3. QED BY <1>2, <1>3, <1>5, <2>1, <2>2 DEF Ordered, QuietInv
<1>6. QED BY <1>4, <1>5

LEMMA DisturbedIsQuiet == disturbed' => QuietInv'
BY DEF QuietInv

\* Steps that are of no concern to the session.
LEMMA QuietKept ==
  ASSUME QuietInv, disturbed' = disturbed, UNCHANGED <<id, live, sessions>>,
         view'.challenge = view.challenge, view'.session = view.session,
         view = FreshView => view' = FreshView,
         \A f \in Fetches : \/ calls'[f] = calls[f]
                            \/ ~ForSession(calls[f]) /\ ~ForSession(calls'[f])
  PROVE  QuietInv'
<1>1. SUFFICES ASSUME ~disturbed' PROVE QuietInv'
  BY DisturbedIsQuiet
<1>2. ~disturbed
  BY <1>1
<1>3. \A f \in Fetches : calls'[f].kind = "get" => calls[f].kind = "get"
  BY DEF ForSession, SessionKinds
<1>4. Empty => Empty'
  BY DEF Empty
<1>5. Ordered => Ordered'
  BY DEF Ordered
<1>6. QED BY <1>2, <1>3, <1>4, <1>5, QuietMeans, QuietFrom

LEMMA QuietVisit ==
  ASSUME TypeInv, NEW f \in Fetches, NEW c \in Challenges, Visit(f, c)
  PROVE  QuietInv'
<1>1. SUFFICES ASSUME ~disturbed' PROVE QuietInv'
  BY DisturbedIsQuiet
<1>2. calls'[f] = Request("get", c, NoSession) /\ id' = c
  BY DEF Visit
<1>3. ASSUME NEW g \in Fetches, g # f PROVE ~ForSession(calls'[g])
  <2>1. CASE StillMatters(g)
    <3>1. calls[g] \in Call
      BY <2>1, LiveCall DEF StillMatters, TypeInv
    <3>2. calls'[g] = [calls[g] EXCEPT !.here = FALSE]
      BY <1>3, <2>1 DEF Visit
    <3>3. g \notin SessionCalls
      BY <1>1, <2>1 DEF Visit
    <3>4. QED BY <3>1, <3>2, <3>3 DEF SessionCalls, ForSession, Call
  <2>2. CASE ~StillMatters(g)
    BY <1>3, <2>2, NoCallForNothing DEF Visit
  <2>3. QED BY <2>1, <2>2
<1>4. view' = FreshView /\ view'.challenge = Nothing /\ view'.session = NoSession
  BY DEF Visit, FreshView
<1>5. /\ ForSession(calls'[f])
      /\ Orderly(calls'[f], id', view'.session, live'[id'])
      /\ Settles(calls'[f], view'.session)
  BY <1>2, <1>4 DEF ForSession, SessionKinds, Request, Orderly, Settles
<1>6. Ordered'
  BY <1>3, <1>4, <1>5 DEF Ordered
<1>7. QED BY <1>3, <1>4, <1>6, QuietFrom

LEMMA QuietStart ==
  ASSUME TypeInv, QuietInv, NEW f \in Fetches, StartSession(f)
  PROVE  QuietInv'
<1>1. SUFFICES ASSUME ~disturbed PROVE QuietInv'
  BY DisturbedIsQuiet DEF StartSession
<1>2. /\ calls' = [calls EXCEPT ![f] = Request("start", view.challenge, NoSession)]
      /\ calls \in [Fetches -> Call \cup {NoCall}]
      /\ calls[f] = NoCall /\ ~ForSession(calls[f])
      /\ UNCHANGED <<id, live, sessions>>
  BY NoCallForNothing DEF StartSession, TypeInv, TypeOK, store
<1>3. /\ view.session = NoSession /\ ~view.loading /\ view.challenge # Nothing
      /\ view'.session = view.session /\ view'.challenge = view.challenge
  BY DEF StartSession, MayStart, Shown, TypeInv, TypeOK, View
<1>4. /\ calls'[f] = Request("start", view.challenge, NoSession)
      /\ \A g \in Fetches \ {f} : calls'[g] = calls[g]
  BY <1>2
<1>5. \A g \in Fetches : ForSession(calls[g]) => ~Sole(calls[g])
  <2>1. \A g \in Fetches : calls[g].kind # "get"
    BY <1>1, <1>3, QuietMeans DEF FreshView
  <2>2. \A g \in Fetches : ForSession(calls[g]) => calls[g].kind # "terminate"
    BY <1>1, <1>3, QuietMeans DEF Empty, Ordered, Vain, Orderly
  <2>3. QED BY <2>1, <2>2 DEF Sole
<1>6. ~Sole(calls'[f])
  BY <1>4 DEF Sole, Request
<1>7. \A g \in Fetches : ForSession(calls'[g]) => ~Sole(calls'[g])
  BY <1>4, <1>5, <1>6
<1>8. CASE Empty
  <2>1. Vain(calls'[f])
    BY <1>4, <1>8 DEF Empty, Vain, Request
  <2>2. Empty'
    BY <1>3, <1>4, <1>8, <2>1 DEF Empty
  <2>3. QED BY <1>7, <2>2, QuietFrom DEF Sole, ForSession, SessionKinds
<1>9. CASE Ordered
  <2>1. Orderly(calls'[f], id', view'.session, live'[id'])
    BY <1>2, <1>3, <1>4, <1>9 DEF Ordered, Request, Orderly
  <2>2. Ordered'
    BY <1>2, <1>3, <1>4, <1>9, <2>1 DEF Ordered
  <2>3. QED BY <1>7, <2>2, QuietFrom DEF Sole, ForSession, SessionKinds
<1>10. QED BY <1>1, <1>8, <1>9, QuietMeans

LEMMA QuietKill ==
  ASSUME TypeInv, QuietInv, NEW f \in Fetches, Terminate(f)
  PROVE  QuietInv'
<1>1. SUFFICES ASSUME ~disturbed, SessionCalls = {} PROVE QuietInv'
  BY DisturbedIsQuiet DEF Terminate
<1>2. view.session # NoSession /\ \A g \in Fetches : ~ForSession(calls[g])
  BY <1>1, SessionIsThere DEF Terminate, SessionCalls, ForSession
<1>3. Ordered
  BY <1>1, <1>2, QuietMeans DEF Empty
<1>4. view.session = live[id] /\ sessions[view.session] = id
  BY <1>2, <1>3 DEF Ordered
<1>5. /\ calls' = [calls EXCEPT ![f] = Request("terminate", id, view.session)]
      /\ calls \in [Fetches -> Call \cup {NoCall}]
      /\ UNCHANGED <<id, view, live, sessions>>
  BY <1>4 DEF Terminate, TypeInv, TypeOK, browser, store
<1>6. \A g \in Fetches \ {f} : calls'[g] = calls[g] /\ ~ForSession(calls'[g])
  BY <1>2, <1>5
<1>7. calls'[f].kind = "terminate" /\ Orderly(calls'[f], id', view'.session, live'[id'])
  BY <1>2, <1>4, <1>5 DEF Request, Orderly, NoSession
<1>8. Ordered'
  BY <1>3, <1>4, <1>5, <1>6, <1>7 DEF Ordered
<1>9. \A g \in Fetches : calls'[g].kind # "get"
  BY <1>6, <1>7 DEF ForSession, SessionKinds
<1>10. QED BY <1>6, <1>8, <1>9, QuietFrom

\* The answer to an orderly request is another orderly request, in its place.
LEMMA QuietReplaced ==
  ASSUME TypeInv, QuietInv, ~disturbed, Ordered, NEW f \in Fetches, ForSession(calls[f]),
         NEW new, calls' = [calls EXCEPT ![f] = new], new.kind = calls[f].kind,
         Orderly(new, id, view.session, live[id]),
         Settles(calls[f], view.session) => Settles(new, view.session)
                                            \/ view.session = live[id],
         UNCHANGED <<id, live, sessions, view>>
  PROVE  QuietInv'
<1>1. calls \in [Fetches -> Call \cup {NoCall}]
  BY DEF TypeInv, TypeOK
<1>2. calls'[f] = new /\ \A g \in Fetches \ {f} : calls'[g] = calls[g]
  BY <1>1
<1>3. \A g \in Fetches : calls'[g].kind = calls[g].kind
  BY <1>2
<1>4. \A g \in Fetches : ForSession(calls'[g]) => Orderly(calls'[g], id, view.session, live[id])
  BY <1>2, <1>3 DEF Ordered, ForSession
<1>5. \/ view.session = live[id]
      \/ \E g \in Fetches : ForSession(calls'[g]) /\ Settles(calls'[g], view.session)
  BY <1>2, <1>3 DEF Ordered, ForSession
<1>6. Ordered'
  BY <1>4, <1>5 DEF Ordered
<1>7. QED BY <1>3, <1>6, QuietMeans, QuietFrom DEF ForSession, Sole

\* An answer that makes the page show the session that runs, or none.
LEMMA QuietSettled ==
  ASSUME TypeInv, QuietInv, ~disturbed, Ordered, NEW f \in Fetches, ForSession(calls[f]),
         calls[f].kind # "get", calls' = [calls EXCEPT ![f] = NoCall],
         view'.session = live[id], view'.challenge = view.challenge,
         UNCHANGED <<id, live, sessions>>
  PROVE  QuietInv'
<1>1. calls \in [Fetches -> Call \cup {NoCall}]
  BY DEF TypeInv, TypeOK
<1>2. ~ForSession(calls'[f]) /\ \A g \in Fetches \ {f} : calls'[g] = calls[g]
  BY <1>1, NoCallForNothing
<1>3. \A g \in Fetches \ {f} : ForSession(calls[g]) => ~Sole(calls[g])
  BY QuietMeans
<1>4. \A g \in Fetches : ForSession(calls'[g]) =>
        ~Sole(calls'[g]) /\ Orderly(calls'[g], id', view'.session, live'[id'])
  BY <1>2, <1>3 DEF Ordered, Orderly, Sole
<1>5. view'.session # NoSession => sessions'[view'.session] = id'
  BY DEF TypeInv, TypeOK, KeysExist
<1>6. Ordered'
  BY <1>4, <1>5 DEF Ordered
<1>7. QED BY <1>4, <1>6, QuietFrom DEF Sole, ForSession, SessionKinds

LEMMA QuietNewSession ==
  ASSUME TypeInv, QuietInv, ~disturbed, Ordered, NEW f \in Fetches, ServeStart(f),
         live[id] = NoSession, NewSession(id), Answered(f, "ok", Len(sessions) + 1, "none"),
         calls[f].on = id, calls[f].here
  PROVE  QuietInv'
<1>1. /\ calls[f] \in Call /\ calls[f].kind = "start"
      /\ calls \in [Fetches -> Call \cup {NoCall}]
      /\ live \in [Challenges -> {NoSession} \cup Sessions] /\ id \in Challenges
      /\ Len(sessions) \in Nat
      /\ UNCHANGED <<id, view>>
  BY LiveCall DEF ServeStart, Asked, TypeInv, TypeOK, browser
<1>2. ForSession(calls[f])
  BY <1>1 DEF ForSession, SessionKinds
<1>3. live'[id] = Len(sessions) + 1 /\ live'[id] # NoSession
  BY <1>1 DEF NewSession, NoSession
<1>4. \A g \in Fetches : ForSession(calls[g]) => ~Sole(calls[g])
  BY <1>1, <1>2, QuietMeans DEF Sole
<1>5. view.session = NoSession
  BY <1>4 DEF Ordered, Settles, Sole
<1>6. /\ calls'[f].kind = "start" /\ calls'[f].reply = "ok" /\ calls'[f].key = Len(sessions) + 1
      /\ calls'[f].here /\ calls'[f].on = id
  BY <1>1 DEF Answered, Call
<1>7. /\ ForSession(calls'[f]) /\ Orderly(calls'[f], id, NoSession, live'[id])
      /\ Settles(calls'[f], NoSession)
  BY <1>3, <1>6 DEF ForSession, SessionKinds, Orderly, Settles
<1>8. ASSUME NEW g \in Fetches, ForSession(calls'[g])
      PROVE  ~Sole(calls'[g]) /\ Orderly(calls'[g], id, NoSession, live'[id])
  <2>1. CASE g = f
    BY <1>6, <1>7, <2>1 DEF Sole
  <2>2. CASE g # f
    <3>1. calls'[g] = calls[g]
      BY <1>1, <2>2 DEF Answered
    <3>2. ~Sole(calls[g]) /\ Orderly(calls[g], id, view.session, live[id])
      BY <1>4, <1>8, <3>1 DEF Ordered
    <3>3. QED BY <3>1, <3>2 DEF Orderly, Sole
  <2>3. QED BY <2>1, <2>2
<1>9. Ordered'
  BY <1>1, <1>5, <1>7, <1>8 DEF Ordered
<1>10. QED BY <1>8, <1>9, QuietFrom DEF Sole, ForSession, SessionKinds

LEMMA QuietKilled ==
  ASSUME TypeInv, QuietInv, ~disturbed, Ordered, NEW f \in Fetches, ServeTerminate(f),
         Answered(f, "ok", calls[f].key, "none")
  PROVE  QuietInv'
<1>1. /\ calls[f] \in Call /\ calls[f].kind = "terminate" /\ calls[f].reply = "pending"
      /\ calls \in [Fetches -> Call \cup {NoCall}]
      /\ live \in [Challenges -> {NoSession} \cup Sessions] /\ id \in Challenges
      /\ UNCHANGED <<id, view, sessions>>
  BY LiveCall DEF ServeTerminate, Asked, TypeInv, TypeOK, browser
<1>2. ForSession(calls[f]) /\ Sole(calls[f])
  BY <1>1 DEF ForSession, SessionKinds, Sole
<1>3. /\ calls[f].here /\ calls[f].on = id
      /\ calls[f].key = view.session /\ view.session # NoSession /\ view.session = live[id]
  BY <1>1, <1>2 DEF Ordered, Orderly
<1>4. live'[id] = NoSession
  BY <1>1, <1>3 DEF ServeTerminate
<1>5. /\ calls'[f].kind = "terminate" /\ calls'[f].reply = "ok"
      /\ calls'[f].key = view.session /\ calls'[f].here /\ calls'[f].on = id
  BY <1>1, <1>3 DEF Answered, Call
<1>6. \A g \in Fetches \ {f} : ~ForSession(calls'[g])
  <2>1. \A g \in Fetches \ {f} : calls'[g] = calls[g]
    BY <1>1 DEF Answered
  <2>2. \A g \in Fetches \ {f} : ~ForSession(calls[g])
    BY <1>2, QuietMeans
  <2>3. QED BY <2>1, <2>2
<1>7. /\ ForSession(calls'[f]) /\ Orderly(calls'[f], id, view.session, live'[id])
      /\ Settles(calls'[f], view.session)
  BY <1>3, <1>4, <1>5 DEF ForSession, SessionKinds, Orderly, Settles
<1>8. Ordered'
  BY <1>1, <1>6, <1>7 DEF Ordered
<1>9. \A g \in Fetches : calls'[g].kind # "get"
  BY <1>5, <1>6 DEF ForSession, SessionKinds
<1>10. QED BY <1>6, <1>8, <1>9, QuietFrom

LEMMA QuietServe ==
  ASSUME TypeInv, QuietInv, NEW f \in Fetches, Serve(f)
  PROVE  QuietInv'
<1>1. SUFFICES ASSUME ~disturbed' PROVE QuietInv'
  BY DisturbedIsQuiet
<1>2. /\ ~disturbed /\ UNCHANGED <<id, view>> /\ calls[f] \in Call
      /\ calls \in [Fetches -> Call \cup {NoCall}]
  BY <1>1, LiveCall DEF Serve, Refuse, ServeGet, ServeReconnect, ServeStart, ServeTerminate,
     FindProgress, ServeSubmit, Asked, TypeInv, TypeOK, browser
<1>3. CASE ~ForSession(calls[f])
  <2>1. Refuse(f) \/ FindProgress(f) \/ ServeSubmit(f)
    BY <1>3 DEF Serve, ServeGet, ServeReconnect, ServeStart, ServeTerminate, Asked, ForSession,
       SessionKinds
  <2>2. /\ disturbed' = disturbed /\ UNCHANGED <<live, sessions>>
        /\ ~ForSession(calls'[f]) /\ \A g \in Fetches \ {f} : calls'[g] = calls[g]
    <3>1. ASSUME NEW r, NEW key, NEW found, Answered(f, r, key, found)
          PROVE  ~ForSession(calls'[f]) /\ \A g \in Fetches \ {f} : calls'[g] = calls[g]
      BY <1>2, <1>3, <3>1, NoCallForNothing DEF Answered, Call, ForSession
    <3>2. CASE Refuse(f)
      <4>1. Failed(f) /\ UNCHANGED store /\ (~disturbed' => ~disturbed)
        BY <3>2 DEF Refuse
      <4>2. disturbed \in BOOLEAN /\ disturbed' \in BOOLEAN
        BY <3>2 DEF Refuse, TypeInv, TypeOK
      <4>3. disturbed' = disturbed
        BY <1>1, <1>2, <4>2
      <4>4. QED BY <3>1, <4>1, <4>3 DEF Failed, store
    <3>3. CASE FindProgress(f)
      <4>1. ~ForSession(calls'[f]) /\ \A g \in Fetches \ {f} : calls'[g] = calls[g]
        BY <1>2, <1>3, <3>3 DEF FindProgress, Call, ForSession
      <4>2. QED BY <3>3, <4>1 DEF FindProgress, store
    <3>4. CASE ServeSubmit(f)
      BY <3>1, <3>4 DEF ServeSubmit, store
    <3>5. QED BY <2>1, <3>2, <3>3, <3>4
  <2>3. QED BY <1>2, <1>3, <2>2, QuietKept
\* The page of the empty challenge: its reconnect fails.
<1>5. CASE ForSession(calls[f]) /\ Empty
  <2>1. /\ Vain(calls[f]) /\ calls[f].kind \in {"reconnect", "start"}
        /\ calls[f].on = Zero /\ calls[f].here
    BY <1>5 DEF Empty, Vain
  <2>2. ServeReconnect(f)
    BY <1>1, <2>1 DEF Serve, Refuse, ServeGet, ServeStart, ServeTerminate, FindProgress,
       ServeSubmit, Asked, SessionKinds, Vain
  <2>3. Answered(f, "fail", NoSession, "none") /\ UNCHANGED <<live, sessions>>
    BY <2>1, <2>2 DEF ServeReconnect, Running, Failed, store
  <2>4. /\ calls'[f].kind = calls[f].kind /\ Vain(calls'[f])
        /\ \A g \in Fetches \ {f} : calls'[g] = calls[g]
    BY <1>2, <2>1, <2>3 DEF Answered, Call, Vain
  <2>5. Empty'
    BY <1>2, <1>5, <2>4 DEF Empty
  <2>6. \A g \in Fetches : calls'[g].kind = calls[g].kind
    BY <2>4
  <2>7. QED BY <1>2, <2>5, <2>6, QuietMeans, QuietFrom DEF ForSession, Sole
<1>4. CASE ForSession(calls[f]) /\ Ordered
  <2>1. /\ Orderly(calls[f], id, view.session, live[id])
        /\ calls[f].on = id /\ calls[f].here
        /\ calls[f].kind \in {"get", "reconnect", "start", "terminate"}
        /\ id \in Challenges /\ id # Zero
    BY <1>2, <1>4 DEF Ordered, Orderly, ForSession, SessionKinds, TypeInv, TypeOK
  <2>2. ~Refuse(f) /\ ~FindProgress(f) /\ ~ServeSubmit(f)
    BY <1>1, <1>4, <2>1 DEF Refuse, FindProgress, ServeSubmit, Asked, ForSession, SessionKinds,
       Orderly
  <2>3. ASSUME NEW r, NEW key, NEW found, Answered(f, r, key, found)
        PROVE  /\ calls' = [calls EXCEPT ![f] = calls'[f]]
               /\ calls'[f].kind = calls[f].kind /\ calls'[f].on = id /\ calls'[f].here
               /\ calls'[f].reply = r /\ calls'[f].key = key /\ ForSession(calls'[f])
    <3>1. calls'[f] = [calls[f] EXCEPT !.reply = r, !.key = key, !.found = found]
      BY <1>2, <2>1, <2>3 DEF Answered
    <3>2. calls' = [calls EXCEPT ![f] = calls'[f]]
      BY <1>2, <2>3 DEF Answered
    <3>3. QED BY <1>2, <1>4, <2>1, <3>1, <3>2 DEF Call, ForSession
  <2>4. ASSUME UNCHANGED <<live, sessions>>, calls[f].kind # "terminate",
               calls' = [calls EXCEPT ![f] = calls'[f]],
               calls'[f].kind = calls[f].kind, ForSession(calls'[f]),
               Orderly(calls'[f], id, view.session, live[id]),
               Settles(calls[f], view.session) =>
                 Settles(calls'[f], view.session) \/ view.session = live[id]
        PROVE  QuietInv'
    BY <1>2, <1>4, <2>4, QuietReplaced
  \* The answer is the session that runs.
  <2>5. ASSUME UNCHANGED <<live, sessions>>, live[id] # NoSession,
                calls[f].kind \in {"reconnect", "start"},
                Answered(f, "ok", live[id], "none")
         PROVE  QuietInv'
    <3>1. /\ calls' = [calls EXCEPT ![f] = calls'[f]]
          /\ calls'[f].kind = calls[f].kind /\ calls'[f].on = id /\ calls'[f].here
          /\ calls'[f].reply = "ok" /\ calls'[f].key = live[id] /\ ForSession(calls'[f])
      BY <2>3, <2>5
    <3>2. Orderly(calls'[f], id, view.session, live[id])
      BY <2>5, <3>1 DEF Orderly
    <3>3. Settles(calls[f], view.session) => Settles(calls'[f], view.session)
      BY <2>5, <3>1 DEF Settles
    <3>4. QED BY <2>4, <2>5, <3>1, <3>2, <3>3
  <2>6. CASE ServeGet(f)
    <3>1. \E r \in {"ok", "zero"}, p \in {"none", "blank", Stored(calls[f].on)} :
            Answered(f, r, NoSession, p)
      BY <2>6 DEF ServeGet
    <3>2. calls[f].kind = "get" /\ UNCHANGED <<live, sessions>>
      BY <2>6 DEF ServeGet, Asked, store
    <3>3. /\ calls' = [calls EXCEPT ![f] = calls'[f]]
          /\ calls'[f].kind = "get" /\ calls'[f].on = id /\ calls'[f].here
          /\ calls'[f].reply \in {"ok", "zero"} /\ ForSession(calls'[f])
      BY <2>3, <3>1, <3>2
    <3>4. Orderly(calls'[f], id, view.session, live[id])
      BY <3>3 DEF Orderly
    <3>5. Settles(calls[f], view.session) => Settles(calls'[f], view.session)
      BY <3>2, <3>3 DEF Settles
    <3>6. QED BY <2>4, <3>2, <3>3, <3>4, <3>5
  <2>7. CASE ServeReconnect(f)
    <3>1. calls[f].kind = "reconnect" /\ UNCHANGED <<live, sessions>>
      BY <2>7 DEF ServeReconnect, Asked, store
    <3>2. CASE live[id] = NoSession
      <4>1. Answered(f, "fail", NoSession, "none")
        BY <2>1, <2>7, <3>2 DEF ServeReconnect, Running, Failed
      <4>2. /\ calls' = [calls EXCEPT ![f] = calls'[f]]
            /\ calls'[f].kind = "reconnect" /\ calls'[f].on = id /\ calls'[f].here
            /\ calls'[f].reply = "fail" /\ ForSession(calls'[f])
        BY <2>3, <3>1, <4>1
      <4>3. Orderly(calls'[f], id, view.session, live[id])
        BY <4>2 DEF Orderly
      <4>4. Settles(calls[f], view.session) => view.session = live[id]
        BY <3>1, <3>2 DEF Settles
      <4>5. QED BY <2>4, <3>1, <4>2, <4>3, <4>4
    <3>3. CASE live[id] # NoSession
      <4>1. Answered(f, "ok", live[id], "none")
        BY <2>1, <2>7, <3>3 DEF ServeReconnect, Running
      <4>2. QED BY <2>5, <3>1, <3>3, <4>1
    <3>4. QED BY <3>2, <3>3
  <2>8. CASE ServeStart(f)
    <3>1. calls[f].kind = "start"
      BY <2>8 DEF ServeStart, Asked
    <3>2. CASE live[id] # NoSession
      <4>1. Answered(f, "ok", live[id], "none") /\ UNCHANGED <<live, sessions>>
        BY <2>1, <2>8, <3>2 DEF ServeStart, store
      <4>2. QED BY <2>5, <3>1, <3>2, <4>1
    <3>3. CASE live[id] = NoSession
      <4>1. NewSession(id) /\ Answered(f, "ok", Len(sessions) + 1, "none")
        BY <1>1, <2>1, <2>8, <3>3 DEF ServeStart
      <4>2. QED BY <1>2, <1>4, <2>1, <2>8, <3>3, <4>1, QuietNewSession
    <3>4. QED BY <3>2, <3>3
  <2>9. CASE ServeTerminate(f)
    <3>1. Answered(f, "ok", calls[f].key, "none")
      BY <1>1, <2>9 DEF ServeTerminate
    <3>2. QED BY <1>2, <1>4, <2>9, <3>1, QuietKilled
  <2>10. QED BY <2>2, <2>6, <2>7, <2>8, <2>9 DEF Serve
<1>6. QED BY <1>2, <1>3, <1>4, <1>5, QuietMeans

LEMMA QuietDeliver ==
  ASSUME TypeInv, QuietInv, NEW f \in Fetches, Deliver(f)
  PROVE  QuietInv'
<1>1. SUFFICES ASSUME ~disturbed' PROVE QuietInv'
  BY DisturbedIsQuiet
<1>2. /\ ~disturbed /\ disturbed' = disturbed /\ UNCHANGED <<id, live, sessions>>
      /\ calls \in [Fetches -> Call \cup {NoCall}] /\ view \in View
      /\ calls[f] \in Call
  BY <1>1, LiveCall DEF Deliver, GotChallenge, GetFailed, Reconnected, NothingToDo, Started,
     Terminated, SubmitAnswered, Got, TypeInv, TypeOK, store, browser
<1>3. CASE Empty
  <2>1. CASE ~ForSession(calls[f])
    <3>1. SubmitAnswered(f)
      BY <1>3, <2>1 DEF Deliver, GotChallenge, GetFailed, Reconnected, NothingToDo, Started,
         Terminated, Got, ForSession, SessionKinds
    <3>2. ~ForSession(calls'[f]) /\ \A g \in Fetches \ {f} : calls'[g] = calls[g]
      BY <1>2, <3>1, NoCallForNothing DEF SubmitAnswered, Done
    <3>3. view'.challenge = view.challenge /\ view'.session = view.session
      BY <1>2, <3>1 DEF SubmitAnswered, View
    <3>4. view # FreshView
      BY <1>3 DEF Empty, FreshView
    <3>5. QED BY <1>2, <2>1, <3>2, <3>3, <3>4, QuietKept
  <2>2. CASE ForSession(calls[f])
    <3>1. calls[f].kind \in {"reconnect", "start"} /\ calls[f].reply \in {"pending", "fail"}
      BY <1>3, <2>2 DEF Empty, Vain
    <3>2. NothingToDo(f) \/ Started(f)
      BY <3>1 DEF Deliver, GotChallenge, GetFailed, Reconnected, Terminated, SubmitAnswered, Got
    <3>3. view'.challenge = view.challenge /\ view'.session = view.session
      BY <1>2, <3>1, <3>2 DEF NothingToDo, Started, Show, View, browser
    <3>4. calls' = [calls EXCEPT ![f] = NoCall]
      BY <3>2 DEF NothingToDo, Started, Done
    <3>5. ~ForSession(calls'[f]) /\ \A g \in Fetches \ {f} : calls'[g] = calls[g]
      BY <1>2, <3>4, NoCallForNothing
    <3>6. Empty'
      BY <1>3, <3>3, <3>5 DEF Empty
    <3>7. \A g \in Fetches : calls'[g].kind # "get"
      BY <3>6 DEF Empty, Vain, ForSession, SessionKinds
    <3>8. \A g \in Fetches : ForSession(calls'[g]) => ForSession(calls[g]) /\ calls'[g] = calls[g]
      BY <3>5
    <3>9. QED BY <1>2, <3>6, <3>7, <3>8, QuietMeans, QuietFrom
  <2>3. QED BY <2>1, <2>2
<1>4. SUFFICES ASSUME Ordered PROVE QuietInv'
  BY <1>2, <1>3, QuietMeans
<1>5. ForSession(calls[f]) => Orderly(calls[f], id, view.session, live[id])
  BY <1>4 DEF Ordered
<1>6. CASE GotChallenge(f)
  <2>1. calls[f].kind = "get" /\ ForSession(calls[f])
    BY <1>6 DEF GotChallenge, Got, ForSession, SessionKinds
  <2>2. calls[f].on = id /\ view = FreshView
    BY <1>2, <1>5, <2>1, QuietMeans DEF Orderly
  <2>3. view.session = NoSession
    BY <2>2 DEF FreshView
  <2> DEFINE c == IF calls[f].reply = "zero" THEN Zero ELSE calls[f].on
             new == Request("reconnect", c, NoSession)
  <2>4. calls'[f] = new /\ \A g \in Fetches \ {f} : calls'[g] = calls[g]
    BY <1>2, <1>6 DEF GotChallenge
  <2>5. view'.challenge = c /\ view'.session = NoSession
    BY <1>2, <1>6, <2>3 DEF GotChallenge, Show, View
  <2>6. \A g \in Fetches \ {f} : ~ForSession(calls'[g])
    BY <1>2, <2>1, <2>4, QuietMeans DEF Sole
  <2>7. new.kind = "reconnect" /\ ForSession(new)
    BY DEF Request, ForSession, SessionKinds
  <2>8. CASE c = Zero
    <3>1. Vain(new)
      BY <2>8 DEF Request, Vain
    <3>2. Empty'
      BY <2>4, <2>5, <2>6, <2>8, <3>1 DEF Empty
    <3>3. QED BY <2>4, <2>6, <2>7, <3>2, QuietFrom DEF ForSession, SessionKinds, Sole
  <2>9. CASE c # Zero
    <3>1. c = id /\ id # Zero
      BY <2>2, <2>9
    <3>2. Orderly(new, id, NoSession, live[id]) /\ Settles(new, NoSession)
      BY <3>1 DEF Request, Orderly, Settles
    <3>3. Ordered'
      BY <1>2, <2>4, <2>5, <2>6, <2>7, <3>1, <3>2 DEF Ordered
    <3>4. QED BY <2>4, <2>6, <2>7, <3>3, QuietFrom DEF ForSession, SessionKinds, Sole
  <2>10. QED BY <2>8, <2>9
<1>7. CASE GetFailed(f)
  BY <1>5, <1>7 DEF GetFailed, Got, ForSession, SessionKinds, Orderly
<1>8. CASE Reconnected(f) \/ Started(f)
  <2>1. /\ ForSession(calls[f])
        /\ calls[f].kind \in {"reconnect", "start"}
        /\ calls[f].kind = "reconnect" => calls[f].reply = "ok"
    BY <1>8 DEF Reconnected, Started, Got, ForSession, SessionKinds
  <2>2. calls[f].key = live[id] /\ calls[f].reply = "ok"
    <3>1. calls[f].kind = "start" => calls[f].reply \in {"ok", "fail"}
      BY <1>8 DEF Reconnected, Started, Got
    <3>2. QED BY <1>5, <2>1, <3>1 DEF Orderly
  <2>3. view'.session = live[id] /\ view'.challenge = view.challenge
    BY <1>2, <1>8, <2>2 DEF Reconnected, Started, Show, View
  <2>4. calls' = [calls EXCEPT ![f] = NoCall]
    BY <1>8 DEF Reconnected, Started, Done
  <2>5. QED BY <1>2, <1>4, <2>1, <2>3, <2>4, QuietSettled
<1>9. CASE NothingToDo(f)
  <2>1. ForSession(calls[f]) /\ calls[f].kind = "reconnect" /\ calls[f].reply = "fail"
    BY <1>5, <1>9 DEF NothingToDo, Got, ForSession, SessionKinds, Orderly
  <2>2. ~Settles(calls[f], view.session)
    BY <2>1 DEF Settles
  <2>3. ~ForSession(calls'[f]) /\ \A g \in Fetches \ {f} : calls'[g] = calls[g]
    BY <1>2, <1>9, NoCallForNothing DEF NothingToDo, Done
  <2>4. UNCHANGED view
    BY <1>9 DEF NothingToDo, browser
  <2>5. \A g \in Fetches : ForSession(calls'[g]) => ForSession(calls[g]) /\ calls'[g] = calls[g]
    BY <2>3
  <2>6. Ordered'
    BY <1>2, <1>4, <2>2, <2>3, <2>4 DEF Ordered
  <2>7. \A g \in Fetches : calls'[g].kind = "get" => calls[g].kind = "get"
    BY <2>3 DEF ForSession, SessionKinds
  <2>8. QED BY <1>2, <2>4, <2>5, <2>6, <2>7, QuietMeans, QuietFrom
<1>10. CASE Terminated(f)
  <2>1. ForSession(calls[f]) /\ calls[f].kind = "terminate" /\ calls[f].reply = "ok"
    BY <1>10 DEF Terminated, Got, ForSession, SessionKinds
  <2>2. live[id] = NoSession
    BY <1>5, <2>1 DEF Orderly
  <2>3. view'.session = live[id] /\ view'.challenge = view.challenge
    BY <1>2, <1>10, <2>2 DEF Terminated, Show, View
  <2>4. QED BY <1>2, <1>4, <1>10, <2>1, <2>3, QuietSettled DEF Terminated, Done
<1>11. CASE SubmitAnswered(f)
  <2>1. ~ForSession(calls[f])
    BY <1>11 DEF SubmitAnswered, ForSession, SessionKinds
  <2>2. ~ForSession(calls'[f]) /\ \A g \in Fetches \ {f} : calls'[g] = calls[g]
    BY <1>2, <1>11, NoCallForNothing DEF SubmitAnswered, Done
  <2>3. view'.challenge = view.challenge /\ view'.session = view.session
    BY <1>2, <1>11 DEF SubmitAnswered, View
  <2>4. view = FreshView => view' = FreshView
    <3>1. SUFFICES ASSUME view = FreshView PROVE view' = FreshView
      OBVIOUS
    <3>2. view.busy = {} /\ view.progress = "none" /\ CompletedAfter(view) = "none"
      BY <3>1 DEF CompletedAfter, FreshView
    <3>3. view' = [view EXCEPT !.busy = {}, !.progress = "none"]
      BY <1>11, <3>2 DEF SubmitAnswered
    <3>4. QED BY <3>1, <3>3 DEF FreshView
  <2>5. QED BY <1>2, <2>1, <2>2, <2>3, <2>4, QuietKept
<1>12. QED BY <1>6, <1>7, <1>8, <1>9, <1>10, <1>11 DEF Deliver

LEMMA QuietStep == TypeInv /\ QuietInv /\ [Next]_vars => QuietInv'
<1>1. SUFFICES ASSUME TypeInv, QuietInv, [Next]_vars PROVE QuietInv'
  OBVIOUS
<1>2. calls \in [Fetches -> Call \cup {NoCall}] /\ view \in View
  BY <1>1 DEF TypeInv, TypeOK
<1>3. ASSUME disturbed' = disturbed, UNCHANGED <<id, live, sessions, calls>>,
             view'.challenge = view.challenge, view'.session = view.session,
             view = FreshView => view' = FreshView
      PROVE  QuietInv'
  BY <1>1, <1>3, QuietKept
<1>4. ASSUME NEW f \in Fetches, NEW c \in Challenges, Jump(f, c) PROVE QuietInv'
  BY <1>4, DisturbedIsQuiet DEF Jump
<1>5. ASSUME NEW c \in Challenges, Elsewhere(c) PROVE QuietInv'
  BY <1>5, DisturbedIsQuiet DEF Elsewhere
<1>6. ASSUME NEW f \in Fetches, SubmitFlag(f) PROVE QuietInv'
  <2>1. ~ForSession(calls[f]) /\ ~ForSession(Request("submitFlag", view.challenge, NoSession))
    BY <1>6, NoCallForNothing DEF SubmitFlag, ForSession, SessionKinds, Request
  <2>2. ~ForSession(calls'[f]) /\ \A g \in Fetches \ {f} : calls'[g] = calls[g]
    BY <1>2, <1>6, <2>1 DEF SubmitFlag
  <2>3. view'.challenge = view.challenge /\ view'.session = view.session
    BY <1>2, <1>6 DEF SubmitFlag, View
  <2>4. view # FreshView
    BY <1>6 DEF SubmitFlag, MaySubmit, Shown, FreshView
  <2>5. QED BY <1>1, <1>6, <2>1, <2>2, <2>3, <2>4, QuietKept DEF SubmitFlag, store
<1>7. CASE ToggleTerminal
  <2>1. view'.challenge = view.challenge /\ view'.session = view.session
    BY <1>2, <1>7 DEF ToggleTerminal, Show, View
  <2>2. view # FreshView
    BY <1>7 DEF ToggleTerminal, Shown, FreshView
  <2>3. QED BY <1>3, <1>7, <2>1, <2>2 DEF ToggleTerminal, store
<1>8. CASE OnOpen \/ OnClose \/ OnCloseOfLeftover
  BY <1>3, <1>8 DEF OnOpen, OnClose, OnCloseOfLeftover, store
<1>9. CASE UNCHANGED vars
  BY <1>3, <1>9 DEF vars
<1>10. QED BY <1>1, <1>4, <1>5, <1>6, <1>7, <1>8, <1>9, QuietVisit, QuietStart, QuietKill,
              QuietServe, QuietDeliver DEF Next

LEMMA QuietInit == Init => QuietInv
<1>1. SUFFICES ASSUME Init PROVE QuietInv
  OBVIOUS
<1>2. PICK f \in Fetches :
        calls = [g \in Fetches |-> IF g = f THEN Request("get", id, NoSession) ELSE NoCall]
  BY <1>1 DEF Init
<1>3. /\ calls[f].kind = "get" /\ ForSession(calls[f])
      /\ Orderly(calls[f], id, view.session, live[id])
  BY <1>2 DEF Request, Orderly, ForSession, SessionKinds
<1>4. \A g \in Fetches : ForSession(calls[g]) => g = f
  BY <1>2, NoCallForNothing
<1>5. view.challenge = Nothing /\ view.session = NoSession /\ live[id] = NoSession
  BY <1>1 DEF Init, FreshView
<1>6. Ordered
  BY <1>1, <1>3, <1>4, <1>5 DEF Ordered, Init
<1>7. \A g \in Fetches : calls[g].kind = "get" => view = FreshView
  BY <1>1 DEF Init
<1>8. QED BY <1>4, <1>6, <1>7, QuietMeans

\* A page that was opened for its challenge, that sent no Kill beside another
\* request, lost no answer, and whose session nobody else touched, shows the
\* session that runs once its requests are answered: reconnect and start may
\* cross in any order.  A page that was answered with the empty challenge (the
\* look-up of resolveChallenge failed) shows none.
THEOREM QuietPageShowsSession == Spec => []QuietPageIsCurrent
<1>1. TypeInv /\ QuietInv => QuietPageIsCurrent
  <2>1. SUFFICES ASSUME TypeInv, QuietInv, ~disturbed, SessionCalls = {}
                 PROVE  view.session = Running(Showing)
    BY DEF QuietPageIsCurrent
  <2>2. id # Zero
    BY <2>1 DEF TypeInv, TypeOK
  <2>3. CASE view.challenge = Zero
    <3>1. view.session = NoSession
      BY <2>1, <2>3, QuietMeans DEF Empty, Ordered
    <3>2. QED BY <2>3, <3>1 DEF Running, Showing
  <2>4. CASE view.challenge # Zero
    <3>1. view.session = live[id]
      BY <2>1, <2>4, QuietMeans DEF Empty, Ordered, SessionCalls, ForSession
    <3>2. QED BY <2>2, <2>4, <3>1 DEF Running, Showing
  <2>5. QED BY <2>3, <2>4
<1>2. QED BY TypeInit, TypeStep, QuietInit, QuietStep, <1>1, PTL DEF Spec

=============================================================================
