---------------------------- MODULE ChallengePage ----------------------------
(***************************************************************************)
(* The page of a challenge in one browser tab: the challenge and the       *)
(* user's progress on it, the session and its terminal, and the flag.      *)
(*                                                                         *)
(* The handlers and effects of ChallengeDetailPage each send a request and *)
(* go on when its answer comes; requests overlap, and are served and       *)
(* answered in any order.  TerminalPane has a WebSocket of its own, opened *)
(* and closed as the session on the page changes, whose events come later. *)
(*                                                                         *)
(* The server is what this page can tell of it: which session of each      *)
(* challenge is live, which it is to others (the reapers, another tab) to  *)
(* end and to start, and the rows of the user's progress.  How sessions    *)
(* come and go is SessionLifecycle; here they do so in one step.           *)
(***************************************************************************)
EXTENDS Naturals, Sequences

CONSTANTS
  Challenges,   \* the ids a route can name
  Nothing,      \* no challenge
  Zero,         \* the id of the empty challenge that Get answers with when its look-up fails
  Known,        \* the challenges whose flag the user has found
  Fetches,      \* bound: how many requests are on the way at a time
  MaxSessions,  \* bound: how many sessions are started
  MaxClosing    \* bound: how many closed sockets still have their event to come

ASSUME ConstantsAssumption ==
  /\ Nothing \notin Challenges
  /\ Zero \notin Challenges \cup {Nothing}
  /\ Known \subseteq Challenges
  /\ MaxSessions \in Nat
  /\ MaxClosing \in Nat

VARIABLES
  id,         \* the route's challenge
  view,       \* the state of ChallengeDetailPage
  pane,       \* the state of TerminalPane and its socket
  calls,      \* calls[f]: the request on its way in fetch f
  live,       \* live[c]: the session of challenge c that is running
  sessions,   \* sessions[k]: the challenge of session k
  rows,       \* rows[c]: the user's progress rows for c
  disturbed   \* history: something has come between the page and its session

vars == <<id, view, pane, calls, live, sessions, rows, disturbed>>
browser == <<id, view, pane>>
store == <<live, sessions>>

NoSession == 0
Sessions == 1 .. MaxSessions

\* The user's progress as the page has it: no row, a row of zeros (what Get
\* answers when the look-up fails), a completed row, or a row of zeros that
\* the page has since completed itself.
Progress == {"none", "blank", "done", "claimed"}

View == [loading : BOOLEAN, challenge : Challenges \cup {Nothing, Zero}, progress : Progress,
         session : {NoSession} \cup Sessions, visible : BOOLEAN,
         busy : SUBSET {"start", "submitFlag"}]

FreshView == [loading |-> TRUE, challenge |-> Nothing, progress |-> "none",
              session |-> NoSession, visible |-> TRUE, busy |-> {}]

Pane == [key : {NoSession} \cup Sessions, socket : {"none", "connecting", "open", "closed"},
         connected : BOOLEAN, closing : 0 .. MaxClosing]

NoPane == [key |-> NoSession, socket |-> "none", connected |-> FALSE, closing |-> 0]

SessionKinds == {"get", "reconnect", "start", "terminate"}

Call == [kind : SessionKinds \cup {"submitFlag"}, on : Challenges \cup {Zero},
         here : BOOLEAN, key : {NoSession} \cup Sessions, found : Progress,
         reply : {"pending", "checked", "ok", "zero", "unwritten", "fail"}]

NoCall == [kind |-> "none", on |-> Nothing, here |-> FALSE, key |-> NoSession,
           found |-> "none", reply |-> "none"]

Request(kind, c, key) ==
  [kind |-> kind, on |-> c, here |-> TRUE, key |-> key, found |-> "none",
   reply |-> "pending"]

TypeOK ==
  /\ id \in Challenges
  /\ view \in View
  /\ pane \in Pane
  /\ calls \in [Fetches -> Call \cup {NoCall}]
  /\ live \in [Challenges -> {NoSession} \cup Sessions]
  /\ sessions \in Seq(Challenges) /\ Len(sessions) <= MaxSessions
  /\ rows \in [Challenges -> Nat]
  /\ disturbed \in BOOLEAN

-----------------------------------------------------------------------------
(* What is rendered.                                                       *)

\* The session whose terminal is on the page: the challenge is there, the
\* panel is not hidden.
PaneKey(v) ==
  IF ~v.loading /\ v.challenge # Nothing /\ v.visible THEN v.session ELSE NoSession

\* Sockets to be closed whose onclose will still find the pane.
Leftover == IF pane.socket \in {"connecting", "open"} THEN 1 ELSE 0

\* Variant: a socket that the pane closes is not listened to any more.
PaneForSilently(key) ==
  CASE key = pane.key -> pane
    [] key # pane.key /\ key = NoSession -> NoPane
    [] key # pane.key /\ pane.key = NoSession -> [NoPane EXCEPT !.key = key, !.socket = "connecting"]
    [] OTHER -> [pane EXCEPT !.key = key, !.socket = "connecting"]

\* TerminalPane is mounted with the first session and unmounted with the
\* last; its effect on session_key closes one socket and opens the next,
\* and leaves connected as it is.
PaneFor(key) ==
  CASE key = pane.key -> pane
    [] key # pane.key /\ key = NoSession -> NoPane
    [] key # pane.key /\ pane.key = NoSession -> [NoPane EXCEPT !.key = key, !.socket = "connecting"]
    [] OTHER -> [pane EXCEPT !.key = key, !.socket = "connecting",
                             !.closing = @ + Leftover]

Show(v) ==
  /\ pane.closing < MaxClosing
  /\ view' = v
  /\ pane' = PaneFor(PaneKey(v))

-----------------------------------------------------------------------------
(* The page.                                                               *)

\* The challenge the page takes itself to be of.
Showing == IF view.challenge = Zero THEN Zero ELSE id

SessionCalls == {f \in Fetches : calls[f].kind \in SessionKinds}

\* A request that may still change something on the server.
StillMatters(f) ==
  /\ calls[f].kind \in {"start", "terminate", "submitFlag"}
  /\ calls[f].reply \in {"pending", "checked"}

\* The page is opened from elsewhere: a new component, which never hears of
\* the answers to the last one.
Visit(f, c) ==
  /\ calls[f] = NoCall
  /\ id' = c
  /\ view' = FreshView
  /\ pane' = NoPane
  /\ calls' = [g \in Fetches |->
                 CASE g = f -> Request("get", c, NoSession)
                   [] g # f /\ StillMatters(g) -> [calls[g] EXCEPT !.here = FALSE]
                   [] OTHER -> NoCall]
  /\ disturbed' = \E g \in SessionCalls : StillMatters(g)
  /\ UNCHANGED <<store, rows>>

\* History leads from one challenge straight to another: the same component
\* with another id, of which only the effect on id takes notice.
Jump(f, c) ==
  /\ c # id
  /\ calls[f] = NoCall
  /\ id' = c
  /\ calls' = [calls EXCEPT ![f] = Request("get", c, NoSession)]
  /\ disturbed' = TRUE
  /\ UNCHANGED <<view, pane, store, rows>>

Shown == ~view.loading /\ view.challenge # Nothing

\* The buttons: Start Session, and Submit Flag under a typed flag.
MayStart == Shown /\ view.session = NoSession /\ "start" \notin view.busy
MaySubmit == Shown /\ view.progress \in {"none", "blank"} /\ "submitFlag" \notin view.busy

StartSession(f) ==
  /\ MayStart
  /\ calls[f] = NoCall
  /\ calls' = [calls EXCEPT ![f] = Request("start", view.challenge, NoSession)]
  /\ view' = [view EXCEPT !.busy = @ \cup {"start"}]
  /\ UNCHANGED <<id, pane, store, rows, disturbed>>

\* The pane's Kill, which nothing disables.
Terminate(f) ==
  /\ pane.key # NoSession
  /\ calls[f] = NoCall
  /\ calls' = [calls EXCEPT ![f] =
                 Request("terminate", sessions[view.session], view.session)]
  /\ disturbed' = (disturbed \/ SessionCalls # {})
  /\ UNCHANGED <<browser, store, rows>>

SubmitFlag(f) ==
  /\ MaySubmit
  /\ calls[f] = NoCall
  /\ calls' = [calls EXCEPT ![f] = Request("submitFlag", view.challenge, NoSession)]
  /\ view' = [view EXCEPT !.busy = @ \cup {"submitFlag"}]
  /\ UNCHANGED <<id, pane, store, rows, disturbed>>

ToggleTerminal ==
  /\ Shown
  /\ Show([view EXCEPT !.visible = ~@])
  /\ UNCHANGED <<id, calls, store, rows, disturbed>>

-----------------------------------------------------------------------------
(* The socket.                                                             *)

\* Connect accepts the session while it is active.
OnOpen ==
  /\ pane.socket = "connecting"
  /\ live[sessions[pane.key]] = pane.key
  /\ pane' = [pane EXCEPT !.socket = "open", !.connected = TRUE]
  /\ UNCHANGED <<id, view, calls, store, rows, disturbed>>

\* The pane's socket is closed: refused, or by the server, or lost.
OnClose ==
  /\ pane.socket \in {"connecting", "open"}
  /\ pane' = [pane EXCEPT !.socket = "closed", !.connected = FALSE]
  /\ UNCHANGED <<id, view, calls, store, rows, disturbed>>

\* The event of a socket closed earlier: its onclose is that of this pane.
OnCloseOfLeftover ==
  /\ pane.closing > 0
  /\ pane' = [pane EXCEPT !.closing = @ - 1, !.connected = FALSE]
  /\ UNCHANGED <<id, view, calls, store, rows, disturbed>>

-----------------------------------------------------------------------------
(* The server.                                                             *)

Asked(f, kind) == calls[f].kind = kind /\ calls[f].reply = "pending"

Answered(f, r, key, found) ==
  calls' = [calls EXCEPT ![f] =
              IF @.here THEN [@ EXCEPT !.reply = r, !.key = key, !.found = found]
              ELSE NoCall]

Failed(f) == Answered(f, "fail", NoSession, "none")

\* An error, a wrong flag (which every flag is when the look-up of the
\* challenge has failed), or a request lost before it has an effect.
Refuse(f) ==
  /\ calls[f].reply = "pending"
  /\ Failed(f)
  /\ disturbed' = (disturbed \/ calls[f].kind \in SessionKinds)
  /\ UNCHANGED <<browser, store, rows>>

Stored(c) == IF rows[c] > 0 THEN "done" ELSE "none"

\* A look-up that fails is answered like one that succeeds, with the
\* challenge of id 0, of which there is no progress.
ServeGet(f) ==
  /\ Asked(f, "get")
  /\ \/ \E p \in {Stored(calls[f].on), "blank"} : Answered(f, "ok", NoSession, p)
     \/ \E p \in {"none", "blank"} : Answered(f, "zero", NoSession, p)
  /\ UNCHANGED <<browser, store, rows, disturbed>>

Running(c) == IF c = Zero THEN NoSession ELSE live[c]

ServeReconnect(f) ==
  /\ Asked(f, "reconnect")
  /\ LET key == Running(calls[f].on)
     IN IF key = NoSession THEN Failed(f) ELSE Answered(f, "ok", key, "none")
  /\ UNCHANGED <<browser, store, rows, disturbed>>

NewSession(c) ==
  /\ Len(sessions) < MaxSessions
  /\ sessions' = Append(sessions, c)
  /\ live' = [live EXCEPT ![c] = Len(sessions) + 1]

\* A session that runs is handed out again; after a new one the answer may
\* be lost.
ServeStart(f) ==
  LET c == calls[f].on
  IN /\ Asked(f, "start") /\ c # Zero
     /\ \/ /\ live[c] # NoSession
           /\ Answered(f, "ok", live[c], "none")
           /\ UNCHANGED <<store, disturbed>>
        \/ /\ live[c] = NoSession
           /\ NewSession(c)
           /\ \/ Answered(f, "ok", Len(sessions) + 1, "none") /\ UNCHANGED disturbed
              \/ Failed(f) /\ disturbed' = TRUE
     /\ UNCHANGED <<browser, rows>>

ServeTerminate(f) ==
  LET c == calls[f].on
  IN /\ Asked(f, "terminate")
     /\ live' = [live EXCEPT ![c] = IF @ = calls[f].key THEN NoSession ELSE @]
     /\ \/ Answered(f, "ok", calls[f].key, "none") /\ UNCHANGED disturbed
        \/ Failed(f) /\ disturbed' = TRUE
     /\ UNCHANGED <<browser, sessions, rows>>

\* Another tab starts a session, or one is ended by a reaper or elsewhere.
Elsewhere(c) ==
  /\ \/ live[c] = NoSession /\ NewSession(c)
     \/ live[c] # NoSession /\ live' = [live EXCEPT ![c] = NoSession] /\ UNCHANGED sessions
  /\ disturbed' = TRUE
  /\ UNCHANGED <<browser, calls, rows>>

\* SubmitFlag: the flag is right, and Upsert looks for the row first ...
FindProgress(f) ==
  /\ Asked(f, "submitFlag") /\ calls[f].on \in Known
  /\ calls' = [calls EXCEPT ![f].reply = "checked", ![f].found = Stored(calls[f].on)]
  /\ UNCHANGED <<browser, store, rows, disturbed>>

\* Variant: the table has no unique index on user and challenge.
InsertAnyway(c) == rows' = [rows EXCEPT ![c] = @ + 1]

\* The unique index refuses a second row.
Insert(c) == rows' = [rows EXCEPT ![c] = IF @ = 0 THEN 1 ELSE @]

\* ... then inserts one, or updates the one it found.
Record(c, found) == IF found = "done" THEN UNCHANGED rows ELSE Insert(c)

\* The answer says the flag is accepted, also when the write has failed.
ServeSubmit(f) ==
  /\ calls[f].reply = "checked"
  /\ \/ Record(calls[f].on, calls[f].found) /\ Answered(f, "ok", NoSession, "none")
     \/ UNCHANGED rows /\ Answered(f, "unwritten", NoSession, "none")
  /\ UNCHANGED <<browser, store, disturbed>>

Serve(f) ==
  \/ Refuse(f)
  \/ ServeGet(f) \/ ServeReconnect(f) \/ ServeStart(f) \/ ServeTerminate(f)
  \/ FindProgress(f) \/ ServeSubmit(f)

-----------------------------------------------------------------------------
(* The rest of a handler, with the answer.                                 *)

Got(f, kind, r) == calls[f].kind = kind /\ calls[f].reply = r

Done(f) == calls' = [calls EXCEPT ![f] = NoCall]

\* The challenge is new to the effect on challenge, which asks for a session
\* of it, whatever challenge it is.
GotChallenge(f) ==
  LET c == IF calls[f].reply = "zero" THEN Zero ELSE calls[f].on
  IN /\ Got(f, "get", "ok") \/ Got(f, "get", "zero")
     /\ Show([view EXCEPT !.loading = FALSE, !.challenge = c, !.progress = calls[f].found])
     /\ calls' = [calls EXCEPT ![f] = Request("reconnect", c, NoSession)]
     /\ UNCHANGED <<id, store, rows, disturbed>>

GetFailed(f) ==
  /\ Got(f, "get", "fail")
  /\ Show([view EXCEPT !.loading = FALSE])
  /\ Done(f)
  /\ UNCHANGED <<id, store, rows, disturbed>>

Reconnected(f) ==
  /\ Got(f, "reconnect", "ok")
  /\ Show([view EXCEPT !.session = calls[f].key])
  /\ Done(f)
  /\ UNCHANGED <<id, store, rows, disturbed>>

\* "No active session": nothing is done, the terminate that failed as well.
NothingToDo(f) ==
  /\ Got(f, "reconnect", "fail") \/ Got(f, "terminate", "fail")
  /\ Done(f)
  /\ UNCHANGED <<browser, store, rows, disturbed>>

Started(f) ==
  /\ calls[f].kind = "start" /\ calls[f].reply \in {"ok", "fail"}
  /\ Show([view EXCEPT !.session = IF calls[f].reply = "ok" THEN calls[f].key ELSE @,
                       !.busy = @ \ {"start"}])
  /\ Done(f)
  /\ UNCHANGED <<id, store, rows, disturbed>>

\* Variant: the page leaves the session to the next reconnect.
TerminatedLazily(f) ==
  /\ Got(f, "terminate", "ok")
  /\ Done(f)
  /\ UNCHANGED <<browser, store, rows, disturbed>>

\* setSession(null), whichever session is on the page by now.
Terminated(f) ==
  /\ Got(f, "terminate", "ok")
  /\ Show([view EXCEPT !.session = NoSession])
  /\ Done(f)
  /\ UNCHANGED <<id, store, rows, disturbed>>

\* Variant: an accepted flag completes the challenge on the page.
CompletedNow(v) == "done"

\* setProgress(p => p ? {...p, completed: true} : null): the form is there
\* while the challenge is not completed, and most often without a row.
CompletedAfter(v) == IF v.progress = "blank" THEN "claimed" ELSE v.progress

SubmitAnswered(f) ==
  /\ calls[f].kind = "submitFlag" /\ calls[f].reply \in {"ok", "unwritten", "fail"}
  /\ view' = [view EXCEPT !.busy = @ \ {"submitFlag"},
                          !.progress = IF calls[f].reply = "fail" THEN @
                                       ELSE CompletedAfter(view)]
  /\ Done(f)
  /\ UNCHANGED <<id, pane, store, rows, disturbed>>

Deliver(f) ==
  \/ GotChallenge(f) \/ GetFailed(f)
  \/ Reconnected(f) \/ NothingToDo(f)
  \/ Started(f) \/ Terminated(f)
  \/ SubmitAnswered(f)

-----------------------------------------------------------------------------
Init ==
  /\ id \in Challenges
  /\ view = FreshView
  /\ pane = NoPane
  /\ \E f \in Fetches :
       calls = [g \in Fetches |-> IF g = f THEN Request("get", id, NoSession) ELSE NoCall]
  /\ live = [c \in Challenges |-> NoSession]
  /\ sessions = <<>>
  /\ rows = [c \in Challenges |-> 0]
  /\ disturbed = FALSE

Next ==
  \/ ToggleTerminal
  \/ OnOpen \/ OnClose \/ OnCloseOfLeftover
  \/ \E c \in Challenges : Elsewhere(c)
  \/ \E f \in Fetches :
       \/ \E c \in Challenges : Visit(f, c) \/ Jump(f, c)
       \/ StartSession(f) \/ Terminate(f) \/ SubmitFlag(f)
       \/ Serve(f)
       \/ Deliver(f)

Spec == Init /\ [][Next]_vars

-----------------------------------------------------------------------------
(* Properties.                                                             *)

\* The terminal on the page is that of the session on the page, whichever
\* answer put it there, and there is none without a session.
TerminalIsOfSession ==
  /\ pane.key = PaneKey(view)
  /\ pane.key = NoSession <=> pane.socket = "none"

\* The green light is on only while the pane's socket is open, or one it
\* has replaced is yet to report that it is closed.
ConnectedIsBacked == pane.connected => pane.socket = "open" \/ pane.closing > 0

\* A challenge is shown as completed only if it is recorded so, for the
\* challenge that is shown, however answers and routes cross; but for one
\* whose progress could not be read.
CompletedIsRecorded ==
  view.progress = "done" => view.challenge \in Challenges /\ rows[view.challenge] > 0

\* Two submissions that both find no row leave one.
ProgressOnce == \A c \in Challenges : rows[c] <= 1

\* A flag answered as accepted is recorded, by this submission or by the one
\* that came between its look-up and its insert, unless the write has failed.
AcceptedIsRecorded ==
  \A f \in Fetches : Got(f, "submitFlag", "ok") =>
    calls[f].on \in Challenges /\ rows[calls[f].on] > 0

\* Each challenge has one progress row at most, and an accepted flag has it.
FlagsAreRecorded == ProgressOnce /\ AcceptedIsRecorded

\* One start at a time: the button is disabled while its request is
\* unanswered, and no longer.
OneStart ==
  /\ "start" \in view.busy <=> \E f \in Fetches : calls[f].kind = "start" /\ calls[f].here
  /\ \A f, g \in Fetches :
       /\ calls[f].kind = "start" /\ calls[f].here
       /\ calls[g].kind = "start" /\ calls[g].here
       => f = g

\* A page that was opened for its challenge, whose requests have succeeded
\* and did not overlap a Kill, and whose session nobody else touched, shows
\* the session that runs, or none if none does.  Only when the server could
\* not read the challenge, and said so to nobody, it shows none though one may
\* run: the page is then that of no challenge at all.
QuietPageIsCurrent ==
  ~disturbed /\ SessionCalls = {} => view.session = Running(Showing)

-----------------------------------------------------------------------------
(* The inductive invariants behind the proofs.                             *)

\* Every session that is named has been started.
KeysExist ==
  /\ view.session <= Len(sessions)
  /\ \A f \in Fetches : calls[f].key <= Len(sessions)
  /\ \A c \in Challenges :
       /\ live[c] <= Len(sessions)
       /\ live[c] # NoSession => sessions[live[c]] = c

TypeInv == TypeOK /\ KeysExist /\ TerminalIsOfSession

\* A page asks for a challenge there is; rows are looked for with the right
\* flag only; a look-up that found one was right, and still is: no row goes
\* away.
FoundIsSo ==
  \A f \in Fetches :
    /\ calls[f].kind = "get" => calls[f].on \in Challenges
    /\ calls[f].reply = "checked" => calls[f].on \in Known
    /\ calls[f].found = "done" =>
         /\ calls[f].reply # "zero"
         /\ calls[f].on \in Challenges /\ rows[calls[f].on] > 0

RecordInv == FlagsAreRecorded /\ FoundIsSo /\ CompletedIsRecorded

\* The answer to a page that has been left is dropped.
AnsweredHere ==
  \A f \in Fetches : calls[f].reply \in {"ok", "zero", "unwritten", "fail"} => calls[f].here

ButtonInv == AnsweredHere /\ OneStart

\* A request of an undisturbed page is about its challenge (at), its answer
\* is good, and what the answer says of the session still holds: shown is the
\* session on the page, now the one that runs.
Orderly(call, at, shown, now) ==
  /\ call.here /\ call.on = at
  /\ call.kind = "get" => call.reply \in {"pending", "ok", "zero"}
  /\ call.kind = "reconnect" =>
       \/ call.reply \in {"pending", "fail"}
       \/ call.reply = "ok" /\ call.key = now /\ now # NoSession
  /\ call.kind = "start" =>
       \/ call.reply = "pending"
       \/ call.reply = "ok" /\ call.key = now /\ now # NoSession
  /\ call.kind = "terminate" =>
       /\ call.key = shown /\ shown # NoSession
       /\ \/ call.reply = "pending" /\ shown = now
          \/ call.reply = "ok" /\ now = NoSession

\* A request whose answer will bring the page up to date.
Settles(call, shown) ==
  \/ /\ shown = NoSession
     /\ \/ call.kind = "get"
        \/ call.kind = "reconnect" /\ call.reply \in {"pending", "ok"}
        \/ call.kind = "start" /\ call.reply = "ok"
  \/ call.kind = "terminate" /\ call.reply = "ok"

\* The page of the empty challenge has no session, and its requests get none.
Vain(call) ==
  /\ call.here /\ call.on = Zero
  /\ call.kind \in {"reconnect", "start"}
  /\ call.reply \in {"pending", "fail"}

QuietInv ==
  ~disturbed =>
    /\ view.challenge \in {Nothing, Zero, id}
    /\ \A f, g \in SessionCalls : calls[f].kind \in {"get", "terminate"} => g = f
    /\ \A f \in SessionCalls : calls[f].kind = "get" => view = FreshView
    /\ \/ /\ view.challenge = Zero /\ view.session = NoSession
          /\ \A f \in SessionCalls : Vain(calls[f])
       \/ /\ view.challenge # Zero
          /\ view.session # NoSession => sessions[view.session] = id
          /\ \A f \in SessionCalls : Orderly(calls[f], id, view.session, live[id])
          /\ \/ view.session = live[id]
             \/ \E f \in SessionCalls : Settles(calls[f], view.session)
=============================================================================
