----------------------------- MODULE TerminalHub -----------------------------
(***************************************************************************)
(* The terminals of one session: the WebSocket connections opened to it,   *)
(* the goroutines that serve each of them, the hub that knows one of them, *)
(* the scheduler's jobs, which reach the browser through the hub, and what *)
(* ends the terminals: those that stop the container, and the handlers     *)
(* that mark the row expired and leave the container as it is.             *)
(*                                                                         *)
(* A connection has the goroutine of its handler (Connect, then Run), the  *)
(* reader of the shell's output (goroutine A of the bridge), the expiry    *)
(* ticker (goroutine B), the reader of the browser's frames, and the write *)
(* pump of its client.  They share a context, the client's send channel    *)
(* and done channel, the WebSocket and the exec stream.  Hub entries of    *)
(* different sessions never meet, so one session is modelled.              *)
(***************************************************************************)
EXTENDS Naturals, Sequences

CONSTANTS
  Conns,     \* the connections opened to the session, one after the other or at once
  Warners,   \* firings of broadcastExpiryWarnings
  Reapers,   \* firings of the jobs that end sessions
  Users,     \* requests of the user to terminate the session
  NoConn,    \* the hub has no client for the session
  Buffer,    \* the capacity of a client's send channel
  StopFails,    \* TRUE when Docker may fail to stop the container
  InspectFails  \* TRUE when Docker may fail to say whether it is running

Enders == Reapers \cup Users
Jobs == Warners \cup Enders

ASSUME TerminalAssumption ==
  /\ NoConn \notin Conns
  /\ Warners \cap Enders = {} /\ Reapers \cap Users = {}
  /\ Buffer \in Nat \ {0}
  /\ StopFails \in BOOLEAN /\ InspectFails \in BOOLEAN

VARIABLES
  conn,       \* conn[c]: the state shared by the goroutines of connection c
  hub,        \* the client registered under the session key
  live,       \* the row of the session is active
  expired,    \* the TTL of the session is over
  container,  \* "up" or "down"
  job,        \* where each job, or request to terminate, is
  target      \* the client each job has got from the hub

vars == <<conn, hub, live, expired, container, job, target>>

jobs == <<job, target>>
row == <<live, expired, container>>

Messages == {"data", "expired"}
JobStates == {"idle", "warn", "again", "tell", "found", "get", "end", "stop"}

Conn == [handler : {"none", "admitted", "attached", "registered", "running",
                    "returned", "unregistered", "closed", "gone"},
         cancelled : BOOLEAN,    \* the context
         done : BOOLEAN,         \* the client is closed, and with it the WebSocket
         browser : {"open", "closed"},
         shell : {"none", "open", "eof", "closed"},   \* the exec stream
         output : {"off", "running", "ended"},
         ticker : {"off", "running", "announcing", "ended"},
         reader : {"off", "check", "read", "ended"},
         pump : {"off", "running", "closing", "ended"},
         send : Seq(Messages)]

TypeOK ==
  /\ conn \in [Conns -> Conn]
  /\ \A c \in Conns : Len(conn[c].send) <= Buffer
  /\ hub \in Conns \cup {NoConn}
  /\ live \in BOOLEAN /\ expired \in BOOLEAN
  /\ container \in {"up", "down"}
  /\ job \in [Jobs -> JobStates]
  /\ target \in [Jobs -> Conns \cup {NoConn}]

-----------------------------------------------------------------------------
\* A step of one connection that changes nothing else.
Move(c, new) == conn' = [conn EXCEPT ![c] = new] /\ UNCHANGED <<hub, row, jobs>>

-----------------------------------------------------------------------------
(* Client.                                                                 *)

\* Variant: the message waits for room in the channel.
SendBlocking(c, m) ==
  IF Len(conn[c].send) < Buffer THEN {Append(conn[c].send, m)} ELSE {}

\* The send channels a Send may leave: a select with a default queues the
\* message or drops it when the channel is full; a closed client may do either.
Send(c, m) ==
  LET queued == IF Len(conn[c].send) < Buffer THEN {Append(conn[c].send, m)} ELSE {}
  IN  queued \cup (IF queued = {} \/ conn[c].done THEN {conn[c].send} ELSE {})

\* Writing fails when either end of the WebSocket is closed, and may fail on
\* a browser that does not take the data before the write deadline.
PumpWrite(c) ==
  /\ conn[c].pump = "running" /\ conn[c].send # <<>>
  /\ \/ /\ ~conn[c].done /\ conn[c].browser = "open"
        /\ Move(c, [conn[c] EXCEPT !.send = Tail(@)])
     \/ Move(c, [conn[c] EXCEPT !.send = Tail(@), !.pump = "closing"])

\* The pump also stops when a ping fails or the client is closed.
PumpStop(c) ==
  /\ conn[c].pump = "running"
  /\ conn[c].done \/ conn[c].browser = "closed"
  /\ Move(c, [conn[c] EXCEPT !.pump = "closing"])

\* Variant: a pump that stops leaves the client open.
PumpCloseNothing(c) ==
  /\ conn[c].pump = "closing"
  /\ Move(c, [conn[c] EXCEPT !.pump = "ended"])

PumpClose(c) ==
  /\ conn[c].pump = "closing"
  /\ Move(c, [conn[c] EXCEPT !.pump = "ended", !.done = TRUE])

-----------------------------------------------------------------------------
(* TerminalHandler.Connect, with the hub's Register and Unregister and the  *)
(* start and return of Bridge.Run.                                         *)

\* A Connect that finds the TTL over gets no terminal: see MarkExpired.
Admit(c) ==
  /\ conn[c].handler = "none" /\ live /\ ~expired
  /\ Move(c, [conn[c] EXCEPT !.handler = "admitted"])

\* The row may have changed since it was read; without a container the
\* WebSocket is closed and the handler returns.
Attach(c) ==
  /\ conn[c].handler = "admitted"
  /\ Move(c, IF container = "up"
               THEN [conn[c] EXCEPT !.handler = "attached", !.shell = "open"]
               ELSE [conn[c] EXCEPT !.handler = "gone", !.done = TRUE])

\* The client already registered, whoever it is, is closed and replaced.
Register(c) ==
  /\ conn[c].handler = "attached"
  /\ conn' = [d \in Conns |-> [conn[d] EXCEPT
                !.done = @ \/ d = hub,
                !.handler = IF d = c THEN "registered" ELSE @]]
  /\ hub' = c
  /\ UNCHANGED <<row, jobs>>

\* The handshake is sent and the goroutines start.
Run(c) ==
  /\ conn[c].handler = "registered"
  /\ \E q \in Send(c, "data") :
       Move(c, [conn[c] EXCEPT !.handler = "running", !.send = q,
                  !.output = "running", !.ticker = "running",
                  !.reader = "check", !.pump = "running"])

\* Variant: Run does not wait for the reader.
RunReturnsEarly(c) ==
  /\ conn[c].handler = "running" /\ conn[c].cancelled
  /\ Move(c, [conn[c] EXCEPT !.handler = "returned"])

\* Run waits for the context, then for the reader.
RunReturns(c) ==
  /\ conn[c].handler = "running" /\ conn[c].cancelled /\ conn[c].reader = "ended"
  /\ Move(c, [conn[c] EXCEPT !.handler = "returned"])

\* Variant: a handler whose client was closed meanwhile leaves the hub alone.
UnregisterIfOpen(c) ==
  /\ conn[c].handler = "returned"
  /\ hub' = IF conn[c].done THEN hub ELSE NoConn
  /\ conn' = [conn EXCEPT ![c].handler = "unregistered"]
  /\ UNCHANGED <<row, jobs>>

\* Whatever client is registered under the session key is removed.
Unregister(c) ==
  /\ conn[c].handler = "returned"
  /\ hub' = NoConn
  /\ conn' = [conn EXCEPT ![c].handler = "unregistered"]
  /\ UNCHANGED <<row, jobs>>

CloseClient(c) ==
  /\ conn[c].handler = "unregistered"
  /\ Move(c, [conn[c] EXCEPT !.handler = "closed", !.done = TRUE])

\* Variant: the exec stream is not closed.
CloseStreamNot(c) ==
  /\ conn[c].handler = "closed"
  /\ Move(c, [conn[c] EXCEPT !.handler = "gone"])

CloseStream(c) ==
  /\ conn[c].handler = "closed"
  /\ Move(c, [conn[c] EXCEPT !.handler = "gone", !.shell = "closed"])

-----------------------------------------------------------------------------
(* The goroutines of Bridge.Run.                                           *)

\* Goroutine A: output of the shell goes to the browser.
OutputRead(c) ==
  /\ conn[c].output = "running" /\ conn[c].shell = "open"
  /\ \E q \in Send(c, "data") : Move(c, [conn[c] EXCEPT !.send = q])

\* Variant: the end of the stream only ends the goroutine.
OutputEndsQuietly(c) ==
  /\ conn[c].output = "running" /\ conn[c].shell \in {"eof", "closed"}
  /\ Move(c, [conn[c] EXCEPT !.output = "ended"])

OutputEnds(c) ==
  /\ conn[c].output = "running" /\ conn[c].shell \in {"eof", "closed"}
  /\ Move(c, [conn[c] EXCEPT !.output = "ended", !.cancelled = TRUE])

\* Goroutine B: every tick sends the remaining time, counted from the row the
\* handler read ...
TickerTicks(c) ==
  /\ conn[c].ticker = "running"
  /\ \E q \in Send(c, "data") :
       Move(c, [conn[c] EXCEPT !.send = q,
                  !.ticker = IF expired THEN "announcing" ELSE "running"])

\* ... and at zero announces the end and cancels the context.
TickerExpires(c) ==
  /\ conn[c].ticker = "announcing"
  /\ \E q \in Send(c, "expired") :
       Move(c, [conn[c] EXCEPT !.send = q, !.ticker = "ended", !.cancelled = TRUE])

\* It also ends with the context or the client, and then cancels nothing.
TickerEnds(c) ==
  /\ conn[c].ticker = "running"
  /\ conn[c].cancelled \/ conn[c].done
  /\ Move(c, [conn[c] EXCEPT !.ticker = "ended"])

\* The reader looks at the context between two frames ...
ReaderChecks(c) ==
  /\ conn[c].reader = "check"
  /\ Move(c, [conn[c] EXCEPT !.reader = IF conn[c].cancelled THEN "ended" ELSE "read"])

\* ... and waits for a frame.  Input is written to the shell, and ends the
\* reader when the stream is gone; a resize is passed on; a ping is answered.
ReaderGetsFrame(c) ==
  /\ conn[c].reader = "read" /\ conn[c].browser = "open" /\ ~conn[c].done
  /\ \/ Move(c, [conn[c] EXCEPT !.reader = "check"])
     \/ conn[c].shell # "open" /\ Move(c, [conn[c] EXCEPT !.reader = "ended"])
     \/ \E q \in Send(c, "data") :
          Move(c, [conn[c] EXCEPT !.reader = "check", !.send = q])

\* Reading fails once either end has closed the WebSocket; nothing is cancelled.
ReaderFails(c) ==
  /\ conn[c].reader = "read"
  /\ conn[c].browser = "closed" \/ conn[c].done
  /\ Move(c, [conn[c] EXCEPT !.reader = "ended"])

-----------------------------------------------------------------------------
(* The scheduler: a job takes the client out of the hub under its lock, and *)
(* sends to it after releasing the lock.                                   *)

WarnerGets(j) ==
  /\ j \in Warners
  /\ \/ job[j] = "idle" /\ live /\ job' = [job EXCEPT ![j] = "warn"]
     \/ job[j] = "again" /\ job' = [job EXCEPT ![j] = "tell"]
  /\ target' = [target EXCEPT ![j] = hub]
  /\ UNCHANGED <<conn, hub, row>>

\* A reaper's query finds the session past its TTL or idle ...
ReaperFinds(j) ==
  /\ j \in Reapers /\ job[j] = "idle" /\ live
  /\ job' = [job EXCEPT ![j] = "found"]
  /\ UNCHANGED <<conn, hub, row, target>>

\* ... and the row is marked terminating, whatever it is by then.
ReaperMarks(j) ==
  /\ j \in Reapers /\ job[j] = "found"
  /\ live' = FALSE
  /\ job' = [job EXCEPT ![j] = "get"]
  /\ UNCHANGED <<conn, hub, expired, container, target>>

ReaperGets(j) ==
  /\ job[j] = "get"
  /\ job' = [job EXCEPT ![j] = "end"]
  /\ target' = [target EXCEPT ![j] = hub]
  /\ UNCHANGED <<conn, hub, row>>

\* Variant: Terminate leaves the container to the reapers.
UserMarks(j) ==
  /\ j \in Users /\ job[j] = "idle" /\ live
  /\ live' = FALSE
  /\ UNCHANGED <<conn, hub, expired, container, jobs>>

\* Terminate marks the row and goes on to stop the container; it tells nobody.
UserTerminates(j) ==
  /\ j \in Users /\ job[j] = "idle"
  /\ live' = FALSE
  /\ job' = [job EXCEPT ![j] = "stop"]
  /\ UNCHANGED <<conn, hub, expired, container, target>>

Broadcast(j, m) ==
  /\ IF target[j] = NoConn
       THEN UNCHANGED conn
       ELSE \E q \in Send(target[j], m) : conn' = [conn EXCEPT ![target[j]].send = q]
  /\ target' = [target EXCEPT ![j] = NoConn]

JobSends(j) ==
  /\ \/ /\ job[j] = "warn" /\ Broadcast(j, "data")
        /\ job' = [job EXCEPT ![j] = IF expired THEN "again" ELSE "idle"]
     \/ job[j] = "tell" /\ Broadcast(j, "expired") /\ job' = [job EXCEPT ![j] = "idle"]
     \/ job[j] = "end" /\ Broadcast(j, "expired") /\ job' = [job EXCEPT ![j] = "stop"]
  /\ UNCHANGED <<hub, row>>

ShellsEnd ==
  conn' = [c \in Conns |->
             [conn[c] EXCEPT !.shell = IF @ = "open" THEN "eof" ELSE @]]

\* Stopping the container ends every shell in it.  Whether that works or not,
\* the row is not active any more and no job finds it again.
JobStops(j) ==
  /\ job[j] = "stop"
  /\ \/ container' = "down" /\ ShellsEnd
     \/ StopFails /\ UNCHANGED <<container, conn>>
  /\ job' = [job EXCEPT ![j] = "idle"]
  /\ UNCHANGED <<hub, live, expired, target>>

\* Handlers that mark an active row expired and stop nothing: a Connect past
\* the TTL, and a Start, Status or Reconnect whose inspection finds the
\* container down or fails, which counts as down.  What they read before they
\* write (the row, the clock, the container) never changes back, so that it is
\* one step with the write.
MarkExpired ==
  /\ live
  /\ expired \/ container = "down" \/ InspectFails
  /\ live' = FALSE
  /\ UNCHANGED <<conn, hub, expired, container, jobs>>

-----------------------------------------------------------------------------
(* The environment.                                                        *)

\* The tab is closed, or the network between browser and server is gone.
BrowserCloses(c) ==
  /\ conn[c].handler # "none" /\ conn[c].browser = "open"
  /\ Move(c, [conn[c] EXCEPT !.browser = "closed"])

ShellExits(c) ==
  /\ conn[c].shell = "open"
  /\ Move(c, [conn[c] EXCEPT !.shell = "eof"])

\* The container exits.
ContainerEnds ==
  /\ container = "up" /\ container' = "down"
  /\ ShellsEnd
  /\ UNCHANGED <<hub, live, expired, jobs>>

Expire ==
  /\ ~expired /\ expired' = TRUE
  /\ UNCHANGED <<conn, hub, live, container, jobs>>

-----------------------------------------------------------------------------

Init ==
  /\ conn = [c \in Conns |->
               [handler |-> "none", cancelled |-> FALSE, done |-> FALSE,
                browser |-> "open", shell |-> "none", output |-> "off",
                ticker |-> "off", reader |-> "off", pump |-> "off", send |-> <<>>]]
  /\ hub = NoConn
  /\ live = TRUE /\ expired = FALSE /\ container = "up"
  /\ job = [j \in Jobs |-> "idle"]
  /\ target = [j \in Jobs |-> NoConn]

HandlerStep(c) ==
  \/ Attach(c) \/ Register(c) \/ Run(c) \/ RunReturns(c) \/ Unregister(c)
  \/ CloseClient(c) \/ CloseStream(c)

PumpStep(c) == PumpWrite(c) \/ PumpStop(c) \/ PumpClose(c)
TickerStep(c) == TickerTicks(c) \/ TickerExpires(c) \/ TickerEnds(c)
ReaderStep(c) == ReaderChecks(c) \/ ReaderFails(c)

ConnStep(c) ==
  \/ HandlerStep(c) \/ PumpStep(c) \/ OutputRead(c) \/ OutputEnds(c)
  \/ TickerStep(c) \/ ReaderStep(c)

\* A job, or a request to terminate, that has begun goes on.
JobGoesOn(j) == ReaperMarks(j) \/ ReaperGets(j) \/ JobSends(j) \/ JobStops(j)

JobStep(j) == JobGoesOn(j) \/ WarnerGets(j) \/ ReaperFinds(j) \/ UserTerminates(j)

Next ==
  \/ \E c \in Conns : ConnStep(c) \/ Admit(c) \/ ReaderGetsFrame(c)
                        \/ BrowserCloses(c) \/ ShellExits(c)
  \/ \E j \in Jobs : JobStep(j)
  \/ MarkExpired
  \/ ContainerEnds
  \/ Expire

\* Cron fires the jobs again and again: the warnings, and the reaper once the
\* TTL is over; a job that has begun goes on.
JobFairness ==
  /\ \A j \in Jobs : WF_vars(JobGoesOn(j) \/ WarnerGets(j))
  /\ \A j \in Reapers : WF_vars(expired /\ ReaperFinds(j))

\* Every goroutine gets on with its work.  Browsers and shells owe nothing.
ConnFairness ==
  \A c \in Conns :
    /\ WF_vars(HandlerStep(c))
    /\ WF_vars(PumpStep(c))
    /\ WF_vars(OutputEnds(c))
    /\ WF_vars(TickerExpires(c) \/ TickerEnds(c))
    /\ WF_vars(expired /\ TickerTicks(c))
    /\ WF_vars(ReaderStep(c))

Spec == Init /\ [][Next]_vars
FairSpec == Spec /\ JobFairness /\ ConnFairness
-----------------------------------------------------------------------------
(* Properties.                                                             *)

\* Broadcasts reach only clients whose handler is still there: a handler that
\* has unregistered is not in the hub, whoever registered or unregistered
\* under the same key meanwhile.
HubIsServed ==
  hub # NoConn => conn[hub].handler \in {"registered", "running", "returned"}

\* The exec stream is closed under no reader that may still write to it, and
\* the context is cancelled before (bridge.go:211).
StreamClosedLast ==
  \A c \in Conns : conn[c].shell = "closed" =>
    conn[c].reader = "ended" /\ conn[c].cancelled /\ conn[c].done

\* The scheduler waits for no terminal: a job that has begun is done,
\* although the pump of the client it sends to may have ended.
JobsFinish == \A j \in Jobs : job[j] # "idle" ~> job[j] = "idle"

Ended(c) ==
  /\ conn[c].output \in {"off", "ended"} /\ conn[c].ticker \in {"off", "ended"}
  /\ conn[c].reader \in {"off", "ended"} /\ conn[c].pump \in {"off", "ended"}

\* A connection whose handler is gone leaves no goroutine behind.
NothingLeftBehind == \A c \in Conns : conn[c].handler = "gone" ~> Ended(c)

\* When the browser is gone the server closes its end, although Run may go on.
DeadPeerIsClosed ==
  \A c \in Conns : conn[c].browser = "closed" ~> conn[c].done

\* Somebody who will stop the container is at work.
Ending == \E j \in Enders : job[j] # "idle"

\* A session that nobody will ever end: its container is up, and its row, not
\* active any more, is out of the reach of the reapers' queries.
Orphaned == container = "up" /\ ~live /\ ~Ending

\* What ends an abandoned terminal is the reaper: once the TTL is over and the
\* browser gone, the handler returns, because the container is stopped.  Only
\* an orphaned session keeps it: one whose stop has failed, or which a handler
\* has marked expired and left running.
AbandonedTerminalEnds ==
  \A c \in Conns :
    (conn[c].browser = "closed" /\ expired) ~> (conn[c].handler = "gone" \/ Orphaned)

-----------------------------------------------------------------------------
(* What the liveness properties rest on, and holds in every state.         *)

\* A shell is open only in a container that is up, whenever its handler has
\* attached to it; and a session that is not active has one only while
\* somebody goes on to stop it.  A handler that has met the session past its
\* TTL, or a failure of Docker, can leave it one for good.
NoShellOutlivesSession ==
  (\E c \in Conns : conn[c].shell = "open") =>
    /\ container = "up"
    /\ live \/ Ending \/ expired \/ StopFails \/ InspectFails

\* The goroutines of a handler that is gone need nobody to come to their end:
\* not the browser, the shell, the hub or a reader of the send channel.
GoneLetsGo ==
  \A c \in Conns : conn[c].handler = "gone" =>
    /\ conn[c].done
    /\ conn[c].output = "running" => conn[c].shell = "closed"
    /\ conn[c].reader \in {"off", "ended"}

\* Something of a connection can go on by itself.
GoesOn(c) ==
  \/ conn[c].handler \notin {"none", "running", "gone"}
  \/ conn[c].handler = "running" /\ conn[c].cancelled /\ conn[c].reader = "ended"
  \/ conn[c].output = "running" /\ conn[c].shell \in {"eof", "closed"}
  \/ conn[c].reader = "check"
  \/ conn[c].reader = "read" /\ (conn[c].browser = "closed" \/ conn[c].done)

\* The parts of a terminal do not wait for each other: without a browser and
\* without a shell something of it goes on till its handler is gone.
AbandonedGoesOn ==
  \A c \in Conns :
    /\ conn[c].browser = "closed" /\ conn[c].shell # "open"
    /\ conn[c].handler \notin {"none", "gone"}
    => GoesOn(c)

\* The stages of a connection: what runs, and what has ended, by the time its
\* handler is where it is.
Staged(r) ==
  /\ r.handler \in {"none", "admitted", "attached", "registered"} =>
       r.output = "off" /\ r.reader = "off"
  /\ r.handler \notin {"none", "admitted", "gone"} => r.shell # "none"
  /\ r.handler = "running" => r.output # "off" /\ r.reader # "off"
  /\ r.output = "ended" => r.cancelled
  /\ r.handler = "gone" =>
       /\ r.done
       /\ r.output = "running" => r.shell = "closed"
       /\ r.reader \in {"off", "ended"}

StagesInv == \A c \in Conns : Staged(conn[c])

\* A container that is down has no shell; and a session that is not active has
\* no container, but for those who are to stop it and those who have failed to.
ShellInv ==
  /\ container = "down" => \A c \in Conns : conn[c].shell # "open"
  /\ ~live => container = "down" \/ Ending \/ expired \/ StopFails \/ InspectFails
  /\ \A j \in Enders : job[j] \in {"idle", "found", "get", "end", "stop"}
=============================================================================
