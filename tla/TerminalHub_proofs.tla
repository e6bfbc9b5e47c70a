-------------------------- MODULE TerminalHub_proofs --------------------------
(***************************************************************************)
(* Proofs about TerminalHub, for any number of connections and jobs and    *)
(* any capacity of the send channels.                                      *)
(***************************************************************************)
EXTENDS TerminalHub, TLAPS

USE TerminalAssumption

Serving == {"registered", "running", "returned"}

\* What the steps of a connection keep of its own state, and StreamClosedLast
\* follows from: the order in which a handler comes to its end.
Sound(r) ==
  /\ r.handler \in {"returned", "unregistered", "closed"} =>
       r.reader = "ended" /\ r.cancelled
  /\ r.handler = "closed" => r.done
  /\ r.shell = "closed" =>
       r.handler = "gone" /\ r.reader = "ended" /\ r.cancelled /\ r.done

HubInv ==
  /\ TypeOK
  /\ HubIsServed
  /\ \A c \in Conns : Sound(conn[c])

\* A send channel is never filled beyond its capacity.
LEMMA SendIsBounded ==
  ASSUME TypeOK, NEW c \in Conns, NEW m \in Messages, NEW q \in Send(c, m)
  PROVE  q \in Seq(Messages) /\ Len(q) <= Buffer
<1>1. conn[c].send \in Seq(Messages) /\ Len(conn[c].send) <= Buffer
  BY DEF TypeOK, Conn
<1>2. /\ Append(conn[c].send, m) \in Seq(Messages)
      /\ Len(Append(conn[c].send, m)) = Len(conn[c].send) + 1
  BY <1>1
<1>3. Len(conn[c].send) \in Nat
  BY <1>1
<1>4. QED BY SMTT(30), <1>1, <1>2, <1>3 DEF Send

\* One argument for every step of one connection: what it leaves behind has to
\* be of the type and sound, and a connection in the hub has to stay served.
LEMMA MoveKeepsInv ==
  ASSUME HubInv, NEW c \in Conns, NEW r, Move(c, r),
         r \in Conn, Len(r.send) <= Buffer, Sound(r),
         hub = c => r.handler \in Serving
  PROVE  HubInv'
<1>1. \A d \in Conns : conn'[d] = IF d = c THEN r ELSE conn[d]
  BY DEF Move, HubInv, TypeOK
<1>2. TypeOK'
  BY <1>1 DEF Move, HubInv, TypeOK, row, jobs
<1>3. HubIsServed'
  BY <1>1 DEF Move, HubInv, TypeOK, HubIsServed, Serving
<1>4. \A d \in Conns : Sound(conn'[d])
  BY <1>1 DEF HubInv
<1>5. QED BY <1>2, <1>3, <1>4 DEF HubInv

\* What is known of a connection before its step.
LEMMA InvOfConn ==
  ASSUME HubInv, NEW c \in Conns
  PROVE  /\ conn[c] \in Conn /\ Len(conn[c].send) <= Buffer
         /\ Sound(conn[c])
         /\ hub = c => conn[c].handler \in Serving
BY DEF HubInv, TypeOK, HubIsServed, Serving

LEMMA InitInv == Init => HubInv
<1> DEFINE fresh == [handler |-> "none", cancelled |-> FALSE, done |-> FALSE,
                     browser |-> "open", shell |-> "none", output |-> "off",
                     ticker |-> "off", reader |-> "off", pump |-> "off",
                     send |-> <<>>]
<1>1. fresh \in Conn /\ Len(fresh.send) <= Buffer /\ Sound(fresh)
  BY DEF Conn, Sound
<1>2. ASSUME Init
      PROVE  HubInv
  <2>1. \A c \in Conns : conn[c] = fresh
    BY <1>2 DEF Init
  <2>2. TypeOK
    BY <1>1, <1>2, <2>1 DEF Init, TypeOK, JobStates
  <2>3. HubIsServed
    BY <1>2 DEF Init, HubIsServed
  <2>4. QED BY <1>1, <2>1, <2>2, <2>3 DEF HubInv
<1>3. QED BY <1>2

\* Steps that send nothing and touch the connection alone.
LEMMA QuietSteps ==
  ASSUME HubInv, NEW c \in Conns,
         \/ Attach(c) \/ RunReturns(c) \/ CloseClient(c) \/ CloseStream(c)
         \/ PumpWrite(c) \/ PumpStop(c) \/ PumpClose(c) \/ OutputEnds(c)
         \/ TickerEnds(c) \/ ReaderChecks(c) \/ ReaderFails(c)
         \/ Admit(c) \/ BrowserCloses(c) \/ ShellExits(c)
  PROVE  HubInv'
<1> DEFINE r == conn[c]
           Good(s) == /\ s \in Conn /\ Len(s.send) <= Buffer /\ Sound(s)
                      /\ hub = c => s.handler \in Serving
<1>0. Good(r)
  BY InvOfConn
<1>q. ASSUME NEW s, Move(c, s), Good(s)
      PROVE  HubInv'
  BY <1>q, MoveKeepsInv
<1> USE <1>0 DEF Conn, Sound, Serving
<1>1. CASE Attach(c)
  <2>1. /\ Good([r EXCEPT !.handler = "attached", !.shell = "open"])
        /\ Good([r EXCEPT !.handler = "gone", !.done = TRUE])
    BY <1>1 DEF Attach
  <2>2. QED BY ZenonT(40), <1>1, <1>q, <2>1 DEF Attach
<1>2. CASE RunReturns(c)
  <2>1. Good([r EXCEPT !.handler = "returned"])
    BY <1>2 DEF RunReturns
  <2>2. QED BY <1>2, <1>q, <2>1 DEF RunReturns
<1>3. CASE CloseClient(c)
  <2>1. Good([r EXCEPT !.handler = "closed", !.done = TRUE])
    BY <1>3 DEF CloseClient
  <2>2. QED BY <1>3, <1>q, <2>1 DEF CloseClient
<1>4. CASE CloseStream(c)
  <2>1. Good([r EXCEPT !.handler = "gone", !.shell = "closed"])
    BY <1>4 DEF CloseStream
  <2>2. QED BY <1>4, <1>q, <2>1 DEF CloseStream
<1>5. CASE PumpWrite(c)
  <2>1. Tail(r.send) \in Seq(Messages) /\ Len(Tail(r.send)) <= Buffer
    <3>1. r.send \in Seq(Messages) /\ r.send # <<>>
      BY <1>5 DEF PumpWrite
    <3>2. QED BY <3>1
  <2>2. /\ Good([r EXCEPT !.send = Tail(@)])
        /\ Good([r EXCEPT !.send = Tail(@), !.pump = "closing"])
    BY ZenonT(40), <2>1
  <2>3. QED BY <1>5, <1>q, <2>2 DEF PumpWrite
<1>6. CASE PumpStop(c)
  <2>1. Good([r EXCEPT !.pump = "closing"])
    OBVIOUS
  <2>2. QED BY <1>6, <1>q, <2>1 DEF PumpStop
<1>7. CASE PumpClose(c)
  <2>1. Good([r EXCEPT !.pump = "ended", !.done = TRUE])
    OBVIOUS
  <2>2. QED BY <1>7, <1>q, <2>1 DEF PumpClose
<1>8. CASE OutputEnds(c)
  <2>1. Good([r EXCEPT !.output = "ended", !.cancelled = TRUE])
    BY ZenonT(40)
  <2>2. QED BY <1>8, <1>q, <2>1 DEF OutputEnds
<1>9. CASE TickerEnds(c)
  <2>1. Good([r EXCEPT !.ticker = "ended"])
    OBVIOUS
  <2>2. QED BY <1>9, <1>q, <2>1 DEF TickerEnds
<1>10. CASE ReaderChecks(c)
  <2>1. \A x \in {"ended", "read"} : r.reader = "check" => Good([r EXCEPT !.reader = x])
    OBVIOUS
  <2>2. QED BY <1>10, <1>q, <2>1 DEF ReaderChecks
<1>11. CASE ReaderFails(c)
  <2>1. Good([r EXCEPT !.reader = "ended"])
    OBVIOUS
  <2>2. QED BY <1>11, <1>q, <2>1 DEF ReaderFails
<1>12. CASE Admit(c)
  <2>1. Good([r EXCEPT !.handler = "admitted"])
    BY <1>12 DEF Admit
  <2>2. QED BY <1>12, <1>q, <2>1 DEF Admit
<1>13. CASE BrowserCloses(c)
  <2>1. Good([r EXCEPT !.browser = "closed"])
    OBVIOUS
  <2>2. QED BY <1>13, <1>q, <2>1 DEF BrowserCloses
<1>14. CASE ShellExits(c)
  <2>1. r.shell = "open" => Good([r EXCEPT !.shell = "eof"])
    OBVIOUS
  <2>2. QED BY <1>14, <1>q, <2>1 DEF ShellExits
<1>15. QED
  BY <1>1, <1>2, <1>3, <1>4, <1>5, <1>6, <1>7, <1>8, <1>9, <1>10, <1>11,
     <1>12, <1>13, <1>14

\* Steps of one connection that also send to its own client.
LEMMA SendingSteps ==
  ASSUME HubInv, NEW c \in Conns,
         \/ Run(c) \/ OutputRead(c) \/ TickerTicks(c) \/ TickerExpires(c)
         \/ ReaderGetsFrame(c)
  PROVE  HubInv'
<1> DEFINE r == conn[c]
           Good(s) == /\ s \in Conn /\ Len(s.send) <= Buffer /\ Sound(s)
                      /\ hub = c => s.handler \in Serving
<1>0. Good(r)
  BY InvOfConn
<1>m. "data" \in Messages /\ "expired" \in Messages
  BY DEF Messages
<1>s. ASSUME NEW m \in Messages, NEW q \in Send(c, m)
      PROVE  q \in Seq(Messages) /\ Len(q) <= Buffer
  BY <1>s, SendIsBounded DEF HubInv
<1>q. ASSUME NEW s, Move(c, s), Good(s)
      PROVE  HubInv'
  BY <1>q, MoveKeepsInv
<1> USE <1>0, <1>m DEF Conn, Sound, Serving
<1>1. CASE Run(c)
  <2> DEFINE started(q) == [r EXCEPT !.handler = "running", !.send = q,
                              !.output = "running", !.ticker = "running",
                              !.reader = "check", !.pump = "running"]
  <2>1. PICK q \in Send(c, "data") : Move(c, started(q))
    BY <1>1 DEF Run
  <2>2. q \in Seq(Messages) /\ Len(q) <= Buffer /\ r.handler = "registered"
    BY <1>1, <1>s, <2>1 DEF Run
  <2>3. Good(started(q))
    BY <2>2
  <2> HIDE DEF Good, started
  <2>4. QED BY <1>q, <2>1, <2>3
<1>2. CASE OutputRead(c)
  <2>1. PICK q \in Send(c, "data") : Move(c, [r EXCEPT !.send = q])
    BY <1>2 DEF OutputRead
  <2>2. q \in Seq(Messages) /\ Len(q) <= Buffer
    BY <1>s, <2>1
  <2>3. Good([r EXCEPT !.send = q])
    BY <2>2
  <2>4. QED BY <1>q, <2>1, <2>3
<1>3. CASE TickerTicks(c)
  <2>1. PICK q \in Send(c, "data"), x \in {"announcing", "running"} :
          Move(c, [r EXCEPT !.send = q, !.ticker = x])
    BY <1>3 DEF TickerTicks
  <2>2. q \in Seq(Messages) /\ Len(q) <= Buffer
    BY <1>s, <2>1
  <2>3. Good([r EXCEPT !.send = q, !.ticker = x])
    BY <2>2
  <2>4. QED BY <1>q, <2>1, <2>3
<1>4. CASE TickerExpires(c)
  <2>1. PICK q \in Send(c, "expired") :
          Move(c, [r EXCEPT !.send = q, !.ticker = "ended", !.cancelled = TRUE])
    BY <1>4 DEF TickerExpires
  <2>2. q \in Seq(Messages) /\ Len(q) <= Buffer
    BY <1>s, <2>1
  <2>3. Good([r EXCEPT !.send = q, !.ticker = "ended", !.cancelled = TRUE])
    BY ZenonT(40), <2>2
  <2>4. QED BY <1>q, <2>1, <2>3
<1>5. CASE ReaderGetsFrame(c)
  <2>1. /\ r.reader = "read"
        /\ \/ Move(c, [r EXCEPT !.reader = "check"])
           \/ Move(c, [r EXCEPT !.reader = "ended"])
           \/ \E q \in Send(c, "data") :
                Move(c, [r EXCEPT !.reader = "check", !.send = q])
    BY <1>5 DEF ReaderGetsFrame
  <2>2. r.handler \notin {"returned", "unregistered", "closed"} /\ r.shell # "closed"
    BY <2>1
  <2>3. Good([r EXCEPT !.reader = "check"]) /\ Good([r EXCEPT !.reader = "ended"])
    BY <2>2
  <2>4. ASSUME NEW q \in Send(c, "data")
        PROVE  Good([r EXCEPT !.reader = "check", !.send = q])
    <3>1. q \in Seq(Messages) /\ Len(q) <= Buffer
      BY <1>s, <2>4
    <3>2. QED BY <2>2, <3>1
  <2>5. QED BY <1>q, <2>1, <2>3, <2>4
<1>6. QED BY <1>1, <1>2, <1>3, <1>4, <1>5

\* Steps that reach several connections, or none.
LEMMA ConnsKeepInv ==
  ASSUME HubInv,
         conn' \in [Conns -> Conn],
         \A c \in Conns : /\ Len(conn'[c].send) <= Buffer
                          /\ Sound(conn'[c])
                          /\ conn'[c].handler = conn[c].handler,
         UNCHANGED hub,
         live' \in BOOLEAN, expired' \in BOOLEAN, container' \in {"up", "down"},
         job' \in [Jobs -> JobStates],
         target' \in [Jobs -> Conns \cup {NoConn}]
  PROVE  HubInv'
<1>1. TypeOK'
  BY DEF HubInv, TypeOK
<1>2. HubIsServed'
  BY DEF HubInv, TypeOK, HubIsServed
<1>3. QED BY <1>1, <1>2 DEF HubInv

LEMMA HubSteps ==
  ASSUME HubInv, NEW c \in Conns, Register(c) \/ Unregister(c)
  PROVE  HubInv'
<1>0. /\ TypeOK /\ \A d \in Conns : /\ conn[d] \in Conn /\ Len(conn[d].send) <= Buffer
                                     /\ Sound(conn[d])
  BY InvOfConn DEF HubInv
<1>1. CASE Register(c)
  <2>1. ASSUME NEW d \in Conns
        PROVE  /\ conn'[d] \in Conn /\ Len(conn'[d].send) <= Buffer
               /\ Sound(conn'[d])
    <3> DEFINE n == [conn[d] EXCEPT !.done = conn[d].done \/ d = hub,
                       !.handler = IF d = c THEN "registered" ELSE conn[d].handler]
    <3>1. conn'[d] = n
      BY <1>1 DEF Register
    <3>2. (d = c => conn[d].handler = "attached") /\ conn[d].done \in BOOLEAN
      BY <1>0, <1>1 DEF Register, Conn
    <3>3. (conn[d].done \/ d = hub) \in BOOLEAN /\ (conn[d].done => (conn[d].done \/ d = hub))
      OBVIOUS
    <3>4. /\ n \in Conn /\ n.send = conn[d].send /\ n.shell = conn[d].shell
          /\ n.reader = conn[d].reader /\ n.cancelled = conn[d].cancelled
          /\ n.done = (conn[d].done \/ d = hub)
          /\ n.handler = IF d = c THEN "registered" ELSE conn[d].handler
      BY ZenonT(40), <1>0, <3>3 DEF Conn
    <3>5. QED BY <1>0, <3>1, <3>2, <3>4 DEF Sound
  <2>2. TypeOK'
    <3>1. conn' \in [Conns -> Conn]
      <4>1. conn' = [d \in Conns |-> conn'[d]]
        BY <1>1 DEF Register
      <4>2. QED BY <2>1, <4>1
    <3>2. QED BY <1>0, <1>1, <2>1, <3>1 DEF Register, TypeOK, row, jobs
  <2>3. HubIsServed'
    BY <1>0, <1>1 DEF Register, HubIsServed, Conn
  <2>4. QED BY <2>1, <2>2, <2>3 DEF HubInv
<1>2. CASE Unregister(c)
  <2>1. ASSUME NEW d \in Conns
        PROVE  /\ conn'[d] \in Conn /\ Len(conn'[d].send) <= Buffer
               /\ Sound(conn'[d])
    <3>1. conn'[d] = IF d = c THEN [conn[d] EXCEPT !.handler = "unregistered"]
                              ELSE conn[d]
      BY <1>0, <1>2 DEF Unregister, TypeOK
    <3>2. d = c => conn[d].handler = "returned"
      BY <1>2 DEF Unregister
    <3>3. QED BY <1>0, <3>1, <3>2 DEF Conn, Sound
  <2>2. TypeOK'
    <3>1. conn' \in [Conns -> Conn]
      BY <1>0, <1>2, <2>1 DEF Unregister, TypeOK
    <3>2. QED BY <1>0, <1>2, <2>1, <3>1 DEF Unregister, TypeOK, row, jobs
  <2>3. HubIsServed'
    BY <1>2 DEF Unregister, HubIsServed
  <2>4. QED BY <2>1, <2>2, <2>3 DEF HubInv
<1>3. QED BY <1>1, <1>2

\* The end of the container ends the shells, and disturbs nothing else.
LEMMA ShellsEndSound ==
  ASSUME HubInv, ShellsEnd
  PROVE  /\ conn' \in [Conns -> Conn]
         /\ \A c \in Conns : /\ Len(conn'[c].send) <= Buffer
                              /\ Sound(conn'[c])
                              /\ conn'[c].handler = conn[c].handler
<1>1. ASSUME NEW c \in Conns
      PROVE  /\ conn'[c] \in Conn /\ Len(conn'[c].send) <= Buffer
             /\ Sound(conn'[c]) /\ conn'[c].handler = conn[c].handler
  <2>1. conn[c] \in Conn /\ Len(conn[c].send) <= Buffer /\ Sound(conn[c])
    BY InvOfConn
  <2>2. conn'[c] = [conn[c] EXCEPT !.shell = IF conn[c].shell = "open" THEN "eof"
                                                                  ELSE conn[c].shell]
    BY DEF ShellsEnd
  <2>3. QED BY <2>1, <2>2 DEF Conn, Sound
<1>2. conn' = [c \in Conns |-> conn'[c]]
  BY DEF ShellsEnd
<1>3. QED BY <1>1, <1>2

\* Steps of the scheduler's jobs.
LEMMA JobSteps ==
  ASSUME HubInv, NEW j \in Jobs, JobStep(j)
  PROVE  HubInv'
<1>0. /\ TypeOK
      /\ \A c \in Conns : /\ conn[c] \in Conn /\ Len(conn[c].send) <= Buffer
                           /\ Sound(conn[c])
  BY InvOfConn DEF HubInv
<1>1. CASE WarnerGets(j) \/ ReaperFinds(j) \/ ReaperMarks(j) \/ ReaperGets(j) \/ UserTerminates(j)
  <2>1. UNCHANGED <<conn, hub, expired, container>> /\ live' \in {live, FALSE}
    BY <1>1 DEF WarnerGets, ReaperFinds, ReaperMarks, ReaperGets, UserTerminates, row
  <2>2. /\ job' \in [Jobs -> JobStates]
        /\ target' \in [Jobs -> Conns \cup {NoConn}]
    BY <1>0, <1>1
    DEF WarnerGets, ReaperFinds, ReaperMarks, ReaperGets, UserTerminates, TypeOK, JobStates
  <2>3. QED BY <1>0, <2>1, <2>2, ConnsKeepInv DEF TypeOK
<1>2. CASE JobSends(j)
  <2>1. PICK m \in Messages : Broadcast(j, m)
    BY <1>2 DEF JobSends, Messages
  <2>2. /\ conn' \in [Conns -> Conn]
        /\ \A c \in Conns : /\ Len(conn'[c].send) <= Buffer
                             /\ Sound(conn'[c])
                             /\ conn'[c].handler = conn[c].handler
    <3>1. CASE target[j] = NoConn
      BY <1>0, <2>1, <3>1 DEF Broadcast, TypeOK
    <3>2. CASE target[j] # NoConn
      <4> DEFINE t == target[j]
      <4>1. t \in Conns
        BY <1>0, <3>2 DEF TypeOK
      <4>2. PICK q \in Send(t, m) : conn' = [conn EXCEPT ![t].send = q]
        BY <2>1, <3>2 DEF Broadcast
      <4>3. q \in Seq(Messages) /\ Len(q) <= Buffer
        BY <1>0, <4>1, <4>2, SendIsBounded
      <4>4. /\ [conn[t] EXCEPT !.send = q] \in Conn
            /\ Sound([conn[t] EXCEPT !.send = q])
            /\ [conn[t] EXCEPT !.send = q].send = q
            /\ [conn[t] EXCEPT !.send = q].handler = conn[t].handler
        BY <1>0, <4>1, <4>3 DEF Conn, Sound
      <4>5. conn' = [conn EXCEPT ![t] = [conn[t] EXCEPT !.send = q]]
        BY <4>2
      <4> HIDE DEF t
      <4>6. QED BY <1>0, <4>1, <4>3, <4>4, <4>5 DEF TypeOK
    <3>3. QED BY <3>1, <3>2
  <2>3. /\ job' \in [Jobs -> JobStates]
        /\ target' \in [Jobs -> Conns \cup {NoConn}]
    BY <1>0, <1>2, <2>1 DEF JobSends, Broadcast, TypeOK, JobStates
  <2>4. UNCHANGED <<hub, row>>
    BY <1>2 DEF JobSends
  <2>5. QED BY <1>0, <2>2, <2>3, <2>4, ConnsKeepInv DEF TypeOK, row
<1>3. CASE JobStops(j)
  <2>1. /\ conn' \in [Conns -> Conn]
        /\ \A c \in Conns : /\ Len(conn'[c].send) <= Buffer
                             /\ Sound(conn'[c])
                             /\ conn'[c].handler = conn[c].handler
        /\ container' \in {"up", "down"}
    <3>1. CASE container' = "down" /\ ShellsEnd
      BY <3>1, ShellsEndSound
    <3>2. CASE UNCHANGED <<container, conn>>
      BY <1>0, <3>2 DEF TypeOK
    <3>3. QED BY <1>3, <3>1, <3>2 DEF JobStops
  <2>2. QED BY <1>0, <1>3, <2>1, ConnsKeepInv DEF JobStops, TypeOK, JobStates
<1>4. QED BY <1>1, <1>2, <1>3 DEF JobStep, JobGoesOn

LEMMA WorldSteps ==
  ASSUME HubInv, MarkExpired \/ ContainerEnds \/ Expire
  PROVE  HubInv'
<1>0. TypeOK /\ \A c \in Conns : Sound(conn[c])
  BY DEF HubInv
<1>1. CASE ContainerEnds
  BY <1>0, <1>1, ShellsEndSound, ConnsKeepInv DEF ContainerEnds, TypeOK, jobs
<1>2. CASE Expire
  BY <1>0, <1>2, ConnsKeepInv DEF Expire, TypeOK, jobs
<1>3. CASE MarkExpired
  BY <1>0, <1>3, ConnsKeepInv DEF MarkExpired, TypeOK, jobs
<1>4. QED BY <1>1, <1>2, <1>3

LEMMA NextInv == HubInv /\ [Next]_vars => HubInv'
<1> SUFFICES ASSUME HubInv, [Next]_vars PROVE HubInv'
  OBVIOUS
<1>1. ASSUME NEW c \in Conns,
             ConnStep(c) \/ Admit(c) \/ ReaderGetsFrame(c) \/ BrowserCloses(c) \/ ShellExits(c)
      PROVE  HubInv'
  BY <1>1, QuietSteps, SendingSteps, HubSteps
     DEF ConnStep, HandlerStep, PumpStep, TickerStep, ReaderStep
<1>2. ASSUME NEW j \in Jobs, JobStep(j)
      PROVE  HubInv'
  BY <1>2, JobSteps
<1>3. CASE MarkExpired \/ ContainerEnds \/ Expire
  BY <1>3, WorldSteps
<1>4. CASE UNCHANGED vars
  <2>1. /\ conn' = conn /\ hub' = hub /\ live' = live /\ expired' = expired
        /\ container' = container /\ job' = job /\ target' = target
    BY <1>4 DEF vars
  <2>2. QED BY <2>1 DEF HubInv, TypeOK, HubIsServed
<1>5. QED BY <1>1, <1>2, <1>3, <1>4 DEF Next

LEMMA Inductive == Spec => []HubInv
<1>1. QED BY InitInv, NextInv, PTL DEF Spec

\* Every reachable state is well-typed: in particular no send channel ever
\* holds more than its capacity (hub.go:138).
THEOREM TypeCorrect == Spec => []TypeOK
<1>1. HubInv => TypeOK
  BY DEF HubInv
<1>2. QED BY <1>1, Inductive, PTL

\* However many connections are opened to a session, and however their
\* handlers interleave, the hub never holds the client of a handler that has
\* unregistered or gone (hub.go:62-80, terminal.go:129-135).
THEOREM HubServes == Spec => []HubIsServed
<1>1. HubInv => HubIsServed
  BY DEF HubInv
<1>2. QED BY <1>1, Inductive, PTL

\* The exec stream is closed under no reader (terminal.go:127, bridge.go:213).
THEOREM StreamClosesLast == Spec => []StreamClosedLast
<1>1. HubInv => StreamClosedLast
  BY DEF HubInv, Sound, StreamClosedLast
<1>2. QED BY <1>1, Inductive, PTL

-----------------------------------------------------------------------------
(* The stages of a connection.                                             *)

\* A step of one connection that leaves it in a stage keeps all in theirs.
LEMMA MoveKeepsStages ==
  ASSUME HubInv, StagesInv, NEW c \in Conns, NEW r, Move(c, r), Staged(r)
  PROVE  StagesInv'
<1>1. \A d \in Conns : conn'[d] = IF d = c THEN r ELSE conn[d]
  BY DEF Move, HubInv, TypeOK
<1>2. QED BY <1>1 DEF StagesInv

\* The steps of a handler.
LEMMA HandlerStages ==
  ASSUME HubInv, StagesInv, NEW c \in Conns, HandlerStep(c) \/ Admit(c)
  PROVE  StagesInv'
<1> DEFINE r == conn[c]
<1>0. r \in Conn /\ Staged(r) /\ Sound(r)
  BY InvOfConn DEF StagesInv
<1>q. ASSUME NEW s, Move(c, s), Staged(s)
      PROVE  StagesInv'
  BY <1>q, MoveKeepsStages
<1>1. CASE Attach(c)
  <2>1. /\ Staged([r EXCEPT !.handler = "attached", !.shell = "open"])
        /\ Staged([r EXCEPT !.handler = "gone", !.done = TRUE])
    BY <1>0, <1>1 DEF Attach, Conn, Staged
  <2>2. QED BY ZenonT(40), <1>1, <1>q, <2>1 DEF Attach
<1>2. CASE Register(c)
  <2>1. ASSUME NEW d \in Conns
        PROVE  Staged(conn'[d])
    <3> DEFINE n == [conn[d] EXCEPT !.done = conn[d].done \/ d = hub,
                       !.handler = IF d = c THEN "registered" ELSE conn[d].handler]
    <3>1. conn'[d] = n /\ (d = c => conn[d].handler = "attached")
      BY <1>2 DEF Register
    <3>2. conn[d] \in Conn /\ Staged(conn[d])
      BY InvOfConn DEF StagesInv
    <3>3. /\ n.handler = IF d = c THEN "registered" ELSE conn[d].handler
          /\ n.done = (conn[d].done \/ d = hub)
          /\ n.shell = conn[d].shell /\ n.output = conn[d].output
          /\ n.reader = conn[d].reader /\ n.cancelled = conn[d].cancelled
      BY ZenonT(40), <3>2 DEF Conn
    <3> HIDE DEF n
    <3>4. QED BY <3>1, <3>2, <3>3 DEF Staged
  <2>2. QED BY <2>1 DEF StagesInv
<1>3. CASE Run(c)
  <2> DEFINE started(q) == [r EXCEPT !.handler = "running", !.send = q,
                              !.output = "running", !.ticker = "running",
                              !.reader = "check", !.pump = "running"]
  <2>1. PICK q \in Send(c, "data") : Move(c, started(q))
    BY <1>3 DEF Run
  <2>2. r.handler = "registered"
    BY <1>3 DEF Run
  <2>3. Staged(started(q))
    BY <1>0, <2>2 DEF Conn, Staged
  <2> HIDE DEF started
  <2>4. QED BY <1>q, <2>1, <2>3
<1>4. CASE RunReturns(c)
  <2>1. Staged([r EXCEPT !.handler = "returned"])
    BY <1>0, <1>4 DEF RunReturns, Conn, Staged
  <2>2. QED BY <1>4, <1>q, <2>1 DEF RunReturns
<1>5. CASE Unregister(c)
  <2>1. ASSUME NEW d \in Conns
        PROVE  Staged(conn'[d])
    <3>1. conn'[d] = IF d = c THEN [conn[d] EXCEPT !.handler = "unregistered"]
                              ELSE conn[d]
      BY <1>5 DEF Unregister, HubInv, TypeOK
    <3>2. conn[d] \in Conn /\ Staged(conn[d]) /\ (d = c => conn[d].handler = "returned")
      BY <1>5, InvOfConn DEF StagesInv, Unregister
    <3>3. QED BY <3>1, <3>2 DEF Conn, Staged
  <2>2. QED BY <2>1 DEF StagesInv
<1>6. CASE CloseClient(c)
  <2>1. Staged([r EXCEPT !.handler = "closed", !.done = TRUE])
    BY <1>0, <1>6 DEF CloseClient, Conn, Staged
  <2>2. QED BY <1>6, <1>q, <2>1 DEF CloseClient
<1>7. CASE CloseStream(c)
  <2>1. Staged([r EXCEPT !.handler = "gone", !.shell = "closed"])
    BY <1>0, <1>7 DEF CloseStream, Conn, Staged, Sound
  <2>2. QED BY <1>7, <1>q, <2>1 DEF CloseStream
<1>8. CASE Admit(c)
  <2>1. Staged([r EXCEPT !.handler = "admitted"])
    BY <1>0, <1>8 DEF Admit, Conn, Staged
  <2>2. QED BY <1>8, <1>q, <2>1 DEF Admit
<1>9. QED
  BY <1>1, <1>2, <1>3, <1>4, <1>5, <1>6, <1>7, <1>8 DEF HandlerStep

\* The steps of the other goroutines of a connection, its browser and shell.
LEMMA GoroutineStages ==
  ASSUME HubInv, StagesInv, NEW c \in Conns,
         \/ PumpStep(c) \/ OutputRead(c) \/ OutputEnds(c) \/ TickerStep(c) \/ ReaderStep(c)
         \/ ReaderGetsFrame(c) \/ BrowserCloses(c) \/ ShellExits(c)
  PROVE  StagesInv'
<1> DEFINE r == conn[c]
<1>0. r \in Conn /\ Staged(r)
  BY InvOfConn DEF StagesInv
<1>q. ASSUME NEW s, Move(c, s), Staged(s)
      PROVE  StagesInv'
  BY <1>q, MoveKeepsStages
<1> USE <1>0 DEF Conn, Staged
<1>1. CASE PumpStep(c)
  <2>1. /\ Staged([r EXCEPT !.send = Tail(@)])
        /\ Staged([r EXCEPT !.send = Tail(@), !.pump = "closing"])
        /\ Staged([r EXCEPT !.pump = "closing"])
        /\ Staged([r EXCEPT !.pump = "ended", !.done = TRUE])
    OBVIOUS
  <2> HIDE DEF Staged
  <2>2. QED BY <1>1, <1>q, <2>1 DEF PumpStep, PumpWrite, PumpStop, PumpClose
<1>2. CASE OutputRead(c)
  <2>1. ASSUME NEW q PROVE Staged([r EXCEPT !.send = q])
    OBVIOUS
  <2> HIDE DEF Staged
  <2>2. QED BY <1>2, <1>q, <2>1 DEF OutputRead
<1>3. CASE OutputEnds(c)
  <2>1. Staged([r EXCEPT !.output = "ended", !.cancelled = TRUE])
    BY <1>3 DEF OutputEnds
  <2> HIDE DEF Staged
  <2>2. QED BY <1>3, <1>q, <2>1 DEF OutputEnds
<1>4. CASE TickerStep(c)
  <2>1. ASSUME NEW q, NEW x
        PROVE  /\ Staged([r EXCEPT !.send = q, !.ticker = x])
               /\ Staged([r EXCEPT !.send = q, !.ticker = "ended", !.cancelled = TRUE])
               /\ Staged([r EXCEPT !.ticker = "ended"])
    BY ZenonT(40)
  <2> HIDE DEF Staged
  <2>2. QED BY <1>4, <1>q, <2>1 DEF TickerStep, TickerTicks, TickerExpires, TickerEnds
<1>5. CASE ReaderStep(c) \/ ReaderGetsFrame(c)
  <2>1. r.reader \in {"check", "read"}
    BY <1>5 DEF ReaderStep, ReaderChecks, ReaderFails, ReaderGetsFrame
  <2>2. ASSUME NEW q, NEW x \in {"check", "read", "ended"}
        PROVE  /\ Staged([r EXCEPT !.reader = x])
               /\ Staged([r EXCEPT !.reader = x, !.send = q])
    BY <2>1
  <2> HIDE DEF Staged
  <2>3. QED BY <1>5, <1>q, <2>2 DEF ReaderStep, ReaderChecks, ReaderFails, ReaderGetsFrame
<1>6. CASE BrowserCloses(c) \/ ShellExits(c)
  <2>1. /\ Staged([r EXCEPT !.browser = "closed"])
        /\ r.shell = "open" => Staged([r EXCEPT !.shell = "eof"])
    OBVIOUS
  <2> HIDE DEF Staged
  <2>2. QED BY <1>6, <1>q, <2>1 DEF BrowserCloses, ShellExits
<1>7. QED BY <1>1, <1>2, <1>3, <1>4, <1>5, <1>6

\* Jobs and containers change send channels and shells only.
LEMMA WorldStages ==
  ASSUME HubInv, StagesInv,
         \/ \E j \in Jobs : JobStep(j)
         \/ MarkExpired \/ ContainerEnds \/ Expire \/ UNCHANGED vars
  PROVE  StagesInv'
<1>0. \A c \in Conns : conn[c] \in Conn /\ Staged(conn[c])
  BY InvOfConn DEF StagesInv
<1>1. UNCHANGED conn => StagesInv'
  BY <1>0 DEF StagesInv
<1>2. ASSUME ShellsEnd
      PROVE  StagesInv'
  <2>1. ASSUME NEW c \in Conns
        PROVE  Staged(conn'[c])
    <3>1. conn'[c] = [conn[c] EXCEPT !.shell = IF conn[c].shell = "open" THEN "eof"
                                                                    ELSE conn[c].shell]
      BY <1>2 DEF ShellsEnd
    <3>2. QED BY <1>0, <3>1 DEF Conn, Staged
  <2>2. QED BY <2>1 DEF StagesInv
<1>3. ASSUME NEW j \in Jobs, NEW m, Broadcast(j, m)
      PROVE  StagesInv'
  <2>1. CASE target[j] = NoConn
    BY <1>1, <1>3, <2>1 DEF Broadcast
  <2>2. CASE target[j] # NoConn
    <3>1. PICK t \in Conns : t = target[j]
      BY <2>2 DEF HubInv, TypeOK
    <3>2. PICK q : conn' = [conn EXCEPT ![t].send = q]
      BY <1>3, <2>2, <3>1 DEF Broadcast
    <3>3. ASSUME NEW c \in Conns
          PROVE  Staged(conn'[c])
      <4>1. conn'[c] = conn[c] \/ conn'[c] = [conn[c] EXCEPT !.send = q]
        BY <3>2 DEF HubInv, TypeOK
      <4>2. QED BY <1>0, <4>1 DEF Conn, Staged
    <3>4. QED BY <3>3 DEF StagesInv
  <2>3. QED BY <2>1, <2>2
<1>4. QED
  BY <1>1, <1>2, <1>3
  DEF JobStep, JobGoesOn, WarnerGets, ReaperFinds, ReaperMarks, ReaperGets, UserTerminates,
      JobSends, JobStops, MarkExpired, ContainerEnds, Expire, vars

LEMMA StagesHold == Spec => []StagesInv
<1>1. Init => StagesInv
  <2> DEFINE fresh == [handler |-> "none", cancelled |-> FALSE, done |-> FALSE,
                       browser |-> "open", shell |-> "none", output |-> "off",
                       ticker |-> "off", reader |-> "off", pump |-> "off",
                       send |-> <<>>]
  <2>1. Staged(fresh)
    BY DEF Staged
  <2>2. Init => \A c \in Conns : conn[c] = fresh
    BY DEF Init
  <2>3. QED BY <2>1, <2>2 DEF StagesInv
<1>2. HubInv /\ StagesInv /\ [Next]_vars => StagesInv'
  <2> SUFFICES ASSUME HubInv, StagesInv, [Next]_vars PROVE StagesInv'
    OBVIOUS
  <2>1. ASSUME NEW c \in Conns,
               ConnStep(c) \/ Admit(c) \/ ReaderGetsFrame(c) \/ BrowserCloses(c) \/ ShellExits(c)
        PROVE  StagesInv'
    BY <2>1, HandlerStages, GoroutineStages DEF ConnStep
  <2>2. QED BY <2>1, WorldStages DEF Next
<1>3. QED BY <1>1, <1>2, Inductive, PTL DEF Spec

\* Whatever overlaps, a handler that is gone has left its goroutines nothing
\* to wait for (bridge.go:209-214, terminal.go:127-135).
THEOREM GoneLetGo == Spec => []GoneLetsGo
<1>1. StagesInv => GoneLetsGo
  BY DEF StagesInv, Staged, GoneLetsGo
<1>2. QED BY <1>1, StagesHold, PTL

\* The goroutines of an abandoned terminal never wait for each other in a
\* circle: without browser and shell, one of them can go on.
THEOREM AbandonedGoOn == Spec => []AbandonedGoesOn
<1>1. HubInv /\ StagesInv => AbandonedGoesOn
  <2> SUFFICES ASSUME HubInv, StagesInv, NEW c \in Conns,
                      conn[c].browser = "closed", conn[c].shell # "open",
                      conn[c].handler = "running"
               PROVE  GoesOn(c)
    BY DEF AbandonedGoesOn, GoesOn
  <2>1. conn[c] \in Conn /\ Staged(conn[c])
    BY InvOfConn DEF StagesInv
  <2>2. CASE conn[c].output = "running"
    BY <2>1, <2>2 DEF Conn, Staged, GoesOn
  <2>3. CASE conn[c].output = "ended"
    BY <2>1, <2>3 DEF Conn, Staged, GoesOn
  <2>4. QED BY <2>1, <2>2, <2>3 DEF Conn, Staged
<1>2. QED BY <1>1, Inductive, StagesHold, PTL

-----------------------------------------------------------------------------
(* Shells and containers.                                                  *)

\* A shell is opened in a container that is up only.
LEMMA ShellOfUp ==
  ASSUME HubInv, ShellInv, [Next]_vars, NEW d \in Conns,
         container = "down", conn'[d].shell = "open"
  PROVE  conn[d].shell = "open"
<1>0. \A c \in Conns : conn[c] \in Conn
  BY InvOfConn
<1>1. ASSUME NEW c \in Conns, NEW r, Move(c, r), c = d => r.shell # "open"
      PROVE  conn[d].shell = "open"
  BY <1>1 DEF Move, HubInv, TypeOK
<1>2. ASSUME NEW c \in Conns, NEW r, Move(c, r), r.shell = conn[c].shell
      PROVE  conn[d].shell = "open"
  BY <1>2 DEF Move, HubInv, TypeOK
<1>3. ASSUME NEW c \in Conns, HandlerStep(c) \/ Admit(c)
      PROVE  conn[d].shell = "open"
  <2> USE <1>0 DEF Conn
  <2>1. CASE Attach(c)
    <3>1. Move(c, [conn[c] EXCEPT !.handler = "gone", !.done = TRUE])
      BY <2>1 DEF Attach
    <3>2. QED BY <1>2, <3>1
  <2>2. CASE Register(c)
    BY <2>2 DEF Register
  <2>3. CASE Run(c)
    <3>1. PICK q : Move(c, [conn[c] EXCEPT !.handler = "running", !.send = q,
                              !.output = "running", !.ticker = "running",
                              !.reader = "check", !.pump = "running"])
      BY <2>3 DEF Run
    <3>2. QED BY <1>2, <3>1
  <2>4. CASE Unregister(c)
    BY <2>4 DEF Unregister, HubInv, TypeOK
  <2>5. CASE CloseStream(c)
    BY <1>1, <2>5 DEF CloseStream
  <2>6. CASE RunReturns(c) \/ CloseClient(c) \/ Admit(c)
    BY <1>2, <2>6 DEF RunReturns, CloseClient, Admit
  <2>7. QED BY <1>3, <2>1, <2>2, <2>3, <2>4, <2>5, <2>6 DEF HandlerStep
<1>4. ASSUME NEW c \in Conns,
             \/ PumpStep(c) \/ OutputRead(c) \/ OutputEnds(c) \/ TickerStep(c) \/ ReaderStep(c)
             \/ ReaderGetsFrame(c) \/ BrowserCloses(c)
      PROVE  conn[d].shell = "open"
  <2> DEFINE r == conn[c]
             Same(s) == s.shell = r.shell
  <2>0. r \in Conn
    BY <1>0
  <2>q. ASSUME NEW s, Move(c, s), Same(s)
        PROVE  conn[d].shell = "open"
    BY <1>2, <2>q
  <2>1. /\ Same([r EXCEPT !.send = Tail(@), !.pump = "closing"])
        /\ Same([r EXCEPT !.pump = "closing"])
        /\ Same([r EXCEPT !.pump = "ended", !.done = TRUE])
        /\ Same([r EXCEPT !.output = "ended", !.cancelled = TRUE])
        /\ Same([r EXCEPT !.ticker = "ended"])
        /\ Same([r EXCEPT !.browser = "closed"])
    BY <2>0 DEF Conn
  <2>2. ASSUME NEW q, NEW x
        PROVE  /\ Same([r EXCEPT !.send = q])
               /\ Same([r EXCEPT !.send = q, !.ticker = x])
               /\ Same([r EXCEPT !.send = q, !.ticker = "ended", !.cancelled = TRUE])
               /\ Same([r EXCEPT !.reader = x])
               /\ Same([r EXCEPT !.reader = x, !.send = q])
    BY <2>0 DEF Conn
  <2> HIDE DEF Same
  <2>3. CASE PumpStep(c)
    BY <2>q, <2>1, <2>2, <2>3 DEF PumpStep, PumpWrite, PumpStop, PumpClose
  <2>4. CASE OutputRead(c) \/ OutputEnds(c) \/ BrowserCloses(c)
    BY <2>q, <2>1, <2>2, <2>4 DEF OutputRead, OutputEnds, BrowserCloses
  <2>5. CASE TickerStep(c)
    BY <2>q, <2>1, <2>2, <2>5 DEF TickerStep, TickerTicks, TickerExpires, TickerEnds
  <2>6. CASE ReaderStep(c) \/ ReaderGetsFrame(c)
    BY <2>q, <2>2, <2>6 DEF ReaderStep, ReaderChecks, ReaderFails, ReaderGetsFrame
  <2>7. QED BY <1>4, <2>3, <2>4, <2>5, <2>6
<1>5. ASSUME NEW c \in Conns, ShellExits(c)
      PROVE  conn[d].shell = "open"
  BY <1>0, <1>1, <1>5 DEF ShellExits, Conn
<1>6. ASSUME ShellsEnd
      PROVE  FALSE
  BY <1>0, <1>6 DEF ShellsEnd, Conn
<1>7. ASSUME NEW j \in Jobs, NEW m, Broadcast(j, m)
      PROVE  conn[d].shell = "open"
  <2>1. CASE target[j] = NoConn
    BY <1>7, <2>1 DEF Broadcast
  <2>2. CASE target[j] # NoConn
    <3>1. PICK t \in Conns : \E q : conn' = [conn EXCEPT ![t].send = q]
      BY <1>7, <2>2 DEF Broadcast, HubInv, TypeOK
    <3>2. QED BY <1>0, <3>1 DEF HubInv, TypeOK, Conn
  <2>3. QED BY <2>1, <2>2
<1>8. CASE \/ \E j \in Jobs : JobStep(j)
           \/ MarkExpired \/ ContainerEnds \/ Expire \/ UNCHANGED vars
  BY <1>6, <1>7, <1>8
  DEF JobStep, JobGoesOn, WarnerGets, ReaperFinds, ReaperMarks, ReaperGets, UserTerminates,
      JobSends, JobStops, MarkExpired, ContainerEnds, Expire, vars
<1>9. QED BY <1>3, <1>4, <1>5, <1>8 DEF Next, ConnStep

\* Why a session that is not active may have a container.
EnderStates == {"idle", "found", "get", "end", "stop"}
Pending == Ending \/ expired \/ StopFails \/ InspectFails

\* What takes a container down ends its shells; what ends a session goes on to
\* stop its container, or has a reason not to; and who has begun to stop it
\* does not give up before it is down.
LEMMA DownSteps ==
  ASSUME HubInv, ShellInv, [Next]_vars
  PROVE  /\ container = "down" => container' = "down"
         /\ container' # container => ShellsEnd
         /\ ~live' => ~live \/ container' = "down" \/ Pending'
         /\ Pending => Pending' \/ container' = "down"
         /\ \A j \in Enders : job'[j] \in EnderStates
<1> DEFINE Goal == /\ container = "down" => container' = "down"
                   /\ container' # container => ShellsEnd
                   /\ ~live' => ~live \/ container' = "down" \/ Pending'
                   /\ Pending => Pending' \/ container' = "down"
                   /\ \A j \in Enders : job'[j] \in EnderStates
<1>0. /\ TypeOK
      /\ \A j \in Enders : job[j] \in EnderStates
  BY DEF HubInv, ShellInv, EnderStates
<1>1. ASSUME NEW c \in Conns,
             ConnStep(c) \/ Admit(c) \/ ReaderGetsFrame(c) \/ BrowserCloses(c) \/ ShellExits(c)
      PROVE  Goal
  <2>1. UNCHANGED <<row, jobs>>
    BY <1>1
    DEF ConnStep, HandlerStep, Attach, Register, Run, RunReturns, Unregister, CloseClient,
        CloseStream, PumpStep, PumpWrite, PumpStop, PumpClose, OutputRead, OutputEnds, TickerStep,
        TickerTicks, TickerExpires, TickerEnds, ReaderStep, ReaderChecks, ReaderFails, Admit,
        ReaderGetsFrame, BrowserCloses, ShellExits, Move
  <2>2. QED BY <1>0, <2>1 DEF row, jobs, Pending, Ending
\* A step of a job that stops nothing.
<1>2. ASSUME NEW j \in Jobs, NEW x \in JobStates, job' = [job EXCEPT ![j] = x],
             UNCHANGED <<expired, container>>,
             j \in Enders => x \in EnderStates \ {"idle"},
             live' = live \/ j \in Enders
      PROVE  Goal
  <2>1. /\ job'[j] = x
        /\ \A i \in Enders : i # j => job'[i] = job[i]
    BY <1>0, <1>2 DEF TypeOK, Jobs
  <2>2. Ending => Ending'
    BY <1>2, <2>1 DEF Ending
  <2>3. ~live' => ~live \/ Ending'
    BY <1>2, <2>1 DEF Ending
  <2>4. \A i \in Enders : job'[i] \in EnderStates
    BY <1>0, <1>2, <2>1
  <2>5. QED BY <1>2, <2>2, <2>3, <2>4 DEF Pending
<1>3. ASSUME NEW j \in Jobs, JobStep(j)
      PROVE  Goal
  <2>1. CASE WarnerGets(j)
    BY <1>2, <2>1 DEF WarnerGets, JobStates, row
  <2>2. CASE ReaperFinds(j) \/ ReaperGets(j)
    BY <1>2, <2>2 DEF ReaperFinds, ReaperGets, JobStates, EnderStates, row
  <2>3. CASE ReaperMarks(j) \/ UserTerminates(j)
    BY <1>2, <2>3 DEF ReaperMarks, UserTerminates, JobStates, Enders, EnderStates
  <2>4. CASE JobSends(j)
    <3>1. UNCHANGED <<expired, container, live>>
      BY <2>4 DEF JobSends, row
    <3>2. j \in Enders => job[j] \in EnderStates
      BY <1>0
    <3>3. CASE job[j] = "end"
      <4>1. job' = [job EXCEPT ![j] = "stop"]
        BY <2>4, <3>3 DEF JobSends
      <4>2. "stop" \in EnderStates \ {"idle"} /\ "stop" \in JobStates
        BY DEF EnderStates, JobStates
      <4> HIDE DEF Goal
      <4>3. QED BY <1>2, <3>1, <4>1, <4>2
    <3>4. CASE job[j] # "end"
      <4>1. PICK x \in JobStates : job' = [job EXCEPT ![j] = x]
        BY <2>4, <3>4 DEF JobSends, JobStates
      <4>2. j \notin Enders
        BY <2>4, <3>2, <3>4 DEF JobSends, EnderStates
      <4> HIDE DEF Goal
      <4>3. QED BY <1>2, <3>1, <4>1, <4>2
    <3>5. QED BY <3>3, <3>4
  <2>5. CASE JobStops(j)
    <3>1. \A i \in Enders : job'[i] \in EnderStates
      BY <1>0, <2>5 DEF JobStops, TypeOK, Jobs, EnderStates
    <3>2. QED BY <2>5, <3>1 DEF JobStops, Pending
  <2>6. QED BY <1>3, <2>1, <2>2, <2>3, <2>4, <2>5 DEF JobStep, JobGoesOn
<1>4. CASE MarkExpired \/ ContainerEnds \/ Expire \/ UNCHANGED vars
  BY <1>0, <1>4 DEF MarkExpired, ContainerEnds, Expire, vars, jobs, Pending, Ending
<1>5. QED BY <1>1, <1>3, <1>4 DEF Next

LEMMA ShellsHold == Spec => []ShellInv
<1>1. Init => ShellInv
  BY DEF Init, ShellInv, Jobs
<1>2. HubInv /\ ShellInv /\ [Next]_vars => ShellInv'
  <2> SUFFICES ASSUME HubInv, ShellInv, [Next]_vars PROVE ShellInv'
    OBVIOUS
  <2>1. ASSUME container' = "down", NEW d \in Conns
        PROVE  conn'[d].shell # "open"
    <3>1. CASE container = "down"
      BY <2>1, <3>1, ShellOfUp DEF ShellInv
    <3>2. CASE container # "down"
      <4>1. ShellsEnd
        BY <2>1, <3>2, DownSteps
      <4>2. QED BY <4>1, InvOfConn DEF ShellsEnd, Conn
    <3>3. QED BY <3>1, <3>2
  <2>2. ~live' => container' = "down" \/ Pending'
    BY DownSteps DEF ShellInv, Pending
  <2>3. QED BY <2>1, <2>2, DownSteps DEF ShellInv, Pending, EnderStates
<1>3. QED BY <1>1, <1>2, Inductive, PTL DEF Spec

\* Whichever handlers were attaching when a session ended, and whoever ended
\* it, no terminal is left in it: but for one that met it past its TTL or a
\* Docker that fails (terminal.go:97-117, scheduler.go:111-133).
THEOREM NoShellOutlives == Spec => []NoShellOutlivesSession
<1>1. HubInv /\ ShellInv => NoShellOutlivesSession
  BY DEF HubInv, TypeOK, ShellInv, NoShellOutlivesSession
<1>2. QED BY <1>1, Inductive, ShellsHold, PTL
=============================================================================
