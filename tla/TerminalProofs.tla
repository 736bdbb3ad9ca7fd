--------------------------- MODULE TerminalProofs ---------------------------
(***************************************************************************)
(* The page: it never has two sockets, its connectionState says what its   *)
(* socket is, and a buffered command is not overtaken.  The server: a      *)
(* session that is active runs the PTY it knows, and no other one.         *)
(***************************************************************************)
EXTENDS Terminal, TLAPS

-----------------------------------------------------------------------------
(* The link *)
LEMMA ToPageTyped ==
    ASSUME LinkTypeOK, NEW s, NEW m \in DownMessages
    PROVE  ToPage(s, m) \in [Sockets -> Seq(DownMessages)]
<1>1. CASE s \in Sockets
  <2>1. Append(down[s], m) \in Seq(DownMessages)
    BY <1>1 DEF LinkTypeOK
  <2> QED BY <2>1 DEF ToPage, LinkTypeOK
<1>2. CASE s \notin Sockets
  BY <1>2 DEF ToPage, LinkTypeOK
<1> QED BY <1>1, <1>2

LEMMA ToServerTyped ==
    ASSUME LinkTypeOK, NEW s, NEW m \in UpMessages
    PROVE  ToServer(s, m) \in [Sockets -> Seq(UpMessages)]
<1>1. CASE s \in Sockets
  <2>1. Append(up[s], m) \in Seq(UpMessages)
    BY <1>1 DEF LinkTypeOK
  <2> QED BY <2>1 DEF ToServer, LinkTypeOK
<1>2. CASE s \notin Sockets
  BY <1>2 DEF ToServer, LinkTypeOK
<1> QED BY <1>1, <1>2

LEMMA FaultTyped ==
    ASSUME LinkTypeOK, Fault
    PROVE  used' \in [faults : Nat, commands : Nat, hides : Nat]
<1> DEFINE n == used.faults + 1
<1>1. used' = [used EXCEPT !.faults = n]
  BY DEF Fault
<1>2. n \in Nat
  BY DEF LinkTypeOK
<1> HIDE DEF n
<1> QED BY <1>1, <1>2 DEF LinkTypeOK

LEMMA LoseTyped ==
    ASSUME LinkTypeOK, NEW s \in Sockets, Lose(s)
    PROVE  LinkTypeOK'
<1>1. down' \in [Sockets -> Seq(DownMessages)]
  <2>1. PICK k \in 0 .. Len(down[s]) :
          \E last \in LossEvents(s, SubSeq(down[s], 1, k)) :
            down' = [down EXCEPT ![s] = Append(SubSeq(down[s], 1, k), last)]
    BY Zenon DEF Lose
  <2>2. PICK last \in LossEvents(s, SubSeq(down[s], 1, k)) :
          down' = [down EXCEPT ![s] = Append(SubSeq(down[s], 1, k), last)]
    BY <2>1
  <2>3. last \in DownMessages
    BY <2>2 DEF LossEvents, DownMessages, Ends
  <2>4. down[s] \in Seq(DownMessages)
    BY DEF LinkTypeOK
  <2>5. SubSeq(down[s], 1, k) \in Seq(DownMessages)
    BY <2>1, <2>4
  <2>6. Append(SubSeq(down[s], 1, k), last) \in Seq(DownMessages)
    BY <2>3, <2>5
  <2> QED BY <2>2, <2>6 DEF LinkTypeOK
<1>2. up' \in [Sockets -> Seq(UpMessages)]
  <2>1. PICK k \in 0 .. Len(up[s]) :
          \/ up' = up
          \/ up' = [up EXCEPT ![s] = Append(SubSeq(up[s], 1, k), "close")]
    BY Zenon DEF Lose
  <2>2. up[s] \in Seq(UpMessages) /\ "close" \in UpMessages
    BY DEF LinkTypeOK, UpMessages
  <2>3. SubSeq(up[s], 1, k) \in Seq(UpMessages)
    BY <2>1, <2>2
  <2>4. Append(SubSeq(up[s], 1, k), "close") \in Seq(UpMessages)
    BY <2>2, <2>3
  <2> QED BY <2>1, <2>4 DEF LinkTypeOK
<1>3. used' \in [faults : Nat, commands : Nat, hides : Nat]
  BY FaultTyped DEF Lose
<1> QED BY <1>1, <1>2, <1>3 DEF Lose, LinkTypeOK

-----------------------------------------------------------------------------
(* The page's helpers: what they keep of the component. *)
LEMMA ClearFacts ==
    ASSUME NEW p \in Pages
    PROVE  /\ clearAllTimers(p) \in Pages
           /\ clearAllTimers(p).socket = p.socket
           /\ clearAllTimers(p).connectionState = p.connectionState
           /\ clearAllTimers(p).pendingCommand = p.pendingCommand
           /\ clearAllTimers(p).reconnectAttempts = p.reconnectAttempts
BY DEF clearAllTimers, Pages

LEMMA ScheduleFacts ==
    ASSUME NEW p \in Pages
    PROVE  /\ scheduleReconnect(p) \in Pages
           /\ scheduleReconnect(p).socket = p.socket
           /\ scheduleReconnect(p).connectionState \in {p.connectionState, "reconnecting"}
           /\ scheduleReconnect(p).pendingCommand = p.pendingCommand
<1>1. CASE p.reconnectAttempts >= MaxReconnectAttempts
  <2>1. scheduleReconnect(p) = [p EXCEPT !.message = "failed"]
    BY <1>1 DEF scheduleReconnect
  <2> QED BY <2>1 DEF Pages
<1>2. CASE ~(p.reconnectAttempts >= MaxReconnectAttempts)
  <2> DEFINE n == IF p.reconnectInterval THEN p.strayTimers + 1 ELSE p.strayTimers
  <2>1. scheduleReconnect(p) = [p EXCEPT !.connectionState = "reconnecting",
                                         !.strayTimers = n,
                                         !.reconnectInterval = TRUE]
    BY <1>2 DEF scheduleReconnect
  <2>2. n \in Nat
    BY DEF Pages
  <2> HIDE DEF n
  <2> QED BY <2>1, <2>2, ZenonT(60) DEF Pages
<1> QED BY <1>1, <1>2


LEMMA ErrorFacts ==
    ASSUME NEW p \in Pages
    PROVE  /\ handleConnectionError(p) \in Pages
           /\ handleConnectionError(p).socket = p.socket
           /\ handleConnectionError(p).connectionState # "connected"
           /\ handleConnectionError(p).pendingCommand = p.pendingCommand
<1> DEFINE q == [p EXCEPT !.connectionState = "disconnected"]
<1>1. /\ q \in Pages /\ q.socket = p.socket
      /\ q.connectionState = "disconnected" /\ q.pendingCommand = p.pendingCommand
  BY DEF Pages
<1>2. handleConnectionError(p) = scheduleReconnect(q)
  BY DEF handleConnectionError
<1> HIDE DEF q
<1> QED BY <1>1, <1>2, ScheduleFacts

LEMMA CloseFacts ==
    ASSUME NEW p \in Pages, NEW clean \in BOOLEAN
    PROVE  /\ handleSocketClose(p, clean) \in Pages
           /\ handleSocketClose(p, clean).socket = p.socket
           /\ handleSocketClose(p, clean).connectionState # "connected"
<1> DEFINE d == [p EXCEPT !.connectionState = "disconnected"]
           q == clearAllTimers(d)
           r == IF q.reconnectAttempts > 0 THEN resetTerminal(q) ELSE q
<1>1. d \in Pages /\ d.socket = p.socket /\ d.connectionState = "disconnected"
  BY DEF Pages
<1>2. handleSocketClose(p, clean) = IF clean THEN q ELSE scheduleReconnect(r)
  BY DEF handleSocketClose
<1> HIDE DEF d
<1>3. q \in Pages /\ q.socket = p.socket /\ q.connectionState = "disconnected"
  BY <1>1, ClearFacts
<1> HIDE DEF q
<1>4. r \in Pages /\ r.socket = p.socket /\ r.connectionState = "disconnected"
  <2>1. /\ resetTerminal(q) \in Pages /\ resetTerminal(q).socket = q.socket
        /\ resetTerminal(q).connectionState = q.connectionState
    BY <1>3, ZenonT(60) DEF resetTerminal, Pages
  <2> QED BY <1>3, <2>1
<1> HIDE DEF r
<1> QED BY <1>2, <1>3, <1>4, ScheduleFacts

-----------------------------------------------------------------------------
(* Sockets are opened in order, and all but the last are closed.           *)
SocketsInOrder ==
    /\ \A s \in Sockets : Live(s) => s = page.socket
    /\ \A s \in Sockets : s > page.socket => rs[s] = "NEW"

PageInv == SocketsInOrder /\ ConnectedIffOpen /\ BufferFlushed

(* What a task of the page does to its socket and to its view of it. *)
Keeps ==
    /\ rs' = rs /\ page'.socket = page.socket
    /\ page'.connectionState = "connected" <=> page.connectionState = "connected"
    /\ page'.pendingCommand => page.pendingCommand \/ ~SocketIs({"OPEN"})

Opens ==
    /\ page.socket + 1 \in Sockets
    /\ ~SocketIs(ReadyStates \ {"CLOSED"})
    /\ rs' = [rs EXCEPT ![page.socket + 1] = "CONNECTING"]
    /\ page'.socket = page.socket + 1 /\ page'.connectionState = "connecting"

Connects ==
    /\ page.socket \in Sockets
    /\ rs' = [rs EXCEPT ![page.socket] = "OPEN"]
    /\ page'.socket = page.socket /\ page'.connectionState = "connected"
    /\ ~page'.pendingCommand

Closes ==
    /\ \E state \in {"CLOSING", "CLOSED"} : rs' = [rs EXCEPT ![page.socket] = state]
    /\ page'.socket = page.socket /\ page'.connectionState # "connected"

Move == Keeps \/ Opens \/ Connects \/ Closes

SocketsFact == Sockets \subseteq Nat /\ NoSocket \notin Sockets

LEMMA SocketsAreNumbers == SocketsFact
BY LinkAssumption DEF SocketsFact, Sockets, NoSocket

LEMMA MovePreserves ==
    ASSUME LinkTypeOK, PageTypeOK, LinkTypeOK', PageTypeOK', PageInv, Move
    PROVE  PageInv'
<1> USE SocketsAreNumbers DEF SocketsFact
<1>1. /\ rs \in [Sockets -> ReadyStates]
      /\ page.socket \in {NoSocket} \cup Sockets
      /\ page.socket \in Nat
  <2>1. rs \in [Sockets -> ReadyStates]
    BY DEF LinkTypeOK
  <2>2. page.socket \in {NoSocket} \cup Sockets
    BY DEF PageTypeOK, Pages
  <2>3. page.socket \in Nat
    BY <2>2, LinkAssumption DEF NoSocket, Sockets
  <2> QED BY <2>1, <2>2, <2>3
<1>2. CASE Keeps
  <2>1. /\ rs' = rs /\ page'.socket = page.socket
        /\ page'.connectionState = "connected" <=> page.connectionState = "connected"
        /\ page'.pendingCommand => page.pendingCommand \/ ~SocketIs({"OPEN"})
    BY <1>2 DEF Keeps
  <2>2. SocketIs({"OPEN"})' <=> SocketIs({"OPEN"})
    BY <2>1 DEF SocketIs
  <2>3. SocketsInOrder'
    BY <2>1, Zenon DEF PageInv, SocketsInOrder, Live
  <2>4. ConnectedIffOpen' /\ BufferFlushed'
    BY <2>1, <2>2, Zenon DEF PageInv, ConnectedIffOpen, BufferFlushed
  <2> QED BY <2>3, <2>4, Zenon DEF PageInv
<1>3. CASE Opens
  <2>1. \A s \in Sockets : ~Live(s)
    BY <1>1, <1>3 DEF Opens, PageInv, SocketsInOrder, Live, SocketIs, ReadyStates, NoSocket
  <2>2. /\ rs'[page.socket + 1] = "CONNECTING"
        /\ \A s \in Sockets \ {page.socket + 1} : rs'[s] = rs[s]
        /\ page'.socket = page.socket + 1 /\ page'.connectionState = "connecting"
    BY <1>1, <1>3 DEF Opens
  <2>3. SocketsInOrder'
    BY <1>1, <2>1, <2>2 DEF PageInv, SocketsInOrder, Live
  <2> QED BY <2>2, <2>3 DEF PageInv, ConnectedIffOpen, BufferFlushed, SocketIs
<1>4. CASE Connects
  <2>1. /\ rs'[page.socket] = "OPEN" /\ page.socket # NoSocket
        /\ \A s \in Sockets \ {page.socket} : rs'[s] = rs[s]
        /\ page'.socket = page.socket /\ page'.connectionState = "connected"
        /\ ~page'.pendingCommand
    BY <1>1, <1>4 DEF Connects
  <2>2. SocketsInOrder'
    BY <1>1, <2>1 DEF PageInv, SocketsInOrder, Live
  <2> QED BY <2>1, <2>2 DEF PageInv, ConnectedIffOpen, BufferFlushed, SocketIs
<1>5. CASE Closes
  <2>1. /\ page.socket \in Sockets => rs'[page.socket] \in {"CLOSING", "CLOSED"}
        /\ \A s \in Sockets \ {page.socket} : rs'[s] = rs[s]
        /\ page'.socket = page.socket /\ page'.connectionState # "connected"
    BY <1>1, <1>5 DEF Closes
  <2>2. SocketsInOrder'
    BY <1>1, <2>1 DEF PageInv, SocketsInOrder, Live
  <2> QED BY <1>1, <2>1, <2>2 DEF PageInv, ConnectedIffOpen, BufferFlushed, SocketIs
<1> QED BY <1>2, <1>3, <1>4, <1>5 DEF Move

LEMMA InitializeFacts ==
    ASSUME LinkTypeOK, PageTypeOK, NEW p \in Pages, p.socket = page.socket,
           p.connectionState = page.connectionState, p.pendingCommand = page.pendingCommand,
           initializeWebSocket(p)
    PROVE  page' \in Pages /\ rs' \in [Sockets -> ReadyStates] /\ (Keeps \/ Opens)
<1>1. CASE page' = p /\ UNCHANGED rs
  BY <1>1 DEF LinkTypeOK, Keeps
<1>2. CASE ~SocketIs(ReadyStates \ {"CLOSED"}) /\ OpenSocket(p)
  <2> DEFINE q == clearAllTimers(p)
  <2>1. q \in Pages /\ q.socket = page.socket
    BY ClearFacts
  <2>2. page' = [q EXCEPT !.connectionState = "connecting", !.socket = q.socket + 1,
                          !.connectionTimeoutId = TRUE]
    BY <1>2 DEF OpenSocket
  <2> HIDE DEF q
  <2>3. q.socket + 1 \in Sockets
    BY <1>2, <2>1 DEF OpenSocket
  <2>4. page' \in Pages /\ page'.socket = page.socket + 1 /\ page'.connectionState = "connecting"
    BY <2>1, <2>2, <2>3 DEF Pages
  <2>5. rs' \in [Sockets -> ReadyStates]
    BY <1>2 DEF OpenSocket, LinkTypeOK, ReadyStates
  <2> QED BY <1>2, <2>4, <2>5 DEF OpenSocket, Opens
<1> QED BY <1>1, <1>2 DEF initializeWebSocket

-----------------------------------------------------------------------------
(* Each task of the page is a move.                                        *)
LEMMA TimersMove ==
    ASSUME LinkTypeOK, PageTypeOK, Boot \/ Reconnect \/ StrayReconnect
    PROVE  LinkTypeOK' /\ PageTypeOK' /\ Move
<1>1. PICK p \in Pages : /\ p.socket = page.socket
                         /\ p.connectionState = page.connectionState
                         /\ p.pendingCommand = page.pendingCommand
                         /\ initializeWebSocket(p)
  <2>1. CASE Boot
    <3> DEFINE p == [page EXCEPT !.bootTimer = FALSE]
    <3>1. /\ p \in Pages /\ p.socket = page.socket
          /\ p.connectionState = page.connectionState
          /\ p.pendingCommand = page.pendingCommand
      BY DEF PageTypeOK, Pages
    <3>2. initializeWebSocket(p)
      BY <2>1 DEF Boot
    <3> QED BY <3>1, <3>2
  <2>2. CASE Reconnect
    <3> DEFINE n == page.reconnectAttempts + 1
               p == [page EXCEPT !.reconnectInterval = FALSE, !.reconnectAttempts = n]
    <3>1. initializeWebSocket(p)
      BY <2>2 DEF Reconnect
    <3>2. n \in Nat
      BY DEF PageTypeOK, Pages
    <3> HIDE DEF n
    <3>3. /\ p \in Pages /\ p.socket = page.socket
          /\ p.connectionState = page.connectionState
          /\ p.pendingCommand = page.pendingCommand
      BY <3>2 DEF PageTypeOK, Pages
    <3> QED BY <3>1, <3>3
  <2>3. CASE StrayReconnect
    <3> DEFINE k == page.strayTimers - 1
               n == page.reconnectAttempts + 1
               p == [page EXCEPT !.strayTimers = k, !.reconnectAttempts = n]
    <3>1. initializeWebSocket(p)
      BY <2>3 DEF StrayReconnect
    <3>2. k \in Nat /\ n \in Nat
      BY <2>3 DEF StrayReconnect, PageTypeOK, Pages
    <3> HIDE DEF k, n
    <3>3. /\ p \in Pages /\ p.socket = page.socket
          /\ p.connectionState = page.connectionState
          /\ p.pendingCommand = page.pendingCommand
      BY <3>2 DEF PageTypeOK, Pages
    <3> QED BY <3>1, <3>3
  <2> QED BY <2>1, <2>2, <2>3
<1>2. UNCHANGED <<ws, up, down, frozen, used>>
  BY DEF Boot, Reconnect, StrayReconnect
<1> QED BY <1>1, <1>2, InitializeFacts DEF LinkTypeOK, PageTypeOK, Move

LEMMA AbortTyped ==
    ASSUME LinkTypeOK, AbortHandshake
    PROVE  /\ rs' \in [Sockets -> ReadyStates]
           /\ up' \in [Sockets -> Seq(UpMessages)]
           /\ down' \in [Sockets -> Seq(DownMessages)]
<1>1. rs' \in [Sockets -> ReadyStates]
  BY DEF AbortHandshake, LinkTypeOK, ReadyStates
<1>2. up' \in [Sockets -> Seq(UpMessages)]
  <2>1. "close" \in UpMessages
    BY DEF UpMessages
  <2> QED BY <2>1, ToServerTyped DEF AbortHandshake
<1>3. down' \in [Sockets -> Seq(DownMessages)]
  <2>1. <<"fail">> \in Seq(DownMessages)
    BY DEF DownMessages, Ends
  <2> QED BY <2>1 DEF AbortHandshake, LinkTypeOK
<1> QED BY <1>1, <1>2, <1>3

LEMMA TimeoutsMove ==
    ASSUME LinkTypeOK, PageTypeOK, ConnectionTimeout \/ PingTimeout
    PROVE  LinkTypeOK' /\ PageTypeOK' /\ Move
<1>1. CASE ConnectionTimeout
  <2> DEFINE p == [page EXCEPT !.connectionTimeoutId = FALSE]
  <2>1. p \in Pages /\ p.socket = page.socket
    BY DEF PageTypeOK, Pages
  <2>2. page' = handleConnectionError(p)
    BY <1>1 DEF ConnectionTimeout
  <2> HIDE DEF p
  <2>3. /\ page' \in Pages /\ page'.socket = page.socket
        /\ page'.connectionState # "connected"
    BY <2>1, <2>2, ErrorFacts
  <2>4. Closes
    BY <1>1, <2>3 DEF ConnectionTimeout, AbortHandshake, Closes
  <2>5. used' \in [faults : Nat, commands : Nat, hides : Nat]
    BY <1>1, FaultTyped DEF ConnectionTimeout
  <2>6. LinkTypeOK'
    BY <1>1, <2>5, AbortTyped DEF ConnectionTimeout, LinkTypeOK
  <2> QED BY <2>3, <2>4, <2>6 DEF Move, PageTypeOK
<1>2. CASE PingTimeout
  <2> DEFINE n == page.heartbeatMissed + 1
  <2>0. n \in Nat
    BY DEF PageTypeOK, Pages
  <2>1. page' = [page EXCEPT !.pingTimeoutId = FALSE, !.heartbeatMissed = n]
    BY <1>2 DEF PingTimeout
  <2> HIDE DEF n
  <2>2. /\ page' \in Pages /\ page'.socket = page.socket
        /\ page'.connectionState = page.connectionState
        /\ page'.pendingCommand = page.pendingCommand
    BY <2>0, <2>1 DEF PageTypeOK, Pages
  <2>3. LinkTypeOK' /\ rs' = rs
    BY <1>2 DEF PingTimeout, linkVars, LinkTypeOK
  <2> QED BY <2>2, <2>3 DEF Move, Keeps, PageTypeOK
<1> QED BY <1>1, <1>2

LEMMA ReceivedFacts ==
    ASSUME PageTypeOK, NEW m \in DownMessages \ (Ends \cup {"accept"})
    PROVE  /\ Received(m) \in Pages
           /\ Received(m).socket = page.socket
           /\ Received(m).connectionState = page.connectionState
           /\ Received(m).pendingCommand = page.pendingCommand
<1>1. m \in {"pty-ready", "pty-exited", "unprocessable", "rejected", "pong"}
  BY DEF DownMessages
<1>2. CASE m = "pong"
  <2>1. Received(m) = [page EXCEPT !.heartbeatMissed = 0, !.pingTimeoutId = TRUE]
    BY <1>2 DEF Received
  <2> DEFINE q == [page EXCEPT !.heartbeatMissed = 0, !.pingTimeoutId = TRUE]
  <2>2. /\ q \in Pages /\ q.socket = page.socket
        /\ q.connectionState = page.connectionState
        /\ q.pendingCommand = page.pendingCommand
    BY DEF PageTypeOK, Pages
  <2> HIDE DEF q
  <2> QED BY <2>1, <2>2 DEF q
<1>3. CASE m = "pty-ready"
  <2>1. Received(m) = [page EXCEPT !.terminalActive = TRUE]
    BY <1>3 DEF Received
  <2> QED BY <2>1 DEF PageTypeOK, Pages
<1>4. CASE m = "unprocessable"
  <2>1. Received(m) = [page EXCEPT !.terminalActive = FALSE, !.message = "sorry"]
    BY <1>4 DEF Received
  <2> QED BY <2>1 DEF PageTypeOK, Pages
<1>5. CASE m \in {"pty-exited", "rejected"}
  <2>1. Received(m) = [page EXCEPT !.terminalActive = FALSE]
    BY <1>5 DEF Received
  <2> QED BY <2>1 DEF PageTypeOK, Pages
<1> QED BY <1>1, <1>2, <1>3, <1>4, <1>5

LEMMA ReceiveMoves ==
    ASSUME LinkTypeOK, PageTypeOK, PageInv, NEW s \in Sockets, PageReceive(s)
    PROVE  LinkTypeOK' /\ PageTypeOK' /\ Move
<1> DEFINE m == Head(down[s])
<1>1. s = page.socket
  BY DEF PageReceive, PageInv, SocketsInOrder
<1>2. m \in DownMessages /\ Tail(down[s]) \in Seq(DownMessages)
  BY DEF PageReceive, LinkTypeOK
<1>3. down' \in [Sockets -> Seq(DownMessages)]
  BY <1>2 DEF PageReceive, LinkTypeOK
<1>4. UNCHANGED <<ws, frozen, used>>
  BY DEF PageReceive
<1>5. SUFFICES /\ rs' \in [Sockets -> ReadyStates]
               /\ up' \in [Sockets -> Seq(UpMessages)]
               /\ page' \in Pages /\ Move
  BY <1>3, <1>4 DEF LinkTypeOK, PageTypeOK
<1>6. CASE m = "accept" /\ handleSocketOpen(s)
  <2>1. up' \in [Sockets -> Seq(UpMessages)]
    <3>1. "command" \in UpMessages
      BY DEF UpMessages
    <3> QED BY <1>6, <3>1, ToServerTyped DEF handleSocketOpen, LinkTypeOK
  <2>2. rs' = [rs EXCEPT ![s] = "OPEN"] /\ rs' \in [Sockets -> ReadyStates]
    BY <1>6 DEF handleSocketOpen, LinkTypeOK, ReadyStates
  <2>3. page' = [page EXCEPT !.connectionState = "connected", !.reconnectAttempts = 0,
                             !.heartbeatMissed = 0, !.connectionTimeoutId = FALSE,
                             !.pendingCommand = FALSE, !.pingTimeoutId = TRUE]
    BY <1>6 DEF handleSocketOpen
  <2>4. /\ page' \in Pages /\ page'.socket = page.socket
        /\ page'.connectionState = "connected" /\ page'.pendingCommand = FALSE
    BY <2>3 DEF PageTypeOK, Pages
  <2> QED BY <1>1, <2>1, <2>2, <2>4 DEF Move, Connects
<1>7. CASE m \in Ends /\ SocketEnds(s, m)
  <2> DEFINE p == IF m = "fail" THEN handleConnectionError(page) ELSE page
             clean == m = "clean"
  <2>1. p \in Pages /\ p.socket = page.socket
    BY ErrorFacts DEF PageTypeOK
  <2>2. page' = handleSocketClose(p, clean) /\ clean \in BOOLEAN
    BY <1>7 DEF SocketEnds
  <2> HIDE DEF p, clean
  <2>3. /\ page' \in Pages /\ page'.socket = page.socket
        /\ page'.connectionState # "connected"
    BY <2>1, <2>2, CloseFacts
  <2>4. /\ rs' = [rs EXCEPT ![page.socket] = "CLOSED"] /\ up' = up
        /\ rs' \in [Sockets -> ReadyStates]
    BY <1>1, <1>7 DEF SocketEnds, LinkTypeOK, ReadyStates
  <2> QED BY <2>3, <2>4 DEF Move, Closes, LinkTypeOK
<1>8. CASE m \notin Ends \cup {"accept"} /\ handleSocketMessage(m)
  BY <1>2, <1>8, ReceivedFacts DEF handleSocketMessage, LinkTypeOK, Move, Keeps
<1>9. CASE UNCHANGED <<page, rs, up>>
  BY <1>9 DEF LinkTypeOK, PageTypeOK, Move, Keeps
<1> QED BY <1>6, <1>7, <1>8, <1>9 DEF PageReceive

LEMMA SendTyped ==
    ASSUME LinkTypeOK, NEW m \in UpMessages
    PROVE  SendMessage(m) \in [Sockets -> Seq(UpMessages)]
BY ToServerTyped DEF SendMessage, LinkTypeOK

LEMMA CommandMoves ==
    ASSUME LinkTypeOK, PageTypeOK, PageInv, SendCommandWhenReady
    PROVE  LinkTypeOK' /\ PageTypeOK' /\ Move
<1>1. used' \in [faults : Nat, commands : Nat, hides : Nat]
  <2> DEFINE n == used.commands + 1
  <2>1. used' = [used EXCEPT !.commands = n] /\ n \in Nat
    BY DEF SendCommandWhenReady, LinkTypeOK
  <2> HIDE DEF n
  <2> QED BY <2>1 DEF LinkTypeOK
<1>2. UNCHANGED <<rs, ws, down, frozen>>
  BY DEF SendCommandWhenReady
<1>3. CASE page.connectionState = "connected" /\ SocketIs({"OPEN"})
  <2>1. up' = SendMessage("command") /\ UNCHANGED page
    BY <1>3 DEF SendCommandWhenReady
  <2>2. "command" \in UpMessages
    BY DEF UpMessages
  <2>3. up' \in [Sockets -> Seq(UpMessages)]
    BY <2>1, <2>2, SendTyped
  <2> QED BY <1>1, <1>2, <2>1, <2>3 DEF LinkTypeOK, PageTypeOK, Move, Keeps
<1>4. CASE ~(page.connectionState = "connected" /\ SocketIs({"OPEN"}))
  <2>1. page' = [page EXCEPT !.pendingCommand = TRUE] /\ UNCHANGED up
    BY <1>4 DEF SendCommandWhenReady
  <2>2. /\ page' \in Pages /\ page'.socket = page.socket
        /\ page'.connectionState = page.connectionState
    BY <2>1 DEF PageTypeOK, Pages
  <2>3. ~SocketIs({"OPEN"})
    BY <1>4 DEF PageInv, ConnectedIffOpen
  <2> QED BY <1>1, <1>2, <2>1, <2>2, <2>3 DEF LinkTypeOK, PageTypeOK, Move, Keeps
<1> QED BY <1>3, <1>4

LEMMA HideMoves ==
    ASSUME LinkTypeOK, PageTypeOK, Hide
    PROVE  LinkTypeOK' /\ PageTypeOK' /\ Move
<1>1. used' \in [faults : Nat, commands : Nat, hides : Nat]
  <2> DEFINE n == used.hides + 1
  <2>1. used' = [used EXCEPT !.hides = n] /\ n \in Nat
    BY DEF Hide, LinkTypeOK
  <2> HIDE DEF n
  <2> QED BY <2>1 DEF LinkTypeOK
<1> DEFINE was == page.connectionState = "connected"
<1>2. /\ UNCHANGED <<rs, ws, up, down, frozen>>
      /\ page' = [page EXCEPT !.isDocumentVisible = FALSE,
                              !.wasConnectedBeforeHidden = was,
                              !.pingTimeoutId = FALSE]
  BY DEF Hide
<1>3. was \in BOOLEAN
  OBVIOUS
<1> HIDE DEF was
<1>4. /\ page' \in Pages /\ page'.socket = page.socket
      /\ page'.connectionState = page.connectionState
      /\ page'.pendingCommand = page.pendingCommand
  BY <1>2, <1>3, ZenonT(60) DEF PageTypeOK, Pages
<1> QED BY <1>1, <1>2, <1>4 DEF LinkTypeOK, PageTypeOK, Move, Keeps

LEMMA ShowMoves ==
    ASSUME LinkTypeOK, PageTypeOK, Show
    PROVE  LinkTypeOK' /\ PageTypeOK' /\ Move
<1> DEFINE p == [page EXCEPT !.isDocumentVisible = TRUE]
<1>1. /\ p \in Pages /\ p.socket = page.socket
      /\ p.connectionState = page.connectionState
      /\ p.pendingCommand = page.pendingCommand
  BY DEF PageTypeOK, Pages
<1>2. UNCHANGED <<ws, down, frozen, used>>
  BY DEF Show
<1>3. \/ /\ up' = SendMessage("ping") /\ UNCHANGED rs
         /\ page' = [p EXCEPT !.heartbeatMissed = 0, !.pingTimeoutId = TRUE]
      \/ initializeWebSocket([p EXCEPT !.reconnectAttempts = 0]) /\ UNCHANGED up
      \/ page' = p /\ UNCHANGED <<rs, up>>
  BY DEF Show
<1> HIDE DEF p
<1>4. CASE /\ up' = SendMessage("ping") /\ UNCHANGED rs
           /\ page' = [p EXCEPT !.heartbeatMissed = 0, !.pingTimeoutId = TRUE]
  <2>1. up' \in [Sockets -> Seq(UpMessages)]
    <3>1. "ping" \in UpMessages
      BY DEF UpMessages
    <3> QED BY <1>4, <3>1, SendTyped
  <2>2. /\ page' \in Pages /\ page'.socket = page.socket
        /\ page'.connectionState = page.connectionState
        /\ page'.pendingCommand = page.pendingCommand
    BY <1>1, <1>4 DEF Pages
  <2> QED BY <1>2, <1>4, <2>1, <2>2 DEF LinkTypeOK, PageTypeOK, Move, Keeps
<1>5. CASE initializeWebSocket([p EXCEPT !.reconnectAttempts = 0]) /\ UNCHANGED up
  <2> DEFINE q == [p EXCEPT !.reconnectAttempts = 0]
  <2>1. /\ q \in Pages /\ q.socket = page.socket
        /\ q.connectionState = page.connectionState
        /\ q.pendingCommand = page.pendingCommand
    BY <1>1 DEF Pages
  <2>2. initializeWebSocket(q)
    BY <1>5
  <2> HIDE DEF q
  <2> QED BY <1>2, <1>5, <2>1, <2>2, InitializeFacts DEF LinkTypeOK, PageTypeOK, Move
<1>6. CASE page' = p /\ UNCHANGED <<rs, up>>
  BY <1>1, <1>2, <1>6 DEF LinkTypeOK, PageTypeOK, Move, Keeps
<1> QED BY <1>3, <1>4, <1>5, <1>6

LEMMA CleanupMoves ==
    ASSUME LinkTypeOK, PageTypeOK, PageInv, Cleanup
    PROVE  LinkTypeOK' /\ PageTypeOK' /\ Move
<1> DEFINE q == clearAllTimers(page)
<1>1. q \in Pages /\ q.socket = page.socket
  BY ClearFacts DEF PageTypeOK
<1>2. page' = [q EXCEPT !.connectionState = "disconnected",
                        !.pendingCommand = FALSE, !.gone = TRUE]
  BY DEF Cleanup
<1> HIDE DEF q
<1>3. /\ page' \in Pages /\ page'.socket = page.socket
      /\ page'.connectionState = "disconnected" /\ page'.pendingCommand = FALSE
  BY <1>1, <1>2 DEF Pages
<1>4. UNCHANGED <<ws, frozen, used>>
  BY DEF Cleanup
<1>5. CASE AbortHandshake
  <2>1. Closes
    BY <1>3, <1>5 DEF AbortHandshake, Closes
  <2> QED BY <1>3, <1>4, <1>5, <2>1, AbortTyped DEF LinkTypeOK, PageTypeOK, Move
<1>6. CASE /\ SocketIs({"OPEN"})
           /\ rs' = [rs EXCEPT ![page.socket] = "CLOSING"]
           /\ up' = IF ws[page.socket] = "closed" \/ EndsWith(up[page.socket], {"close"}) THEN up
                    ELSE [up EXCEPT ![page.socket] = @ \o <<"checkActive", "close">>]
           /\ UNCHANGED down
  <2>1. page.socket \in Sockets
    BY <1>6 DEF SocketIs, PageTypeOK, Pages
  <2>2. up[page.socket] \o <<"checkActive", "close">> \in Seq(UpMessages)
    <3>1. up[page.socket] \in Seq(UpMessages)
      BY <2>1 DEF LinkTypeOK
    <3>2. <<"checkActive", "close">> \in Seq(UpMessages)
      BY DEF UpMessages
    <3> QED BY <3>1, <3>2
  <2>3. up' \in [Sockets -> Seq(UpMessages)]
    BY <1>6, <2>2 DEF LinkTypeOK
  <2>4. rs' \in [Sockets -> ReadyStates]
    BY <1>6 DEF LinkTypeOK, ReadyStates
  <2> QED BY <1>3, <1>4, <1>6, <2>3, <2>4 DEF LinkTypeOK, PageTypeOK, Move, Closes
<1>7. CASE ~SocketIs({"CONNECTING", "OPEN"}) /\ UNCHANGED <<rs, up, down>>
  <2>1. page.connectionState # "connected"
    BY <1>7 DEF PageInv, ConnectedIffOpen, SocketIs
  <2> QED BY <1>3, <1>4, <1>7, <2>1 DEF LinkTypeOK, PageTypeOK, Move, Keeps
<1> QED BY <1>5, <1>6, <1>7 DEF Cleanup

LEMMA PageMoves ==
    ASSUME LinkTypeOK, PageTypeOK, PageInv, PageStep \/ UserStep
    PROVE  LinkTypeOK' /\ PageTypeOK' /\ Move
BY TimersMove, TimeoutsMove, ReceiveMoves, CommandMoves, HideMoves, ShowMoves, CleanupMoves
   DEF PageStep, UserStep

-----------------------------------------------------------------------------
(* A session that is not served has nothing yet, and one of a socket that  *)
(* does not exist has not begun.                                           *)
Young == {"none", "fetching"}
Pristine(session) == session.phase \in Young => session = Session(session.phase)

(* The converse of ActiveIsAlive: nothing runs that its session forgot.    *)
AliveIsActive ==
    \A p \in DOMAIN ptys : ptys[p].alive =>
        srv[ptys[p].owner].isActive /\ srv[ptys[p].owner].ptyProcess = p

SessionInv ==
    /\ \A s \in Sockets : Pristine(srv[s])
    /\ \A s \in Sockets : rs[s] = "NEW" => srv[s].phase = "none"
    /\ ActiveIsAlive /\ AliveIsActive

(* What a task of the server does to a session and its PTY. *)
SameProcesses ==
    /\ ptys' \in Seq(Processes) /\ Len(ptys') = Len(ptys)
    /\ \A p \in DOMAIN ptys : /\ ptys'[p].owner = ptys[p].owner
                              /\ ptys'[p].alive <=> ptys[p].alive

Alike(s, session) ==
    /\ session \in UserSessions
    /\ session.isActive <=> srv[s].isActive
    /\ session.ptyProcess = srv[s].ptyProcess

Adjusts(s) ==
    \E session : /\ Alike(s, session) /\ Pristine(session)
                 /\ rs[s] = "NEW" => session.phase = "none"
                 /\ srv' = [srv EXCEPT ![s] = session]
                 /\ SameProcesses

Spawns(s) ==
    \E session \in UserSessions :
        /\ ~srv[s].isActive /\ srv[s].phase \notin Young /\ session.phase = srv[s].phase
        /\ session.isActive /\ session.ptyProcess = Len(ptys) + 1
        /\ srv' = [srv EXCEPT ![s] = session]
        /\ ptys' = Append(ptys, [owner |-> s, alive |-> TRUE, timer |-> TRUE])

Exits(p) ==
    /\ ptys[p].alive
    /\ ptys' = [ptys EXCEPT ![p].alive = FALSE]
    /\ srv' = [srv EXCEPT ![ptys[p].owner].isActive = FALSE]

Restarts ==
    /\ srv' = [s \in Sockets |-> IF rs[s] = "NEW" THEN srv[s] ELSE Session("over")]
    /\ ptys' = [p \in DOMAIN ptys |-> [ptys[p] EXCEPT !.alive = FALSE, !.timer = FALSE]]

LEMMA SessionTyped ==
    ASSUME NEW phase \in Phases
    PROVE  /\ Session(phase) \in UserSessions /\ Session(phase).phase = phase
           /\ ~Session(phase).isActive /\ Session(phase).ptyProcess = NoPty
           /\ ~Session(phase).registered /\ Session(phase).loops = <<>>
<1>1. <<>> \in Seq(Loops)
  OBVIOUS
<1> QED BY <1>1 DEF Session, UserSessions, NoPty

LEMMA AdjustsKeeps ==
    ASSUME LinkTypeOK, ServerTypeOK, SessionInv, NEW s \in Sockets, Adjusts(s),
           \A t \in Sockets : rs'[t] = rs[t]
    PROVE  ServerTypeOK' /\ SessionInv'
<1>1. PICK session : /\ Alike(s, session) /\ Pristine(session)
                     /\ rs[s] = "NEW" => session.phase = "none"
                     /\ srv' = [srv EXCEPT ![s] = session]
                     /\ SameProcesses
  BY DEF Adjusts
<1>2. /\ srv' \in [Sockets -> UserSessions]
      /\ srv'[s] = session /\ \A t \in Sockets \ {s} : srv'[t] = srv[t]
  BY <1>1 DEF ServerTypeOK, Alike
<1>3. \A t \in Sockets : /\ srv'[t].ptyProcess = srv[t].ptyProcess
                         /\ srv'[t].isActive <=> srv[t].isActive
  BY <1>1, <1>2 DEF Alike
<1>4. ptys \in Seq(Processes) /\ DOMAIN ptys = 1 .. Len(ptys) /\ DOMAIN ptys' = DOMAIN ptys
  BY <1>1 DEF ServerTypeOK, SameProcesses
<1>5. ServerTypeOK'
  BY <1>1, <1>2, <1>3 DEF ServerTypeOK, SameProcesses
<1>6. \A t \in Sockets : Pristine(srv'[t]) /\ (rs'[t] = "NEW" => srv'[t].phase = "none")
  BY <1>1, <1>2 DEF SessionInv
<1>7. ActiveIsAlive'
  <2> SUFFICES ASSUME NEW t \in Sockets, srv'[t].isActive
               PROVE  /\ srv'[t].ptyProcess # NoPty
                      /\ ptys'[srv'[t].ptyProcess].alive
                      /\ ptys'[srv'[t].ptyProcess].owner = t
    BY DEF ActiveIsAlive
  <2>1. /\ srv[t].ptyProcess # NoPty
        /\ ptys[srv[t].ptyProcess].alive /\ ptys[srv[t].ptyProcess].owner = t
    BY <1>3 DEF SessionInv, ActiveIsAlive
  <2>2. srv[t].ptyProcess \in DOMAIN ptys
    BY <1>4, <2>1 DEF ServerTypeOK, NoPty
  <2> QED BY <1>1, <1>3, <2>1, <2>2 DEF SameProcesses
<1>8. AliveIsActive'
  <2> SUFFICES ASSUME NEW p \in DOMAIN ptys, ptys'[p].alive
               PROVE  srv'[ptys'[p].owner].isActive /\ srv'[ptys'[p].owner].ptyProcess = p
    BY <1>4 DEF AliveIsActive
  <2>1. ptys[p].alive /\ ptys'[p].owner = ptys[p].owner
    BY <1>1 DEF SameProcesses
  <2>2. ptys[p].owner \in Sockets
    <3>1. ptys[p] \in Processes
      BY <1>4
    <3> QED BY <3>1 DEF Processes
  <2> QED BY <1>3, <2>1, <2>2 DEF SessionInv, AliveIsActive
<1> QED BY <1>5, <1>6, <1>7, <1>8 DEF SessionInv, Pristine

LEMMA SpawnsKeeps ==
    ASSUME LinkTypeOK, ServerTypeOK, SessionInv, NEW s \in Sockets, Spawns(s),
           \A t \in Sockets : rs'[t] = rs[t]
    PROVE  ServerTypeOK' /\ SessionInv'
<1>1. PICK session \in UserSessions :
        /\ ~srv[s].isActive /\ srv[s].phase \notin Young /\ session.phase = srv[s].phase
        /\ session.isActive /\ session.ptyProcess = Len(ptys) + 1
        /\ srv' = [srv EXCEPT ![s] = session]
        /\ ptys' = Append(ptys, [owner |-> s, alive |-> TRUE, timer |-> TRUE])
  BY DEF Spawns
<1>2. /\ srv' \in [Sockets -> UserSessions]
      /\ srv'[s] = session /\ \A t \in Sockets \ {s} : srv'[t] = srv[t]
  BY <1>1 DEF ServerTypeOK
<1> DEFINE new == [owner |-> s, alive |-> TRUE, timer |-> TRUE]
<1>3. new \in Processes /\ new.owner = s /\ new.alive
  BY DEF Processes
<1>4. ptys' = Append(ptys, new)
  BY <1>1
<1> HIDE DEF new
<1>5. /\ ptys \in Seq(Processes) /\ ptys' \in Seq(Processes)
      /\ Len(ptys) \in Nat /\ Len(ptys') = Len(ptys) + 1
      /\ DOMAIN ptys = 1 .. Len(ptys) /\ DOMAIN ptys' = 1 .. Len(ptys) + 1
      /\ ptys'[Len(ptys) + 1] = new
      /\ \A p \in 1 .. Len(ptys) : ptys'[p] = ptys[p]
  BY <1>3, <1>4 DEF ServerTypeOK
<1>6. ServerTypeOK'
  BY <1>1, <1>2, <1>5 DEF ServerTypeOK
<1>7. \A t \in Sockets : Pristine(srv'[t]) /\ (rs'[t] = "NEW" => srv'[t].phase = "none")
  BY <1>1, <1>2 DEF SessionInv, Pristine, Young
<1>8. ActiveIsAlive'
  <2> SUFFICES ASSUME NEW t \in Sockets, srv'[t].isActive
               PROVE  /\ srv'[t].ptyProcess # NoPty
                      /\ ptys'[srv'[t].ptyProcess].alive
                      /\ ptys'[srv'[t].ptyProcess].owner = t
    BY DEF ActiveIsAlive
  <2>1. CASE t = s
    BY <1>1, <1>2, <1>3, <1>5, <2>1 DEF NoPty
  <2>2. CASE t # s
    <3>1. srv'[t] = srv[t]
      BY <1>2, <2>2
    <3>2. /\ srv[t].ptyProcess # NoPty
          /\ ptys[srv[t].ptyProcess].alive /\ ptys[srv[t].ptyProcess].owner = t
      BY <3>1 DEF SessionInv, ActiveIsAlive
    <3>3. srv[t].ptyProcess \in 1 .. Len(ptys)
      BY <3>2 DEF ServerTypeOK, NoPty
    <3>4. ptys'[srv[t].ptyProcess] = ptys[srv[t].ptyProcess]
      BY <1>5, <3>3
    <3> QED BY <3>1, <3>2, <3>4
  <2> QED BY <2>1, <2>2
<1>9. AliveIsActive'
  <2> SUFFICES ASSUME NEW p \in DOMAIN ptys', ptys'[p].alive
               PROVE  srv'[ptys'[p].owner].isActive /\ srv'[ptys'[p].owner].ptyProcess = p
    BY DEF AliveIsActive
  <2>1. CASE p = Len(ptys) + 1
    <3>1. ptys'[p].owner = s
      BY <1>3, <1>5, <2>1
    <3>2. srv'[s].isActive /\ srv'[s].ptyProcess = p
      BY <1>1, <1>2, <2>1
    <3> QED BY <3>1, <3>2
  <2>2. CASE p # Len(ptys) + 1
    <3>1. p \in DOMAIN ptys /\ ptys'[p] = ptys[p] /\ ptys[p].owner \in Sockets
      <4>1. p \in 1 .. Len(ptys)
        BY <1>5, <2>2
      <4>2. ptys[p] \in Processes
        BY <1>5, <4>1
      <4> QED BY <1>5, <4>1, <4>2 DEF Processes
    <3>2. srv[ptys[p].owner].isActive /\ srv[ptys[p].owner].ptyProcess = p
      BY <3>1 DEF SessionInv, AliveIsActive
    <3>3. ptys[p].owner # s
      BY <1>1, <3>2
    <3> QED BY <1>2, <3>1, <3>2, <3>3
  <2> QED BY <2>1, <2>2
<1> QED BY <1>6, <1>7, <1>8, <1>9 DEF SessionInv, Pristine

LEMMA ExitsKeeps ==
    ASSUME LinkTypeOK, ServerTypeOK, SessionInv, NEW p \in DOMAIN ptys, Exits(p),
           \A t \in Sockets : rs'[t] = rs[t]
    PROVE  ServerTypeOK' /\ SessionInv'
<1> DEFINE s == ptys[p].owner
<1>1. /\ ptys \in Seq(Processes) /\ Len(ptys) \in Nat /\ DOMAIN ptys = 1 .. Len(ptys)
      /\ \A q \in DOMAIN ptys : ptys[q] \in Processes
  BY DEF ServerTypeOK
<1>2. /\ s \in Sockets
      /\ [ptys[p] EXCEPT !.alive = FALSE] \in Processes
      /\ [ptys[p] EXCEPT !.alive = FALSE].owner = s
      /\ ~[ptys[p] EXCEPT !.alive = FALSE].alive
  BY <1>1 DEF Processes
<1>3. srv[s].isActive /\ srv[s].ptyProcess = p
  BY DEF Exits, SessionInv, AliveIsActive
<1> DEFINE session == [srv[s] EXCEPT !.isActive = FALSE]
<1>4. /\ session \in UserSessions /\ ~session.isActive
      /\ session.ptyProcess = srv[s].ptyProcess /\ session.phase = srv[s].phase
  BY <1>2 DEF ServerTypeOK, UserSessions
<1>5. /\ ptys' = [ptys EXCEPT ![p] = [ptys[p] EXCEPT !.alive = FALSE]]
      /\ srv' = [srv EXCEPT ![s] = session]
  BY DEF Exits
<1> HIDE DEF s, session
<1>6. /\ ptys' \in Seq(Processes) /\ Len(ptys') = Len(ptys) /\ DOMAIN ptys' = DOMAIN ptys
      /\ ptys'[p].owner = s /\ ~ptys'[p].alive
      /\ \A q \in DOMAIN ptys \ {p} : ptys'[q] = ptys[q]
  BY <1>1, <1>2, <1>5
<1>7. /\ srv' \in [Sockets -> UserSessions]
      /\ srv'[s] = session /\ \A t \in Sockets \ {s} : srv'[t] = srv[t]
  BY <1>2, <1>4, <1>5 DEF ServerTypeOK
<1>8. ServerTypeOK'
  BY <1>4, <1>6, <1>7 DEF ServerTypeOK
<1>9. srv[s].phase \notin Young
  <2> SUFFICES ASSUME srv[s].phase \in Young PROVE FALSE
    OBVIOUS
  <2>1. srv[s] = Session(srv[s].phase)
    BY <1>2 DEF SessionInv, Pristine
  <2>2. srv[s].phase \in Phases
    BY DEF Young, Phases
  <2> QED BY <1>3, <2>1, <2>2, SessionTyped
<1>10. \A t \in Sockets : Pristine(srv'[t]) /\ (rs'[t] = "NEW" => srv'[t].phase = "none")
  BY <1>4, <1>7, <1>9 DEF SessionInv, Pristine
<1>11. ActiveIsAlive'
  <2> SUFFICES ASSUME NEW t \in Sockets, srv'[t].isActive
               PROVE  /\ srv'[t].ptyProcess # NoPty
                      /\ ptys'[srv'[t].ptyProcess].alive
                      /\ ptys'[srv'[t].ptyProcess].owner = t
    BY DEF ActiveIsAlive
  <2>1. t # s /\ srv'[t] = srv[t]
    BY <1>4, <1>7
  <2>2. /\ srv[t].ptyProcess # NoPty
        /\ ptys[srv[t].ptyProcess].alive /\ ptys[srv[t].ptyProcess].owner = t
    BY <2>1 DEF SessionInv, ActiveIsAlive
  <2>3. srv[t].ptyProcess \in DOMAIN ptys /\ srv[t].ptyProcess # p
    BY <1>1, <2>1, <2>2 DEF ServerTypeOK, NoPty, s
  <2> QED BY <1>6, <2>1, <2>2, <2>3
<1>12. AliveIsActive'
  <2> SUFFICES ASSUME NEW q \in DOMAIN ptys, ptys'[q].alive
               PROVE  srv'[ptys'[q].owner].isActive /\ srv'[ptys'[q].owner].ptyProcess = q
    BY <1>6 DEF AliveIsActive
  <2>1. q # p /\ ptys'[q] = ptys[q]
    BY <1>6
  <2>2. srv[ptys[q].owner].isActive /\ srv[ptys[q].owner].ptyProcess = q
    BY <2>1 DEF SessionInv, AliveIsActive
  <2>3. ptys[q].owner # s
    BY <1>3, <2>1, <2>2
  <2>4. ptys[q].owner \in Sockets
    BY <1>1 DEF Processes
  <2> QED BY <1>7, <2>1, <2>2, <2>3, <2>4
<1> QED BY <1>8, <1>10, <1>11, <1>12 DEF SessionInv, Pristine

LEMMA RestartsKeeps ==
    ASSUME LinkTypeOK, ServerTypeOK, SessionInv, Restarts,
           \A t \in Sockets : rs'[t] = rs[t]
    PROVE  ServerTypeOK' /\ SessionInv'
<1>1. /\ ptys \in Seq(Processes) /\ Len(ptys) \in Nat /\ DOMAIN ptys = 1 .. Len(ptys)
      /\ \A q \in DOMAIN ptys : ptys[q] \in Processes
  BY DEF ServerTypeOK
<1>2. \A q \in DOMAIN ptys :
        /\ [ptys[q] EXCEPT !.alive = FALSE, !.timer = FALSE] \in Processes
        /\ ~[ptys[q] EXCEPT !.alive = FALSE, !.timer = FALSE].alive
  BY <1>1 DEF Processes
<1>3. /\ ptys' \in Seq(Processes) /\ Len(ptys') = Len(ptys) /\ DOMAIN ptys' = DOMAIN ptys
      /\ \A q \in DOMAIN ptys : ~ptys'[q].alive
  <2> DEFINE Ended(q) == [ptys[q] EXCEPT !.alive = FALSE, !.timer = FALSE]
  <2>1. ptys' = [q \in 1 .. Len(ptys) |-> Ended(q)]
    BY <1>1 DEF Restarts
  <2>2. \A q \in 1 .. Len(ptys) : Ended(q) \in Processes /\ ~Ended(q).alive
    BY <1>1, <1>2
  <2> HIDE DEF Ended
  <2>3. ptys' \in [1 .. Len(ptys) -> Processes]
    BY <2>1, <2>2
  <2>4. ptys' \in Seq(Processes) /\ DOMAIN ptys' = 1 .. Len(ptys)
    BY <1>1, <2>3
  <2>5. Len(ptys') = Len(ptys)
    BY <1>1, <2>4
  <2> QED BY <1>1, <2>1, <2>2, <2>4, <2>5
<1>4. Session("over") \in UserSessions /\ ~Session("over").isActive
      /\ Session("over").phase = "over" /\ Session("over").ptyProcess = NoPty
  BY SessionTyped DEF Phases
<1>5. \A t \in Sockets : rs[t] = "NEW" => ~srv[t].isActive
  <2> SUFFICES ASSUME NEW t \in Sockets, rs[t] = "NEW" PROVE ~srv[t].isActive
    OBVIOUS
  <2>1. srv[t] = Session("none")
    BY DEF SessionInv, Pristine, Young
  <2> QED BY <2>1, SessionTyped DEF Phases
<1>6. \A t \in Sockets : srv'[t] = IF rs[t] = "NEW" THEN srv[t] ELSE Session("over")
  BY DEF Restarts
<1>7. srv' \in [Sockets -> UserSessions]
  BY <1>4 DEF Restarts, ServerTypeOK
<1>8. ServerTypeOK'
  BY <1>1, <1>3, <1>4, <1>6, <1>7 DEF ServerTypeOK, NoPty
<1>9. \A t \in Sockets : Pristine(srv'[t]) /\ (rs'[t] = "NEW" => srv'[t].phase = "none")
  BY <1>4, <1>6 DEF SessionInv, Pristine, Young
<1>10. ActiveIsAlive' /\ AliveIsActive'
  BY <1>3, <1>4, <1>5, <1>6 DEF ActiveIsAlive, AliveIsActive
<1> QED BY <1>8, <1>9, <1>10 DEF SessionInv, Pristine

-----------------------------------------------------------------------------
(* The server's helpers. *)
Callers == {"command", "close", "nobody"}

(* A session after a helper that touches only its loops and registration. *)
SameRun(old, new) ==
    /\ new \in UserSessions /\ new.phase = old.phase
    /\ new.isActive <=> old.isActive
    /\ new.ptyProcess = old.ptyProcess

LEMMA KillFacts ==
    ASSUME NEW session \in UserSessions, NEW caller \in Callers
    PROVE  SameRun(session, Kill(session, caller))
<1> DEFINE queue == Append(session.loops, [awaitedBy |-> caller, killAttempts |-> 1])
<1>1. Kill(session, caller) = [session EXCEPT !.loops = queue]
  BY DEF Kill
<1>2. queue \in Seq(Loops)
  <2>1. [awaitedBy |-> caller, killAttempts |-> 1] \in Loops
    BY KillsAssumption DEF Loops, Callers
  <2>2. session.loops \in Seq(Loops)
    BY DEF UserSessions
  <2> QED BY <2>1, <2>2
<1> HIDE DEF queue
<1> QED BY <1>1, <1>2 DEF SameRun, UserSessions

LEMMA KillForFacts ==
    ASSUME NEW session \in UserSessions, NEW caller \in Callers
    PROVE  /\ SameRun(session, KillFor(session, caller))
           /\ caller = "nobody" /\ ~session.registered => KillFor(session, caller) = session
<1>1. CASE CanKill(session)
  BY <1>1, KillFacts DEF KillFor, CanKill
<1>2. CASE ~CanKill(session) /\ caller = "close"
  <2>1. KillFor(session, caller) = [session EXCEPT !.registered = FALSE]
    BY <1>2 DEF KillFor
  <2> QED BY <1>2, <2>1 DEF SameRun, UserSessions
<1>3. CASE ~CanKill(session) /\ caller # "close"
  <2>1. KillFor(session, caller) = session
    BY <1>3 DEF KillFor
  <2> QED BY <2>1 DEF SameRun
<1> QED BY <1>1, <1>2, <1>3

LEMMA RestFacts ==
    ASSUME NEW session \in UserSessions, session.loops # <<>>
    PROVE  /\ SameRun(session, [session EXCEPT !.loops = Tail(@)])
           /\ Head(session.loops).awaitedBy \in Callers
<1>1. session.loops \in Seq(Loops)
  BY DEF UserSessions
<1>2. Tail(session.loops) \in Seq(Loops) /\ Head(session.loops) \in Loops
  BY <1>1
<1> DEFINE queue == Tail(session.loops)
<1> HIDE DEF queue
<1>3. SameRun(session, [session EXCEPT !.loops = queue])
  BY <1>2 DEF SameRun, UserSessions, queue
<1> QED BY <1>2, <1>3 DEF Loops, Callers, queue

LEMMA AttemptFacts ==
    ASSUME NEW session \in UserSessions, session.loops # <<>>,
           MoreAttempts(Head(session.loops))
    PROVE  SameRun(session, AttemptKill(session))
<1>1. session.loops \in Seq(Loops)
  BY DEF UserSessions
<1>2. Tail(session.loops) \in Seq(Loops) /\ Head(session.loops) \in Loops
  BY <1>1
<1> DEFINE n == Head(session.loops).killAttempts + 1
           loop == [Head(session.loops) EXCEPT !.killAttempts = n]
           queue == Append(Tail(session.loops), loop)
<1>3. AttemptKill(session) = [session EXCEPT !.loops = queue]
  BY DEF AttemptKill
<1>4. n \in 1 .. MaxKills
  BY <1>2, KillsAssumption DEF MoreAttempts, Loops
<1> HIDE DEF n
<1>5. loop \in Loops
  BY <1>2, <1>4 DEF Loops
<1> HIDE DEF loop
<1>6. queue \in Seq(Loops)
  BY <1>2, <1>5
<1> HIDE DEF queue
<1> QED BY <1>3, <1>6 DEF SameRun, UserSessions

-----------------------------------------------------------------------------
(* Each task of the server, and what it puts on the link. *)
LEMMA RunAdjusts ==
    ASSUME ServerTypeOK, SessionInv, NEW s \in Sockets, NEW session,
           SameRun(srv[s], session), srv[s].phase \notin Young,
           srv' = [srv EXCEPT ![s] = session], SameProcesses
    PROVE  Adjusts(s)
<1>1. Alike(s, session)
  BY DEF SameRun, Alike
<1>2. Pristine(session)
  BY DEF SameRun, Pristine
<1>3. rs[s] # "NEW"
  BY DEF SessionInv, Young
<1> QED BY <1>1, <1>2, <1>3 DEF Adjusts

LEMMA ProcessesStay ==
    ASSUME ServerTypeOK, UNCHANGED ptys PROVE SameProcesses
BY DEF ServerTypeOK, SameProcesses

LEMMA RunCommandFacts ==
    ASSUME LinkTypeOK, ServerTypeOK, SessionInv, NEW s \in Sockets, NEW session,
           SameRun(srv[s], session), srv[s].phase \notin Young, ~srv[s].isActive,
           RunCommand(s, session)
    PROVE  /\ Adjusts(s) \/ Spawns(s)
           /\ down' \in [Sockets -> Seq(DownMessages)]
<1>1. CASE Spawn(s, session)
  <2> DEFINE n == Len(ptys) + 1
             new == [session EXCEPT !.ptyProcess = n, !.isActive = TRUE]
  <2>1. srv' = [srv EXCEPT ![s] = new]
    BY <1>1 DEF Spawn
  <2>2. n \in Nat
    BY DEF ServerTypeOK
  <2>3. ptys' = Append(ptys, [owner |-> s, alive |-> TRUE, timer |-> TRUE])
    BY <1>1 DEF Spawn
  <2>4. n = Len(ptys) + 1
    OBVIOUS
  <2> HIDE DEF n
  <2>5. /\ new \in UserSessions /\ new.phase = srv[s].phase
        /\ new.isActive /\ new.ptyProcess = n
    BY <2>2 DEF SameRun, UserSessions
  <2> HIDE DEF new
  <2>6. Spawns(s)
    BY <2>1, <2>3, <2>4, <2>5 DEF Spawns
  <2>7. "pty-ready" \in DownMessages
    BY DEF DownMessages
  <2> QED BY <1>1, <2>6, <2>7, ToPageTyped DEF Spawn
<1>2. CASE Reject(s, session)
  <2>1. srv' = [srv EXCEPT ![s] = session] /\ UNCHANGED ptys /\ down' = ToPage(s, "rejected")
    BY <1>2 DEF Reject
  <2>2. "rejected" \in DownMessages
    BY DEF DownMessages
  <2> QED BY <2>1, <2>2, ToPageTyped, RunAdjusts, ProcessesStay
<1> QED BY <1>1, <1>2 DEF RunCommand

LEMMA ResumeFacts ==
    ASSUME LinkTypeOK, ServerTypeOK, SessionInv, NEW s \in Sockets, NEW session,
           SameRun(srv[s], session), srv[s].phase \notin Young,
           NEW caller \in Callers, NEW killed \in BOOLEAN, killed => ~srv[s].isActive,
           Resume(s, session, caller, killed)
    PROVE  /\ Adjusts(s) \/ Spawns(s)
           /\ down' \in [Sockets -> Seq(DownMessages)]
<1>1. CASE killed /\ RunCommand(s, session)
  BY <1>1, RunCommandFacts
<1>2. CASE /\ srv' = [srv EXCEPT ![s] = session]
           /\ down' = ToPage(s, "unprocessable") /\ UNCHANGED ptys
  <2>1. "unprocessable" \in DownMessages
    BY DEF DownMessages
  <2> QED BY <1>2, <2>1, ToPageTyped, RunAdjusts, ProcessesStay
<1>3. CASE Deregister(s, session, killed) /\ UNCHANGED <<down, ptys>>
  <2> DEFINE new == [session EXCEPT !.registered = FALSE]
  <2>1. srv' = [srv EXCEPT ![s] = new]
    BY <1>3 DEF Deregister
  <2>2. SameRun(srv[s], new)
    BY DEF SameRun, UserSessions
  <2> HIDE DEF new
  <2> QED BY <1>3, <2>1, <2>2, RunAdjusts, ProcessesStay DEF LinkTypeOK
<1>4. CASE srv' = [srv EXCEPT ![s] = session] /\ UNCHANGED <<down, ptys>>
  BY <1>4, RunAdjusts, ProcessesStay DEF LinkTypeOK
<1> QED BY <1>1, <1>2, <1>3, <1>4 DEF Resume

LEMMA YoungSession ==
    ASSUME SessionInv, NEW s \in Sockets, srv[s].phase \in Young
    PROVE  ~srv[s].registered /\ ~srv[s].isActive /\ srv[s].loops = <<>>
<1>1. srv[s] = Session(srv[s].phase) /\ srv[s].phase \in Phases
  BY DEF SessionInv, Pristine, Young, Phases
<1> QED BY <1>1, SessionTyped

LEMMA KillTickKeeps ==
    ASSUME LinkTypeOK, ServerTypeOK, SessionInv, NEW s \in Sockets, KillTick(s)
    PROVE  LinkTypeOK' /\ ServerTypeOK' /\ SessionInv'
<1> DEFINE session == srv[s]
           loop == Head(session.loops)
           rest == [session EXCEPT !.loops = Tail(@)]
<1>1. session \in UserSessions /\ session.loops # <<>>
  BY DEF ServerTypeOK, KillTick
<1>2. srv[s].phase \notin Young
  BY <1>1, YoungSession
<1>3. SameRun(srv[s], rest) /\ loop.awaitedBy \in Callers
  BY <1>1, RestFacts
<1>4. \/ ~srv[s].isActive /\ Resume(s, rest, loop.awaitedBy, TRUE)
      \/ MoreAttempts(loop) /\ srv' = [srv EXCEPT ![s] = AttemptKill(session)]
           /\ UNCHANGED <<down, ptys>>
      \/ Resume(s, rest, loop.awaitedBy, FALSE)
  BY DEF KillTick
<1>5. SameRun(srv[s], AttemptKill(session)) \/ ~MoreAttempts(loop)
  BY <1>1, AttemptFacts
<1> HIDE DEF rest, loop
<1>6. /\ Adjusts(s) \/ Spawns(s)
      /\ down' \in [Sockets -> Seq(DownMessages)]
  <2>1. CASE ~srv[s].isActive /\ Resume(s, rest, loop.awaitedBy, TRUE)
    BY <1>2, <1>3, <2>1, ResumeFacts
  <2>2. CASE /\ MoreAttempts(loop) /\ srv' = [srv EXCEPT ![s] = AttemptKill(session)]
             /\ UNCHANGED <<down, ptys>>
    BY <1>2, <1>5, <2>2, RunAdjusts, ProcessesStay DEF LinkTypeOK
  <2>3. CASE Resume(s, rest, loop.awaitedBy, FALSE)
    BY <1>2, <1>3, <2>3, ResumeFacts
  <2> QED BY <1>4, <2>1, <2>2, <2>3
<1>7. UNCHANGED <<rs, ws, up, frozen, used>>
  BY DEF KillTick
<1>8. ServerTypeOK' /\ SessionInv'
  BY <1>6, <1>7, AdjustsKeeps, SpawnsKeeps
<1> QED BY <1>6, <1>7, <1>8 DEF LinkTypeOK

LEMMA PhaseAdjusts ==
    ASSUME ServerTypeOK, SessionInv, NEW s \in Sockets, NEW session,
           srv[s].phase \in Young, rs[s] # "NEW",
           session \in UserSessions, ~session.isActive,
           session.ptyProcess = srv[s].ptyProcess, Pristine(session),
           srv' = [srv EXCEPT ![s] = session], UNCHANGED ptys
    PROVE  Adjusts(s)
<1>1. Alike(s, session)
  BY YoungSession DEF Alike
<1> QED BY <1>1, ProcessesStay DEF Adjusts

LEMMA ConnectingKeeps ==
    ASSUME LinkTypeOK, ServerTypeOK, SessionInv, NEW s \in Sockets,
           VerifyClient(s) \/ Authorized(s)
    PROVE  LinkTypeOK' /\ ServerTypeOK' /\ SessionInv'
<1>1. srv[s].phase \in Young /\ rs[s] # "NEW"
  BY DEF VerifyClient, Authorized, Young, SessionInv
<1>2. srv[s] = Session(srv[s].phase) /\ srv[s].phase \in Phases /\ srv[s] \in UserSessions
  BY <1>1 DEF SessionInv, Pristine, ServerTypeOK, Young, Phases
<1>3. UNCHANGED <<rs, up, frozen, ptys>>
  BY DEF VerifyClient, Authorized
<1>4. srv[s].ptyProcess = NoPty /\ ~srv[s].isActive
  BY <1>2, SessionTyped
<1>5. \/ /\ srv' = [srv EXCEPT ![s].phase = "fetching"]
         /\ srv[s].phase = "none"
         /\ ws' = [ws EXCEPT ![s] = "open"]
         /\ down' = ToPage(s, "accept") /\ UNCHANGED used
      \/ /\ srv' = [srv EXCEPT ![s] = Session("over")]
         /\ ws' = [ws EXCEPT ![s] = "closed"]
         /\ down' = ToPage(s, "fail") \/ down' = ToPage(s, "drop")
         /\ Fault
      \/ /\ srv' = [srv EXCEPT ![s].registered = TRUE,
                               ![s].phase = IF ws[s] = "open" THEN "serving" ELSE "leaked"]
         /\ UNCHANGED <<ws, down, used>>
  BY DEF VerifyClient, Authorized
<1>6. SUFFICES /\ Adjusts(s)
               /\ ws' \in [Sockets -> {"none", "open", "closed"}]
               /\ down' \in [Sockets -> Seq(DownMessages)]
               /\ used' \in [faults : Nat, commands : Nat, hides : Nat]
  BY <1>3, AdjustsKeeps DEF LinkTypeOK
<1>7. CASE /\ srv' = [srv EXCEPT ![s].phase = "fetching"]
           /\ srv[s].phase = "none"
           /\ ws' = [ws EXCEPT ![s] = "open"]
           /\ down' = ToPage(s, "accept") /\ UNCHANGED used
  <2> DEFINE session == [srv[s] EXCEPT !.phase = "fetching"]
  <2>1. session = Session("fetching")
    <3> DEFINE none == Session("none")
               fetching == Session("fetching")
    <3>1. srv[s] = none
      BY <1>2, <1>7
    <3>2. /\ none \in UserSessions /\ fetching \in UserSessions
          /\ fetching.phase = "fetching" /\ fetching.registered = none.registered
          /\ fetching.ptyProcess = none.ptyProcess /\ fetching.isActive = none.isActive
          /\ fetching.loops = none.loops
      <4>1. none \in UserSessions /\ fetching \in UserSessions
        BY SessionTyped DEF Phases
      <4> QED BY <4>1 DEF Session
    <3> HIDE DEF none, fetching
    <3>3. [none EXCEPT !.phase = "fetching"] = fetching
      BY <3>2 DEF UserSessions
    <3> QED BY <3>1, <3>3 DEF none, fetching
  <2>2. srv' = [srv EXCEPT ![s] = session]
    BY <1>7
  <2> HIDE DEF session
  <2>3. /\ session \in UserSessions /\ ~session.isActive
        /\ session.ptyProcess = NoPty /\ Pristine(session)
    BY <2>1, SessionTyped DEF Phases, Pristine
  <2>4. Adjusts(s)
    BY <1>1, <1>3, <1>4, <2>2, <2>3, PhaseAdjusts
  <2>5. "accept" \in DownMessages
    BY DEF DownMessages
  <2> QED BY <1>7, <2>4, <2>5, ToPageTyped DEF LinkTypeOK
<1>8. CASE /\ srv' = [srv EXCEPT ![s] = Session("over")]
           /\ ws' = [ws EXCEPT ![s] = "closed"]
           /\ down' = ToPage(s, "fail") \/ down' = ToPage(s, "drop")
           /\ Fault
  <2>1. /\ Session("over") \in UserSessions /\ ~Session("over").isActive
        /\ Session("over").ptyProcess = NoPty /\ Pristine(Session("over"))
    BY SessionTyped DEF Phases, Pristine, Young
  <2>2. Adjusts(s)
    BY <1>1, <1>3, <1>4, <1>8, <2>1, PhaseAdjusts
  <2>3. "fail" \in DownMessages /\ "drop" \in DownMessages
    BY DEF DownMessages, Ends
  <2> QED BY <1>8, <2>2, <2>3, ToPageTyped, FaultTyped, SMTT(60) DEF LinkTypeOK
<1>9. CASE /\ srv' = [srv EXCEPT ![s].registered = TRUE,
                                 ![s].phase = IF ws[s] = "open" THEN "serving" ELSE "leaked"]
           /\ UNCHANGED <<ws, down, used>>
  <2> DEFINE phase == IF ws[s] = "open" THEN "serving" ELSE "leaked"
             session == [srv[s] EXCEPT !.registered = TRUE, !.phase = phase]
  <2>1. srv' = [srv EXCEPT ![s] = session]
    BY <1>9 DEF ServerTypeOK
  <2>2. phase \in Phases /\ phase \notin Young
    BY DEF Phases, Young
  <2> HIDE DEF phase
  <2>3. /\ session \in UserSessions /\ session.phase = phase
        /\ session.isActive <=> srv[s].isActive
        /\ session.ptyProcess = srv[s].ptyProcess
    BY <1>2, <2>2 DEF UserSessions
  <2> HIDE DEF session
  <2>4. Adjusts(s)
    BY <1>1, <1>3, <1>4, <2>1, <2>2, <2>3, PhaseAdjusts DEF Pristine
  <2> QED BY <1>9, <2>4 DEF LinkTypeOK
<1> QED BY <1>5, <1>7, <1>8, <1>9

LEMMA UpTail ==
    ASSUME LinkTypeOK, NEW s \in Sockets, up[s] # <<>>
    PROVE  [up EXCEPT ![s] = Tail(@)] \in [Sockets -> Seq(UpMessages)]
<1>1. Tail(up[s]) \in Seq(UpMessages)
  BY DEF LinkTypeOK
<1> QED BY <1>1 DEF LinkTypeOK

LEMMA ServerReceiveKeeps ==
    ASSUME LinkTypeOK, ServerTypeOK, SessionInv, NEW s \in Sockets, ServerReceive(s)
    PROVE  LinkTypeOK' /\ ServerTypeOK' /\ SessionInv'
<1>1. up' \in [Sockets -> Seq(UpMessages)]
  BY UpTail DEF ServerReceive
<1>2. UNCHANGED <<rs, ws, frozen, used>>
  BY DEF ServerReceive
<1>3. srv[s] \in UserSessions
  BY DEF ServerTypeOK
<1>4. SameRun(srv[s], srv[s])
  BY <1>3 DEF SameRun
<1>5. CASE /\ srv[s].phase = "serving" /\ srv[s].phase \notin Young
           /\ \E message \in UpMessages : HandleMessage(s, message)
  <2>1. SUFFICES /\ Adjusts(s) \/ Spawns(s)
                 /\ down' \in [Sockets -> Seq(DownMessages)]
    BY <1>1, <1>2, AdjustsKeeps, SpawnsKeeps DEF LinkTypeOK
  <2>2. CASE HandleCommand(s)
    <3>1. CASE srv' = [srv EXCEPT ![s] = Kill(@, "command")] /\ UNCHANGED <<down, ptys>>
      <4>1. SameRun(srv[s], Kill(srv[s], "command"))
        BY <1>3, KillFacts DEF Callers
      <4>2. srv' = [srv EXCEPT ![s] = Kill(srv[s], "command")]
        BY <3>1
      <4> QED BY <1>5, <3>1, <4>1, <4>2, RunAdjusts, ProcessesStay DEF LinkTypeOK
    <3>2. CASE ~srv[s].isActive /\ RunCommand(s, srv[s])
      BY <1>4, <1>5, <3>2, RunCommandFacts
    <3> QED BY <2>2, <3>1, <3>2 DEF HandleCommand
  <2>3. CASE CheckActive(s)
    <3>1. CASE srv' = [srv EXCEPT ![s] = KillFor(@, "nobody")]
      <4>1. SameRun(srv[s], KillFor(srv[s], "nobody"))
        BY <1>3, KillForFacts DEF Callers
      <4>2. srv' = [srv EXCEPT ![s] = KillFor(srv[s], "nobody")]
        BY <3>1
      <4> QED BY <1>5, <2>3, <4>1, <4>2, RunAdjusts, ProcessesStay DEF LinkTypeOK, CheckActive
    <3>2. CASE srv' = srv
      <4>1. srv' = [srv EXCEPT ![s] = srv[s]]
        BY <3>2 DEF ServerTypeOK
      <4> QED BY <1>4, <1>5, <2>3, <4>1, RunAdjusts, ProcessesStay DEF LinkTypeOK, CheckActive
    <3> QED BY <2>3, <3>1, <3>2 DEF CheckActive
  <2>4. CASE down' = ToPage(s, "pong") /\ UNCHANGED <<srv, ptys>>
    <3>1. srv' = [srv EXCEPT ![s] = srv[s]]
      BY <2>4 DEF ServerTypeOK
    <3>2. "pong" \in DownMessages
      BY DEF DownMessages
    <3> QED BY <1>4, <1>5, <2>4, <3>1, <3>2, RunAdjusts, ProcessesStay, ToPageTyped
  <2> QED BY <1>5, <2>2, <2>3, <2>4 DEF HandleMessage
<1>6. CASE UNCHANGED <<down, srv, ptys>>
  <2>1. ServerTypeOK' /\ SessionInv'
    BY <1>2, <1>6 DEF ServerTypeOK, SessionInv, Pristine, ActiveIsAlive, AliveIsActive
  <2> QED BY <1>1, <1>2, <1>6, <2>1 DEF LinkTypeOK
<1>7. Head(up[s]) \in UpMessages
  BY DEF ServerReceive, LinkTypeOK
<1> QED BY <1>5, <1>6, <1>7 DEF ServerReceive, Young

LEMMA ServerCloseKeeps ==
    ASSUME LinkTypeOK, ServerTypeOK, SessionInv, NEW s \in Sockets, ServerClose(s)
    PROVE  LinkTypeOK' /\ ServerTypeOK' /\ SessionInv'
<1>1. /\ up' \in [Sockets -> Seq(UpMessages)]
      /\ ws' \in [Sockets -> {"none", "open", "closed"}]
  BY UpTail DEF ServerClose, LinkTypeOK
<1>2. down' \in [Sockets -> Seq(DownMessages)]
  <2>1. "clean" \in DownMessages
    BY DEF DownMessages, Ends
  <2> QED BY <2>1, ToPageTyped DEF ServerClose
<1>3. UNCHANGED <<rs, frozen, used, ptys>>
  BY DEF ServerClose
<1>4. CASE /\ srv[s].phase = "serving"
           /\ srv' = [srv EXCEPT ![s] = KillFor(@, "close")]
  <2>1. SameRun(srv[s], KillFor(srv[s], "close"))
    BY KillForFacts DEF Callers, ServerTypeOK
  <2>2. srv' = [srv EXCEPT ![s] = KillFor(srv[s], "close")] /\ srv[s].phase \notin Young
    BY <1>4 DEF Young
  <2>3. Adjusts(s)
    BY <1>3, <2>1, <2>2, RunAdjusts, ProcessesStay
  <2> QED BY <1>1, <1>2, <1>3, <2>3, AdjustsKeeps DEF LinkTypeOK
<1>5. CASE UNCHANGED srv
  <2>1. ServerTypeOK' /\ SessionInv'
    BY <1>3, <1>5 DEF ServerTypeOK, SessionInv, Pristine, ActiveIsAlive, AliveIsActive
  <2> QED BY <1>1, <1>2, <1>3, <2>1 DEF LinkTypeOK
<1> QED BY <1>4, <1>5 DEF ServerClose

LEMMA PtyKeeps ==
    ASSUME LinkTypeOK, ServerTypeOK, SessionInv, NEW p \in DOMAIN ptys,
           PtyExit(p) \/ PtyTimeout(p)
    PROVE  LinkTypeOK' /\ ServerTypeOK' /\ SessionInv'
<1> DEFINE s == ptys[p].owner
<1>1. ptys[p] \in Processes /\ s \in Sockets
  <2>1. ptys[p] \in Processes
    BY DEF ServerTypeOK
  <2> QED BY <2>1 DEF Processes
<1>2. CASE PtyExit(p)
  <2>1. UNCHANGED <<rs, ws, up, frozen, used>>
    BY <1>2 DEF PtyExit
  <2>2. down' \in [Sockets -> Seq(DownMessages)]
    <3>1. "pty-exited" \in DownMessages
      BY DEF DownMessages
    <3> QED BY <1>2, <3>1, ToPageTyped DEF PtyExit
  <2>3. Exits(p)
    BY <1>2 DEF PtyExit, Exits
  <2> QED BY <2>1, <2>2, <2>3, ExitsKeeps DEF LinkTypeOK
<1>3. CASE PtyTimeout(p)
  <2> DEFINE session == KillFor(srv[s], "nobody")
             last == [ptys[p] EXCEPT !.timer = FALSE]
  <2>1. /\ UNCHANGED linkVars
        /\ srv' = [srv EXCEPT ![s] = session]
        /\ ptys' = [ptys EXCEPT ![p] = last]
    BY <1>3 DEF PtyTimeout
  <2>2. srv[s] \in UserSessions
    BY <1>1 DEF ServerTypeOK
  <2>3. /\ SameRun(srv[s], session)
        /\ ~srv[s].registered => session = srv[s]
    BY <2>2, KillForFacts DEF Callers
  <2>4. last \in Processes /\ last.owner = ptys[p].owner /\ (last.alive <=> ptys[p].alive)
    BY <1>1 DEF Processes
  <2> HIDE DEF session, last, s
  <2>5. SameProcesses
    <3>1. /\ ptys' \in Seq(Processes) /\ Len(ptys') = Len(ptys)
          /\ ptys'[p] = last /\ \A q \in DOMAIN ptys \ {p} : ptys'[q] = ptys[q]
      BY <2>1, <2>4 DEF ServerTypeOK
    <3> QED BY <2>4, <3>1 DEF SameProcesses
  <2>6. CASE srv[s].phase \in Young
    <3>1. session = srv[s]
      BY <1>1, <2>3, <2>6, YoungSession
    <3>2. Alike(s, session) /\ Pristine(session)
      BY <1>1, <2>2, <3>1 DEF Alike, SessionInv
    <3>3. Adjusts(s)
      BY <1>1, <2>1, <2>5, <3>1, <3>2 DEF Adjusts, SessionInv
    <3> QED BY <1>1, <2>1, <3>3, AdjustsKeeps DEF linkVars, LinkTypeOK
  <2>7. CASE srv[s].phase \notin Young
    <3>1. Adjusts(s)
      BY <1>1, <2>1, <2>3, <2>5, <2>7, RunAdjusts
    <3> QED BY <1>1, <2>1, <3>1, AdjustsKeeps DEF linkVars, LinkTypeOK
  <2> QED BY <2>6, <2>7
<1> QED BY <1>2, <1>3

LEMMA ServerRestartKeeps ==
    ASSUME LinkTypeOK, ServerTypeOK, SessionInv, ServerRestart
    PROVE  LinkTypeOK' /\ ServerTypeOK' /\ SessionInv'
<1>1. ServerTypeOK' /\ SessionInv'
  BY RestartsKeeps DEF ServerRestart, Restarts
<1>2. UNCHANGED <<rs, frozen>> /\ used' \in [faults : Nat, commands : Nat, hides : Nat]
  BY FaultTyped DEF ServerRestart
<1>3. /\ ws' \in [Sockets -> {"none", "open", "closed"}]
      /\ up' \in [Sockets -> Seq(UpMessages)]
  <2>1. ws' \in [Sockets -> {"none", "open", "closed"}]
    BY DEF ServerRestart, LinkTypeOK
  <2>2. <<>> \in Seq(UpMessages)
    OBVIOUS
  <2> QED BY <2>1, <2>2 DEF ServerRestart
<1>4. down' \in [Sockets -> Seq(DownMessages)]
  <2> DEFINE last(s) == IF rs[s] = "CONNECTING" /\ down[s] = <<>> THEN "fail" ELSE "drop"
             q(s) == IF ~Live(s) \/ EndsWith(down[s], Ends) THEN down[s]
                     ELSE Append(down[s], last(s))
  <2>1. down' = [s \in Sockets |-> q(s)]
    BY DEF ServerRestart
  <2>2. ASSUME NEW s \in Sockets PROVE q(s) \in Seq(DownMessages)
    <3>1. last(s) \in DownMessages
      BY DEF DownMessages, Ends
    <3>2. down[s] \in Seq(DownMessages)
      BY DEF LinkTypeOK
    <3> HIDE DEF last
    <3>3. Append(down[s], last(s)) \in Seq(DownMessages)
      BY <3>1, <3>2
    <3> QED BY <3>2, <3>3
  <2> HIDE DEF q
  <2> QED BY <2>1, <2>2
<1> QED BY <1>1, <1>2, <1>3, <1>4 DEF LinkTypeOK

LEMMA ServerKeeps ==
    ASSUME LinkTypeOK, ServerTypeOK, SessionInv, ServerNext
    PROVE  LinkTypeOK' /\ ServerTypeOK' /\ SessionInv'
BY ConnectingKeeps, ServerReceiveKeeps, ServerCloseKeeps, KillTickKeeps, PtyKeeps,
   ServerRestartKeeps, SMTT(40) DEF ServerNext

LEMMA ServerKeepsReadyStates == ASSUME ServerNext PROVE rs' = rs
BY Zenon DEF ServerNext, VerifyClient, Authorized, ServerReceive, ServerClose, KillTick,
       PtyExit, PtyTimeout, linkVars, ServerRestart

-----------------------------------------------------------------------------
Inv == TypeOK /\ PageInv /\ SessionInv

LEMMA Initially == Init => Inv
<1> SUFFICES ASSUME Init PROVE Inv
  OBVIOUS
<1>1. LinkTypeOK
  BY DEF Init, LinkInit, LinkTypeOK, ReadyStates
<1>2. \A s \in Sockets : /\ srv[s] = Session("none") /\ rs[s] = "NEW"
                         /\ srv[s] \in UserSessions /\ srv[s].phase = "none"
                         /\ ~srv[s].isActive /\ srv[s].ptyProcess = NoPty
  BY SessionTyped DEF Init, ServerInit, LinkInit, Phases
<1>3. ptys = <<>> /\ Len(ptys) = 0 /\ DOMAIN ptys = {} /\ ptys \in Seq(Processes)
  BY DEF Init, ServerInit
<1>4. ServerTypeOK
  <2>1. srv \in [Sockets -> UserSessions]
    BY <1>2 DEF Init, ServerInit
  <2> QED BY <1>2, <1>3, <2>1 DEF ServerTypeOK, NoPty
<1>5. SessionInv
  BY <1>2, <1>3 DEF SessionInv, Pristine, ActiveIsAlive, AliveIsActive
<1>6. /\ page \in Pages /\ page.socket = NoSocket
      /\ page.connectionState = "disconnected" /\ page.pendingCommand = FALSE
  BY DEF Init, PageInit, Pages
<1>7. PageInv
  BY <1>2, <1>6 DEF PageInv, SocketsInOrder, ConnectedIffOpen, BufferFlushed, SocketIs, Live
<1> QED BY <1>1, <1>4, <1>5, <1>6, <1>7 DEF Inv, TypeOK, PageTypeOK

(* The page's invariant is about rs and page alone. *)
LEMMA PageInvStays ==
    ASSUME PageInv, UNCHANGED <<rs, page>> PROVE PageInv'
BY DEF PageInv, SocketsInOrder, ConnectedIffOpen, BufferFlushed, SocketIs, Live

(* The server's is about its own state and the sockets not yet created. *)
LEMMA SessionInvStays ==
    ASSUME SessionInv, UNCHANGED serverVars,
           \A s \in Sockets : rs'[s] = "NEW" => rs[s] = "NEW"
    PROVE  SessionInv'
BY DEF SessionInv, serverVars, Pristine, ActiveIsAlive, AliveIsActive

LEMMA MoveCreates ==
    ASSUME LinkTypeOK, PageTypeOK, Move, NEW s \in Sockets, rs'[s] = "NEW"
    PROVE  rs[s] = "NEW"
BY DEF Move, Keeps, Opens, Connects, Closes, LinkTypeOK

LEMMA Inductive == Inv /\ [Next]_vars => Inv'
<1> SUFFICES ASSUME Inv, [Next]_vars PROVE Inv'
  OBVIOUS
<1> USE DEF Inv, TypeOK
<1>1. CASE ServerNext /\ UNCHANGED page
  BY <1>1, ServerKeeps, ServerKeepsReadyStates, PageInvStays DEF PageTypeOK
<1>2. CASE (PageStep \/ UserStep) /\ UNCHANGED serverVars
  <2>1. LinkTypeOK' /\ PageTypeOK' /\ Move
    BY <1>2, PageMoves
  <2>2. PageInv'
    BY <2>1, MovePreserves
  <2>3. ServerTypeOK'
    BY <1>2 DEF serverVars, ServerTypeOK
  <2>4. SessionInv'
    BY <1>2, <2>1, MoveCreates, SessionInvStays
  <2> QED BY <2>1, <2>2, <2>3, <2>4
<1>3. ASSUME NEW s \in Sockets, Lose(s) \/ Freeze(s), UNCHANGED <<serverVars, page>>
      PROVE  Inv'
  <2>1. LinkTypeOK' /\ rs' = rs
    <3>1. CASE Lose(s)
      BY <3>1, LoseTyped DEF Lose
    <3>2. CASE Freeze(s)
      BY <3>2, FaultTyped DEF Freeze, LinkTypeOK
    <3> QED BY <1>3, <3>1, <3>2
  <2>2. ServerTypeOK' /\ PageTypeOK' /\ SessionInv' /\ PageInv'
    BY <1>3, <2>1, SessionInvStays, PageInvStays DEF serverVars, ServerTypeOK, PageTypeOK
  <2> QED BY <2>1, <2>2
<1>4. CASE UNCHANGED vars
  <2>1. UNCHANGED linkVars /\ UNCHANGED serverVars /\ UNCHANGED page
    BY <1>4 DEF vars
  <2>2. SessionInv' /\ PageInv'
    BY <2>1, SessionInvStays, PageInvStays DEF linkVars
  <2> QED BY <2>1, <2>2 DEF linkVars, serverVars, LinkTypeOK, ServerTypeOK, PageTypeOK
<1> QED BY <1>1, <1>2, <1>3, <1>4 DEF Next

LEMMA Invariant == Spec => []Inv
<1> QED BY Initially, Inductive, PTL DEF Spec

(* The types of the page, the server and the link between them.            *)
THEOREM TypeCorrect == Spec => []TypeOK
<1>1. Inv => TypeOK
  BY DEF Inv
<1> QED BY <1>1, Invariant, PTL

(* The guard of initializeWebSocket is enough for a single socket, whatever *)
(* timers, also those of which the page has lost the ids, fire.            *)
THEOREM SingleSocket == Spec => []OneSocket
<1>1. Inv => OneSocket
  BY DEF Inv, PageInv, SocketsInOrder, OneSocket
<1> QED BY <1>1, Invariant, PTL

(* connectionState is "connected" exactly while the socket is open.        *)
THEOREM StateIsSocket == Spec => []ConnectedIffOpen
<1>1. Inv => ConnectedIffOpen
  BY DEF Inv, PageInv
<1> QED BY <1>1, Invariant, PTL

(* A command that sendCommandWhenReady buffers is not kept once the socket *)
(* is open.                                                                *)
THEOREM NothingBuffered == Spec => []BufferFlushed
<1>1. Inv => BufferFlushed
  BY DEF Inv, PageInv
<1> QED BY <1>1, Invariant, PTL

(* The PTY that handleCommand left in an active session has not ended.     *)
THEOREM ActiveSessionRuns == Spec => []ActiveIsAlive
<1>1. Inv => ActiveIsAlive
  BY DEF Inv, SessionInv
<1> QED BY <1>1, Invariant, PTL

(* However commands, closes, kills and exits interleave, handleCommand     *)
(* never leaves a session with two PTYs that run.                          *)
THEOREM SinglePty == Spec => []OnePty
<1>1. Inv => OnePty
  BY DEF Inv, SessionInv, AliveIsActive, OnePty
<1> QED BY <1>1, Invariant, PTL
=============================================================================
