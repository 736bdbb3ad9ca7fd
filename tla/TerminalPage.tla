---------------------------- MODULE TerminalPage ----------------------------
(***************************************************************************)
(* terminalData of resources/js/terminal.js: the connection management of  *)
(* one terminal in one browser page.  An action is one browser task (a     *)
(* socket event, a timer, a DOM or Livewire event) with every call its     *)
(* handler makes.  The handlers of a socket are bound to the component and *)
(* not to the socket, so an operator below maps the component's record to  *)
(* its next one whatever socket the event is of.                           *)
(*                                                                         *)
(* Left out: keyboard input, resizing and flow control, which only write   *)
(* to an active PTY; and keepAlive, whose interval is armed by init for    *)
(* 30 s later and cleared by the first initializeWebSocket 100 ms later.   *)
(***************************************************************************)
EXTENDS TerminalLink

CONSTANT MaxReconnectAttempts   \* maxReconnectAttempts
ASSUME PageAssumption == MaxReconnectAttempts \in Nat \ {0}

VARIABLE page

NoSocket == 0

(* Of a timer it is known whether it is armed.  strayTimers counts the     *)
(* reconnect timers whose id has been overwritten: nobody can clear them.  *)
Pages ==
    [connectionState : {"disconnected", "connecting", "connected", "reconnecting"},
     socket : {NoSocket} \cup Sockets,
     reconnectAttempts : Nat,
     terminalActive : BOOLEAN,
     message : {"closed", "sorry", "failed"},
     pendingCommand : BOOLEAN,
     keepAliveInterval : BOOLEAN,
     reconnectInterval : BOOLEAN,
     connectionTimeoutId : BOOLEAN,
     pingTimeoutId : BOOLEAN,
     bootTimer : BOOLEAN,
     strayTimers : Nat,
     heartbeatMissed : Nat,
     isDocumentVisible : BOOLEAN,
     wasConnectedBeforeHidden : BOOLEAN,
     gone : BOOLEAN]

PageTypeOK == page \in Pages

(* After init. *)
PageInit ==
    page = [connectionState |-> "disconnected", socket |-> NoSocket,
            reconnectAttempts |-> 0, terminalActive |-> FALSE, message |-> "closed",
            pendingCommand |-> FALSE, keepAliveInterval |-> TRUE,
            reconnectInterval |-> FALSE, connectionTimeoutId |-> FALSE,
            pingTimeoutId |-> FALSE, bootTimer |-> TRUE, strayTimers |-> 0,
            heartbeatMissed |-> 0, isDocumentVisible |-> TRUE,
            wasConnectedBeforeHidden |-> FALSE, gone |-> FALSE]

SocketIs(states) == page.socket # NoSocket /\ rs[page.socket] \in states

(* sendMessage *)
SendMessage(m) == IF SocketIs({"OPEN"}) THEN ToServer(page.socket, m) ELSE up

clearAllTimers(p) ==
    [p EXCEPT !.keepAliveInterval = FALSE, !.reconnectInterval = FALSE,
              !.connectionTimeoutId = FALSE, !.pingTimeoutId = FALSE]

scheduleReconnect(p) ==
    IF p.reconnectAttempts >= MaxReconnectAttempts
    THEN [p EXCEPT !.message = "failed"]
    ELSE [p EXCEPT !.connectionState = "reconnecting",
                   !.strayTimers = IF p.reconnectInterval THEN @ + 1 ELSE @,
                   !.reconnectInterval = TRUE]

handleConnectionError(p) ==
    scheduleReconnect([p EXCEPT !.connectionState = "disconnected"])

(* resetTerminal and the two assignments after it. *)
resetTerminal(p) ==
    [p EXCEPT !.pendingCommand = FALSE, !.message = "closed", !.terminalActive = FALSE]

handleSocketCloseMutant(p, clean) ==   \* mutant: the timers are cleared last
    LET q == [p EXCEPT !.connectionState = "disconnected"]
    IN  clearAllTimers(IF clean THEN q ELSE scheduleReconnect(q))

handleSocketClose(p, clean) ==
    LET q == clearAllTimers([p EXCEPT !.connectionState = "disconnected"])
    IN  IF clean THEN q
        ELSE scheduleReconnect(IF q.reconnectAttempts > 0 THEN resetTerminal(q) ELSE q)

(* initializeWebSocket: nothing unless the last socket is closed. *)
OpenSocket(p) ==
    /\ page.socket + 1 \in Sockets
    /\ page' = [clearAllTimers(p) EXCEPT !.connectionState = "connecting",
                                         !.socket = @ + 1,
                                         !.connectionTimeoutId = TRUE]
    /\ rs' = [rs EXCEPT ![page.socket + 1] = "CONNECTING"]

initializeWebSocketMutant(p) ==   \* mutant: only an open socket is kept
    \/ SocketIs({"OPEN"}) /\ page' = p /\ UNCHANGED rs
    \/ ~SocketIs({"OPEN"}) /\ OpenSocket(p)

initializeWebSocketMutant2(p) ==   \* mutant: the state is set before the test
    \/ /\ SocketIs(ReadyStates \ {"CLOSED"})
       /\ page' = [p EXCEPT !.connectionState = "connecting"]
       /\ UNCHANGED rs
    \/ ~SocketIs(ReadyStates \ {"CLOSED"}) /\ OpenSocket(p)

initializeWebSocket(p) ==
    \/ /\ SocketIs(ReadyStates \ {"CLOSED"})
       /\ page' = p
       /\ UNCHANGED rs
    \/ ~SocketIs(ReadyStates \ {"CLOSED"}) /\ OpenSocket(p)

-----------------------------------------------------------------------------
(* Timers *)
Boot ==
    /\ page.bootTimer
    /\ initializeWebSocket([page EXCEPT !.bootTimer = FALSE])
    /\ UNCHANGED <<ws, up, down, frozen, used>>

Reconnect ==
    /\ page.reconnectInterval
    /\ initializeWebSocket([page EXCEPT !.reconnectInterval = FALSE,
                                        !.reconnectAttempts = @ + 1])
    /\ UNCHANGED <<ws, up, down, frozen, used>>

StrayReconnect ==
    /\ page.strayTimers > 0
    /\ initializeWebSocket([page EXCEPT !.strayTimers = @ - 1,
                                        !.reconnectAttempts = @ + 1])
    /\ UNCHANGED <<ws, up, down, frozen, used>>

(* socket.close() before the handshake is answered fails the connection:   *)
(* the error and close events come in a later task.                        *)
AbortHandshake ==
    /\ rs' = [rs EXCEPT ![page.socket] = "CLOSING"]
    /\ down' = [down EXCEPT ![page.socket] = <<"fail">>]
    /\ up' = ToServer(page.socket, "close")

ConnectionTimeout ==
    /\ page.connectionTimeoutId /\ page.connectionState = "connecting"
    /\ Fault
    /\ AbortHandshake
    /\ page' = handleConnectionError([page EXCEPT !.connectionTimeoutId = FALSE])
    /\ UNCHANGED <<ws, frozen>>

(* The timer of resetPingTimeout.  It is not armed again, and at the third *)
(* miss it would call socket.close(1001), which a browser refuses with an  *)
(* exception: the socket stays as it is.                                   *)
PingTimeout ==
    /\ page.pingTimeoutId
    /\ page' = [page EXCEPT !.pingTimeoutId = FALSE, !.heartbeatMissed = @ + 1]
    /\ UNCHANGED linkVars

-----------------------------------------------------------------------------
(* Socket events *)
handleSocketOpenMutant(s) ==   \* mutant: the buffered command is not flushed
    /\ rs' = [rs EXCEPT ![s] = "OPEN"]
    /\ page' = [page EXCEPT !.connectionState = "connected", !.reconnectAttempts = 0,
                            !.heartbeatMissed = 0, !.connectionTimeoutId = FALSE,
                            !.pingTimeoutId = TRUE]
    /\ UNCHANGED up

handleSocketOpen(s) ==
    /\ rs' = [rs EXCEPT ![s] = "OPEN"]
    /\ up' = IF page.pendingCommand THEN ToServer(s, "command") ELSE up
    /\ page' = [page EXCEPT !.connectionState = "connected", !.reconnectAttempts = 0,
                            !.heartbeatMissed = 0, !.connectionTimeoutId = FALSE,
                            !.pendingCommand = FALSE, !.pingTimeoutId = TRUE]

Received(m) ==
    CASE m = "pong" -> [page EXCEPT !.heartbeatMissed = 0, !.pingTimeoutId = TRUE]
      [] m = "pty-ready" -> [page EXCEPT !.terminalActive = TRUE]
      [] m = "unprocessable" -> [page EXCEPT !.terminalActive = FALSE, !.message = "sorry"]
      [] m \in {"pty-exited", "rejected"} -> [page EXCEPT !.terminalActive = FALSE]

handleSocketMessageMutant(m) ==   \* mutant: the failure is not shown
    /\ page' = [Received(m) EXCEPT !.message = page.message]
    /\ UNCHANGED <<rs, up>>

handleSocketMessage(m) ==
    /\ page' = Received(m)
    /\ UNCHANGED <<rs, up>>

(* The end of a socket; "fail" runs handleSocketError first. *)
SocketEnds(s, last) ==
    /\ rs' = [rs EXCEPT ![s] = "CLOSED"]
    /\ page' = handleSocketClose(IF last = "fail" THEN handleConnectionError(page) ELSE page,
                                 last = "clean")
    /\ UNCHANGED up

(* A browser discards the messages of a socket that is closing. *)
PageReceive(s) ==
    /\ Live(s) /\ s \notin frozen
    /\ down[s] # <<>>
    /\ down' = [down EXCEPT ![s] = Tail(@)]
    /\ LET m == Head(down[s]) IN
       \/ m = "accept" /\ handleSocketOpen(s)
       \/ m \in Ends /\ SocketEnds(s, m)
       \/ m \notin Ends \cup {"accept"} /\ rs[s] = "OPEN" /\ handleSocketMessage(m)
       \/ m \notin Ends \cup {"accept"} /\ rs[s] = "CLOSING" /\ UNCHANGED <<page, rs, up>>
    /\ UNCHANGED <<ws, frozen, used>>

-----------------------------------------------------------------------------
(* The user *)

(* The send-back-command event of Livewire: sendCommandWhenReady. *)
SendCommandWhenReady ==
    /\ ~page.gone
    /\ used.commands < MaxCommands
    /\ used' = [used EXCEPT !.commands = @ + 1]
    /\ IF page.connectionState = "connected" /\ SocketIs({"OPEN"})
       THEN up' = SendMessage("command") /\ UNCHANGED page
       ELSE page' = [page EXCEPT !.pendingCommand = TRUE] /\ UNCHANGED up
    /\ UNCHANGED <<rs, ws, down, frozen>>

(* handleVisibilityChange *)
Hide ==
    /\ page.isDocumentVisible
    /\ used.hides < MaxHides
    /\ used' = [used EXCEPT !.hides = @ + 1]
    /\ page' = [page EXCEPT !.isDocumentVisible = FALSE,
                            !.wasConnectedBeforeHidden = page.connectionState = "connected",
                            !.pingTimeoutId = FALSE]
    /\ UNCHANGED <<rs, ws, up, down, frozen>>

Show ==
    /\ ~page.isDocumentVisible
    /\ LET p == [page EXCEPT !.isDocumentVisible = TRUE] IN
       \/ /\ page.wasConnectedBeforeHidden /\ SocketIs({"OPEN"})
          /\ up' = SendMessage("ping")
          /\ page' = [p EXCEPT !.heartbeatMissed = 0, !.pingTimeoutId = TRUE]
          /\ UNCHANGED rs
       \/ /\ page.wasConnectedBeforeHidden /\ ~SocketIs({"OPEN"})
          /\ page.connectionState # "connected"
          /\ initializeWebSocket([p EXCEPT !.reconnectAttempts = 0])
          /\ UNCHANGED up
       \/ /\ ~(/\ page.wasConnectedBeforeHidden
               /\ SocketIs({"OPEN"}) \/ page.connectionState # "connected")
          /\ page' = p
          /\ UNCHANGED <<rs, up>>
    /\ UNCHANGED <<ws, down, frozen, used>>

(* cleanup, when Livewire navigates away: the script and the timers that   *)
(* clearAllTimers does not know live on.                                   *)
Cleanup ==
    /\ ~page.gone
    /\ page' = [clearAllTimers(page) EXCEPT !.connectionState = "disconnected",
                                            !.pendingCommand = FALSE, !.gone = TRUE]
    /\ \/ SocketIs({"CONNECTING"}) /\ AbortHandshake
       \/ /\ SocketIs({"OPEN"})
          /\ rs' = [rs EXCEPT ![page.socket] = "CLOSING"]
          /\ up' = IF ws[page.socket] = "closed" \/ EndsWith(up[page.socket], {"close"}) THEN up
                   ELSE [up EXCEPT ![page.socket] = @ \o <<"checkActive", "close">>]
          /\ UNCHANGED down
       \/ ~SocketIs({"CONNECTING", "OPEN"}) /\ UNCHANGED <<rs, up, down>>
    /\ UNCHANGED <<ws, frozen, used>>
=============================================================================
