------------------------------ MODULE Terminal ------------------------------
(***************************************************************************)
(* The realtime terminal: one page of terminal.js and the sessions that    *)
(* terminal-server.js holds for the sockets the page opens one after the   *)
(* other, over links that may be lost at any moment.                       *)
(***************************************************************************)
EXTENDS TerminalServer, TerminalPage

vars == <<linkVars, serverVars, page>>

Init == LinkInit /\ ServerInit /\ PageInit

PageStep ==
    \/ Boot \/ Reconnect \/ StrayReconnect \/ ConnectionTimeout \/ PingTimeout
    \/ \E s \in Sockets : PageReceive(s)

UserStep ==
    \/ SendCommandWhenReady \/ Hide \/ Show \/ Cleanup

Next ==
    \/ ServerNext /\ UNCHANGED page
    \/ (PageStep \/ UserStep) /\ UNCHANGED serverVars
    \/ \E s \in Sockets : (Lose(s) \/ Freeze(s)) /\ UNCHANGED <<serverVars, page>>

Spec == Init /\ [][Next]_vars

(* Browser and Node run some task that is due, and a live link delivers.   *)
(* Nothing is assumed of the user, of faults or of how long a PTY lives.   *)
PageTask == Boot \/ Reconnect \/ StrayReconnect \/ \E s \in Sockets : PageReceive(s)

ServerTask ==
    \E s \in Sockets : \/ VerifyClient(s) \/ Authorized(s)
                       \/ ServerReceive(s) \/ ServerClose(s) \/ KillTick(s)

Fairness ==
    /\ WF_vars(PageTask /\ UNCHANGED serverVars)
    /\ WF_vars(ServerTask /\ UNCHANGED page)

FairSpec == Spec /\ Fairness

-----------------------------------------------------------------------------
TypeOK == LinkTypeOK /\ ServerTypeOK /\ PageTypeOK

(* The page never has two sockets that are not closed, whatever timers it  *)
(* has lost the ids of: every path to a new socket goes through the guard  *)
(* of initializeWebSocket.                                                 *)
OneSocket == \A s, t \in Sockets : Live(s) /\ Live(t) => s = t

(* connectionState says "connected" exactly while the socket is open, so   *)
(* a command is buffered exactly when it cannot be sent.                   *)
ConnectedIffOpen ==
    page.connectionState = "connected" <=> SocketIs({"OPEN"})

(* A page that is not connected is waiting for a timer or for an event of  *)
(* a socket that must come, or has used up its reconnect attempts and says *)
(* so: it never just sits disconnected.                                    *)
NeverStuck ==
    \/ page.gone \/ page.connectionState = "connected"
    \/ page.bootTimer \/ page.reconnectInterval \/ page.strayTimers > 0
    \/ SocketIs({"CONNECTING", "CLOSING"})
    \/ page.reconnectAttempts >= MaxReconnectAttempts

(* A buffered command is gone (sent, or dropped with the terminal) as soon *)
(* as the socket is open: it cannot be overtaken by a later one.           *)
BufferFlushed == page.pendingCommand => ~SocketIs({"OPEN"})

(* A session that is active runs the PTY it knows, and that PTY is alive:  *)
(* input is never written to a process that has ended.                     *)
ActiveIsAlive ==
    \A s \in Sockets : srv[s].isActive =>
        /\ srv[s].ptyProcess # NoPty
        /\ ptys[srv[s].ptyProcess].alive
        /\ ptys[srv[s].ptyProcess].owner = s

(* A session never has two live PTYs: handleCommand kills the previous one *)
(* before it spawns the next.                                              *)
OnePty ==
    \A p, q \in DOMAIN ptys :
        ptys[p].alive /\ ptys[q].alive /\ ptys[p].owner = ptys[q].owner => p = q

(* When the link is open and nothing is under way, an active session is    *)
(* shown as one, unless the page says that the last command failed.        *)
ActiveIsShown ==
    \A s \in Sockets :
        SocketIs({"OPEN"}) /\ s = page.socket /\ down[s] = <<>> /\ srv[s].isActive
          => page.terminalActive \/ page.message = "sorry"

(* What a closed socket leaves in userSessions is on its way out, killed   *)
(* first; or it closed before handleClose was attached, and the session    *)
(* that stays for ever then has never run anything.                        *)
ClosedIsSwept ==
    \A s \in Sockets : ws[s] = "closed" /\ srv[s].registered =>
        IF srv[s].phase = "leaked"
        THEN srv[s].ptyProcess = NoPty
        ELSE \E i \in DOMAIN srv[s].loops : srv[s].loops[i].awaitedBy = "close"

(* A PTY is spawned only for a session that is still registered, so that   *)
(* the end of its socket kills it.                                         *)
SpawnedForOpenSession ==
    [][\A p \in DOMAIN ptys' \ DOMAIN ptys : srv[ptys'[p].owner].registered]_vars

(* Whatever happens, a page that lost its socket is connected again, has   *)
(* used up its attempts, or is left.                                       *)
Reconnects ==
    page.connectionState # "connected"
      ~> page.connectionState = "connected" \/ page.gone
         \/ page.reconnectAttempts >= MaxReconnectAttempts

(* The sessions of closed sockets leave userSessions, also when their PTYs *)
(* do not die.                                                             *)
Lingering(s) == srv[s].phase = "serving" /\ ws[s] = "closed" /\ srv[s].registered
SessionsRemoved == (\E s \in Sockets : Lingering(s)) ~> \A s \in Sockets : ~Lingering(s)

(* Commands that wait for the previous PTY are resumed, to be run or to be *)
(* refused.                                                                *)
Waiting(s) == \E i \in DOMAIN srv[s].loops : srv[s].loops[i].awaitedBy = "command"
CommandsAnswered == (\E s \in Sockets : Waiting(s)) ~> \A s \in Sockets : ~Waiting(s)
=============================================================================
