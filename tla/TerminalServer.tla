--------------------------- MODULE TerminalServer ---------------------------
(***************************************************************************)
(* terminal-server.js: one session per accepted WebSocket, the pseudo-     *)
(* terminals (PTYs) it spawns, and the loops that kill them.  Node runs    *)
(* one task at a time: an action is one task with the microtasks that      *)
(* follow it, so a handler is cut in two only where it awaits an axios     *)
(* request or a timer of killPtyProcess.                                   *)
(***************************************************************************)
EXTENDS TerminalLink

CONSTANT MaxKills      \* maxAttempts of killPtyProcess
ASSUME KillsAssumption == MaxKills \in Nat \ {0}

VARIABLES
    srv,    \* [Sockets -> the handler's phase and the userSession it holds]
    ptys    \* the PTY processes in the order they are spawned

serverVars == <<srv, ptys>>

(* A loop is what is awaited by "command" or "close", or by nobody, and    *)
(* the number of kills written.  Every timer of the loops is of 500 ms, so *)
(* they fire in the order in which they are armed: loops are a queue.      *)
Loops == [awaitedBy : {"command", "close", "nobody"}, killAttempts : 1 .. MaxKills]

Phases == {"none",      \* verifyClient has not called back
           "fetching",  \* awaits /terminal/auth/ips; ws has no listener yet
           "serving",   \* listeners attached
           "leaked",    \* listeners attached to a ws that had closed before
           "over"}      \* refused, or gone with the process

NoPty == 0
Session(phase) == [phase |-> phase, registered |-> FALSE, ptyProcess |-> NoPty,
                   isActive |-> FALSE, loops |-> <<>>]

UserSessions == [phase : Phases, registered : BOOLEAN, ptyProcess : Nat,
                 isActive : BOOLEAN, loops : Seq(Loops)]

Processes == [owner : Sockets, alive : BOOLEAN, timer : BOOLEAN]

ServerTypeOK ==
    /\ srv \in [Sockets -> UserSessions]
    /\ ptys \in Seq(Processes)
    /\ \A s \in Sockets : srv[s].ptyProcess \in 0 .. Len(ptys)

ServerInit ==
    /\ srv = [s \in Sockets |-> Session("none")]
    /\ ptys = <<>>

-----------------------------------------------------------------------------
(* verifyClient: /terminal/auth answers, and the upgrade is completed or   *)
(* refused.                                                                *)
VerifyClient(s) ==
    /\ rs[s] # "NEW" /\ srv[s].phase = "none"
    /\ \/ /\ srv' = [srv EXCEPT ![s].phase = "fetching"]
          /\ ws' = [ws EXCEPT ![s] = "open"]
          /\ down' = ToPage(s, "accept")
          /\ UNCHANGED used
       \/ /\ Fault
          /\ srv' = [srv EXCEPT ![s] = Session("over")]
          /\ ws' = [ws EXCEPT ![s] = "closed"]
          /\ down' = ToPage(s, "fail")
    /\ UNCHANGED <<rs, up, frozen, ptys>>

(* The rest of the connection handler, after /terminal/auth/ips: the       *)
(* session is registered and the listeners are attached, or the socket is  *)
(* closed with code 1011.                                                  *)
Authorized(s) ==
    /\ srv[s].phase = "fetching"
    /\ \/ /\ srv' = [srv EXCEPT ![s].registered = TRUE,
                                ![s].phase = IF ws[s] = "open" THEN "serving" ELSE "leaked"]
          /\ UNCHANGED <<ws, down, used>>
       \/ /\ Fault
          /\ srv' = [srv EXCEPT ![s] = Session("over")]
          /\ ws' = [ws EXCEPT ![s] = "closed"]
          /\ down' = ToPage(s, "drop")
    /\ UNCHANGED <<rs, up, frozen, ptys>>

-----------------------------------------------------------------------------
(* pty.spawn, for a command with a timeout: SshMultiplexingHelper puts one *)
(* in every command.                                                       *)
Spawn(s, session) ==
    /\ ptys' = Append(ptys, [owner |-> s, alive |-> TRUE, timer |-> TRUE])
    /\ srv' = [srv EXCEPT ![s] = [session EXCEPT !.ptyProcess = Len(ptys) + 1,
                                                 !.isActive = TRUE]]
    /\ down' = ToPage(s, "pty-ready")

(* No target host in the command, or one that is not authorized. *)
Reject(s, session) ==
    /\ srv' = [srv EXCEPT ![s] = session]
    /\ down' = ToPage(s, "rejected")
    /\ UNCHANGED ptys

(* handleCommand from line 250 on. *)
RunCommand(s, session) == Spawn(s, session) \/ Reject(s, session)

(* killPtyProcess up to its first timer; without a PTY it returns false at *)
(* once, and its caller goes on.                                           *)
CanKill(session) == session.registered /\ session.ptyProcess # NoPty
Kill(session, caller) ==
    [session EXCEPT !.loops = Append(@, [awaitedBy |-> caller, killAttempts |-> 1])]

KillForMutant(session, caller) ==   \* mutant: handleClose gives up without a PTY
    IF CanKill(session) THEN Kill(session, caller) ELSE session

KillFor(session, caller) ==
    CASE CanKill(session) -> Kill(session, caller)
      [] ~CanKill(session) /\ caller = "close" -> [session EXCEPT !.registered = FALSE]
      [] OTHER -> session

(* The rest of handleClose: the session goes, whether its PTY died or not. *)
DeregisterMutant(s, session, killed) ==   \* mutant: kept when the kill failed
    srv' = [srv EXCEPT ![s] = [session EXCEPT !.registered = ~killed]]

Deregister(s, session, killed) ==
    srv' = [srv EXCEPT ![s] = [session EXCEPT !.registered = FALSE]]

(* What follows the await of killPtyProcess in its caller. *)
Resume(s, session, caller, killed) ==
    \/ /\ caller = "command" /\ killed
       /\ RunCommand(s, session)
    \/ /\ caller = "command" /\ ~killed
       /\ srv' = [srv EXCEPT ![s] = session]
       /\ down' = ToPage(s, "unprocessable")
       /\ UNCHANGED ptys
    \/ /\ caller = "close"
       /\ Deregister(s, session, killed)
       /\ UNCHANGED <<down, ptys>>
    \/ /\ caller = "nobody"
       /\ srv' = [srv EXCEPT ![s] = session]
       /\ UNCHANGED <<down, ptys>>

(* The loop at the head of the queue writes one more kill. *)
AttemptKillMutant(session) ==   \* mutant: killAttempts++ is missing
    [session EXCEPT !.loops = Append(Tail(@), Head(@))]

AttemptKill(session) ==
    LET loop == Head(session.loops)
        next == [loop EXCEPT !.killAttempts = loop.killAttempts + 1]
    IN  [session EXCEPT !.loops = Append(Tail(@), next)]

MoreAttemptsMutant(loop) == loop.killAttempts <= MaxKills   \* mutant: off by one
MoreAttempts(loop) == loop.killAttempts < MaxKills

(* The timer of the oldest loop of a session fires. *)
KillTick(s) ==
    /\ srv[s].loops # <<>>
    /\ LET session == srv[s]
           loop == Head(session.loops)
           rest == [session EXCEPT !.loops = Tail(@)]
       IN  \/ /\ ~session.isActive
              /\ Resume(s, rest, loop.awaitedBy, TRUE)
           \/ /\ session.isActive /\ MoreAttempts(loop)
              /\ srv' = [srv EXCEPT ![s] = AttemptKill(session)]
              /\ UNCHANGED <<down, ptys>>
           \/ /\ session.isActive /\ ~MoreAttempts(loop)
              /\ Resume(s, rest, loop.awaitedBy, FALSE)
    /\ UNCHANGED <<rs, ws, up, frozen, used>>

-----------------------------------------------------------------------------
(* handleMessage and the entries of messageHandlers that change a session. *)
HandleCommandMutant(s) == RunCommand(s, srv[s])   \* mutant: nothing is killed first

HandleCommand(s) ==
    \/ /\ srv[s].isActive
       /\ srv' = [srv EXCEPT ![s] = Kill(@, "command")]
       /\ UNCHANGED <<down, ptys>>
    \/ /\ ~srv[s].isActive
       /\ RunCommand(s, srv[s])

(* checkActive: force, the only one the page sends; the answer when there  *)
(* is nothing to kill has no effect on the page.                           *)
CheckActive(s) ==
    /\ srv' = IF srv[s].isActive THEN [srv EXCEPT ![s] = KillFor(@, "nobody")] ELSE srv
    /\ UNCHANGED <<down, ptys>>

HandleMessage(s, message) ==
    \/ message = "command" /\ HandleCommand(s)
    \/ message = "checkActive" /\ CheckActive(s)
    \/ message = "ping" /\ down' = ToPage(s, "pong") /\ UNCHANGED <<srv, ptys>>

(* A message: before the listeners are attached, nobody gets it. *)
ServerReceive(s) ==
    /\ ws[s] = "open" /\ s \notin frozen
    /\ up[s] # <<>> /\ Head(up[s]) # "close"
    /\ up' = [up EXCEPT ![s] = Tail(@)]
    /\ \/ srv[s].phase = "serving" /\ HandleMessage(s, Head(up[s]))
       \/ srv[s].phase = "fetching" /\ UNCHANGED <<down, srv, ptys>>
    /\ UNCHANGED <<rs, ws, frozen, used>>

(* The close event, with handleClose when its listener is attached. *)
ServerClose(s) ==
    /\ ws[s] = "open" /\ s \notin frozen
    /\ up[s] # <<>> /\ Head(up[s]) = "close"
    /\ up' = [up EXCEPT ![s] = Tail(@)]
    /\ ws' = [ws EXCEPT ![s] = "closed"]
    /\ down' = ToPage(s, "clean")
    /\ srv' = IF srv[s].phase = "serving"
              THEN [srv EXCEPT ![s] = KillFor(@, "close")] ELSE srv
    /\ UNCHANGED <<rs, frozen, used, ptys>>

-----------------------------------------------------------------------------
(* onExit: the shell ends by itself, by a kill or with its SSH connection. *)
PtyExitMutant(p) ==   \* mutant: isActive is left as it is
    /\ ptys[p].alive
    /\ ptys' = [ptys EXCEPT ![p].alive = FALSE]
    /\ down' = ToPage(ptys[p].owner, "pty-exited")
    /\ UNCHANGED <<rs, ws, up, frozen, used, srv>>

PtyExit(p) ==
    /\ ptys[p].alive
    /\ ptys' = [ptys EXCEPT ![p].alive = FALSE]
    /\ srv' = [srv EXCEPT ![ptys[p].owner].isActive = FALSE]
    /\ down' = ToPage(ptys[p].owner, "pty-exited")
    /\ UNCHANGED <<rs, ws, up, frozen, used>>

(* The timeout of the command kills whatever its session runs then. *)
PtyTimeout(p) ==
    /\ ptys[p].timer
    /\ ptys' = [ptys EXCEPT ![p].timer = FALSE]
    /\ srv' = [srv EXCEPT ![ptys[p].owner] = KillFor(@, "nobody")]
    /\ UNCHANGED linkVars

(* The container of the terminal server restarts: every session, timer     *)
(* and PTY is gone, and every connection is lost.                          *)
ServerRestart ==
    /\ Fault
    /\ srv' = [s \in Sockets |-> IF rs[s] = "NEW" THEN srv[s] ELSE Session("over")]
    /\ ws' = [s \in Sockets |-> IF rs[s] = "NEW" THEN ws[s] ELSE "closed"]
    /\ ptys' = [p \in DOMAIN ptys |-> [ptys[p] EXCEPT !.alive = FALSE, !.timer = FALSE]]
    /\ up' = [s \in Sockets |-> <<>>]
    /\ down' = [s \in Sockets |->
                  IF ~Live(s) \/ EndsWith(down[s], Ends) THEN down[s]
                  ELSE Append(down[s], IF rs[s] = "CONNECTING" /\ down[s] = <<>>
                                       THEN "fail" ELSE "drop")]
    /\ UNCHANGED <<rs, frozen>>

ServerNext ==
    \/ \E s \in Sockets : \/ VerifyClient(s) \/ Authorized(s)
                          \/ ServerReceive(s) \/ ServerClose(s) \/ KillTick(s)
    \/ \E p \in DOMAIN ptys : PtyExit(p) \/ PtyTimeout(p)
    \/ ServerRestart
=============================================================================
