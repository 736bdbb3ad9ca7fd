------------------------ MODULE TerminalSessionProofs ------------------------
(***************************************************************************)
(* What becomes of a session.  When its socket closes, either handleClose  *)
(* has a loop at work that will deregister it, or it never ran anything;   *)
(* and as long as its socket is open, the page is told in the order of     *)
(* events whether a PTY runs in it.                                        *)
(***************************************************************************)
EXTENDS TerminalReconnectProofs

-----------------------------------------------------------------------------
(* Sweeping: what a session must be, given the state w of its socket.      *)
CloseAwaits(loops) == \E i \in 1 .. Len(loops) : loops[i].awaitedBy = "close"

Swept(session, w) ==
    /\ session.phase = "over" => ~session.registered /\ session.loops = <<>>
    /\ session.phase = "leaked" => session.ptyProcess = NoPty /\ session.loops = <<>>
    /\ session.phase = "serving" /\ session.registered /\ w = "closed" =>
         CloseAwaits(session.loops)

SweepInv == \A s \in Sockets : Swept(srv[s], ws[s])

LEMMA CloseAppended ==
    ASSUME NEW q \in Seq(Loops), NEW x \in Loops, CloseAwaits(q) \/ x.awaitedBy = "close"
    PROVE  CloseAwaits(Append(q, x))
<1>1. /\ Len(q) \in Nat /\ Len(Append(q, x)) = Len(q) + 1
      /\ Append(q, x)[Len(q) + 1] = x
      /\ \A i \in 1 .. Len(q) : Append(q, x)[i] = q[i]
  OBVIOUS
<1> QED BY <1>1 DEF CloseAwaits

LEMMA CloseBehind ==
    ASSUME NEW q \in Seq(Loops), q # <<>>, CloseAwaits(q), Head(q).awaitedBy # "close"
    PROVE  CloseAwaits(Tail(q))
<1>1. PICK i \in 1 .. Len(q) : q[i].awaitedBy = "close"
  BY DEF CloseAwaits
<1>2. i # 1
  BY <1>1
<1>3. i - 1 \in 1 .. Len(Tail(q)) /\ Tail(q)[i - 1] = q[i]
  BY <1>1, <1>2
<1> QED BY <1>1, <1>3 DEF CloseAwaits

(* Loops of a session that is served may grow, and it may be deregistered. *)
LEMMA SweptLater ==
    ASSUME NEW old, NEW new, NEW w, Swept(old, w), new.phase = "serving", old.phase = "serving",
           new.registered => old.registered,
           CloseAwaits(old.loops) => CloseAwaits(new.loops) \/ ~new.registered
    PROVE  Swept(new, w)
BY DEF Swept

LEMMA KillSwept ==
    ASSUME NEW session \in UserSessions, NEW caller \in Callers, NEW w,
           session.phase = "serving", Swept(session, w) \/ caller = "close"
    PROVE  Swept(Kill(session, caller), w)
<1> DEFINE loop == [awaitedBy |-> caller, killAttempts |-> 1]
           queue == Append(session.loops, loop)
<1>1. Kill(session, caller) = [session EXCEPT !.loops = queue]
  BY DEF Kill
<1>2. loop \in Loops /\ loop.awaitedBy = caller /\ session.loops \in Seq(Loops)
  BY KillsAssumption DEF Loops, Callers, UserSessions
<1> HIDE DEF loop
<1>3. CloseAwaits(session.loops) \/ caller = "close" => CloseAwaits(queue)
  BY <1>2, CloseAppended
<1> HIDE DEF queue
<1>4. /\ Kill(session, caller).loops = queue /\ Kill(session, caller).phase = session.phase
      /\ Kill(session, caller).registered = session.registered
  BY <1>1 DEF UserSessions
<1> QED BY <1>3, <1>4 DEF Swept

(* KillFor for nobody leaves a session that is not served as it is.        *)
LEMMA KillForNobodySwept ==
    ASSUME NEW session \in UserSessions, NEW w, Swept(session, w), Pristine(session)
    PROVE  Swept(KillFor(session, "nobody"), w)
<1>1. CASE ~CanKill(session)
  BY <1>1 DEF KillFor
<1>2. CASE CanKill(session)
  <2>1. session.phase = "serving"
    <3>1. session.phase \notin {"over", "leaked"}
      BY <1>2 DEF CanKill, Swept
    <3>2. session.phase \notin Young
      BY <1>2, SessionTyped DEF CanKill, Pristine, Young, Phases
    <3> QED BY <3>1, <3>2 DEF UserSessions, Phases, Young
  <2>2. KillFor(session, "nobody") = Kill(session, "nobody")
    BY <1>2 DEF KillFor
  <2> QED BY <2>1, <2>2, KillSwept DEF Callers
<1> QED BY <1>1, <1>2

(* handleClose: a loop for the close, or the session is gone at once.      *)
LEMMA KillForCloseSwept ==
    ASSUME NEW session \in UserSessions, session.phase = "serving"
    PROVE  Swept(KillFor(session, "close"), "closed")
<1>1. CASE CanKill(session)
  <2>1. KillFor(session, "close") = Kill(session, "close")
    BY <1>1 DEF KillFor
  <2> QED BY <2>1, KillSwept DEF Callers
<1>2. CASE ~CanKill(session)
  <2>1. KillFor(session, "close") = [session EXCEPT !.registered = FALSE]
    BY <1>2 DEF KillFor
  <2> QED BY <2>1 DEF Swept, UserSessions
<1> QED BY <1>1, <1>2

(* One session changes, and its socket stays as it is. *)
LEMMA OneSwept ==
    ASSUME LinkTypeOK, ServerTypeOK, SweepInv, NEW s \in Sockets, NEW session,
           srv' = [srv EXCEPT ![s] = session], Swept(session, ws[s]), ws' = ws
    PROVE  SweepInv'
BY DEF SweepInv, ServerTypeOK

LEMMA SameSwept ==
    ASSUME SweepInv, UNCHANGED <<srv, ws>> PROVE SweepInv'
BY DEF SweepInv

-----------------------------------------------------------------------------
(* The tasks of the server *)
LEMMA ConnectingSwept ==
    ASSUME LinkTypeOK, ServerTypeOK, SessionInv, SweepInv, NEW s \in Sockets,
           VerifyClient(s) \/ Authorized(s)
    PROVE  SweepInv'
<1>1. /\ srv[s].phase \in Young /\ srv[s] \in UserSessions
      /\ ~srv[s].registered /\ srv[s].ptyProcess = NoPty /\ srv[s].loops = <<>>
  <2>1. srv[s].phase \in Young
    BY DEF VerifyClient, Authorized, Young
  <2>2. srv[s] = Session(srv[s].phase) /\ srv[s].phase \in Phases
    BY <2>1 DEF SessionInv, Pristine, Young, Phases
  <2> QED BY <2>1, <2>2, SessionTyped DEF ServerTypeOK
<1>2. ASSUME NEW session, NEW w, srv' = [srv EXCEPT ![s] = session],
             Swept(session, ws'[s]), ws' = ws \/ ws' = [ws EXCEPT ![s] = w]
      PROVE  SweepInv'
  BY <1>2 DEF SweepInv, ServerTypeOK, LinkTypeOK
<1>3. CASE srv' = [srv EXCEPT ![s].phase = "fetching"] /\ ws' = [ws EXCEPT ![s] = "open"]
  <2> DEFINE session == [srv[s] EXCEPT !.phase = "fetching"]
  <2>1. srv' = [srv EXCEPT ![s] = session] /\ session.phase = "fetching"
    BY <1>1, <1>3 DEF UserSessions
  <2> HIDE DEF session
  <2> QED BY <1>2, <1>3, <2>1 DEF Swept
<1>4. CASE srv' = [srv EXCEPT ![s] = Session("over")] /\ ws' = [ws EXCEPT ![s] = "closed"]
  <2>1. /\ Session("over").phase = "over" /\ ~Session("over").registered
        /\ Session("over").loops = <<>>
    BY SessionTyped DEF Phases
  <2> QED BY <1>2, <1>4, <2>1 DEF Swept
<1>5. CASE /\ srv' = [srv EXCEPT ![s].registered = TRUE,
                                 ![s].phase = IF ws[s] = "open" THEN "serving" ELSE "leaked"]
           /\ UNCHANGED ws
  <2> DEFINE phase == IF ws[s] = "open" THEN "serving" ELSE "leaked"
             session == [srv[s] EXCEPT !.registered = TRUE, !.phase = phase]
  <2>1. srv' = [srv EXCEPT ![s] = session]
    BY <1>5 DEF ServerTypeOK
  <2>2. phase = "leaked" \/ (phase = "serving" /\ ws[s] # "closed")
    OBVIOUS
  <2> HIDE DEF phase
  <2>3. session.phase = phase /\ session.ptyProcess = NoPty /\ session.loops = <<>>
    BY <1>1 DEF UserSessions
  <2> HIDE DEF session
  <2> QED BY <1>2, <1>5, <2>1, <2>2, <2>3 DEF Swept
<1> QED BY <1>3, <1>4, <1>5 DEF VerifyClient, Authorized

(* Running a command leaves the loops and the registration alone. *)
LEMMA RunCommandSwept ==
    ASSUME LinkTypeOK, ServerTypeOK, SweepInv, NEW s \in Sockets,
           NEW session \in UserSessions, session.phase = "serving", Swept(session, ws[s]),
           RunCommand(s, session), ws' = ws
    PROVE  SweepInv'
<1>1. CASE Spawn(s, session)
  <2> DEFINE n == Len(ptys) + 1
             new == [session EXCEPT !.ptyProcess = n, !.isActive = TRUE]
  <2>1. srv' = [srv EXCEPT ![s] = new]
    BY <1>1 DEF Spawn
  <2> HIDE DEF n
  <2>2. /\ new.phase = session.phase /\ new.loops = session.loops
        /\ new.registered = session.registered
    BY DEF UserSessions
  <2> HIDE DEF new
  <2>3. Swept(new, ws[s])
    BY <2>2, SweptLater
  <2> QED BY <2>1, <2>3, OneSwept
<1>2. CASE Reject(s, session)
  BY <1>2, OneSwept DEF Reject
<1> QED BY <1>1, <1>2 DEF RunCommand

LEMMA ServerReceiveSwept ==
    ASSUME LinkTypeOK, ServerTypeOK, SessionInv, SweepInv, NEW s \in Sockets, ServerReceive(s)
    PROVE  SweepInv'
<1>1. ws' = ws /\ srv[s] \in UserSessions /\ Swept(srv[s], ws[s]) /\ Pristine(srv[s])
  BY DEF ServerReceive, ServerTypeOK, SweepInv, SessionInv
<1>2. CASE UNCHANGED srv
  BY <1>1, <1>2, SameSwept
<1>3. CASE srv[s].phase = "serving" /\ HandleCommand(s)
  <2>1. CASE srv' = [srv EXCEPT ![s] = Kill(@, "command")]
    <3>1. srv' = [srv EXCEPT ![s] = Kill(srv[s], "command")]
      BY <2>1
    <3>2. Swept(Kill(srv[s], "command"), ws[s])
      BY <1>1, <1>3, KillSwept DEF Callers
    <3> QED BY <1>1, <3>1, <3>2, OneSwept
  <2>2. CASE RunCommand(s, srv[s])
    BY <1>1, <1>3, <2>2, RunCommandSwept
  <2> QED BY <1>3, <2>1, <2>2 DEF HandleCommand
<1>4. CASE CheckActive(s)
  <2>1. CASE srv' = [srv EXCEPT ![s] = KillFor(@, "nobody")]
    <3>1. srv' = [srv EXCEPT ![s] = KillFor(srv[s], "nobody")]
      BY <2>1
    <3>2. Swept(KillFor(srv[s], "nobody"), ws[s])
      BY <1>1, KillForNobodySwept
    <3> QED BY <1>1, <3>1, <3>2, OneSwept
  <2> QED BY <1>2, <1>4, <2>1 DEF CheckActive
<1> QED BY <1>2, <1>3, <1>4 DEF ServerReceive, HandleMessage

LEMMA ServerCloseSwept ==
    ASSUME LinkTypeOK, ServerTypeOK, SweepInv, NEW s \in Sockets, ServerClose(s)
    PROVE  SweepInv'
<1>1. /\ ws'[s] = "closed" /\ \A t \in Sockets \ {s} : ws'[t] = ws[t]
      /\ srv[s] \in UserSessions /\ Swept(srv[s], ws[s])
  BY DEF ServerClose, LinkTypeOK, ServerTypeOK, SweepInv
<1>2. CASE srv[s].phase = "serving"
  <2> DEFINE session == KillFor(srv[s], "close")
  <2>1. srv' = [srv EXCEPT ![s] = session]
    BY <1>2 DEF ServerClose
  <2>2. Swept(session, "closed")
    BY <1>1, <1>2, KillForCloseSwept
  <2> HIDE DEF session
  <2> QED BY <1>1, <2>1, <2>2 DEF SweepInv, ServerTypeOK
<1>3. CASE srv[s].phase # "serving"
  <2>1. srv' = srv
    BY <1>3 DEF ServerClose
  <2>2. Swept(srv[s], "closed")
    BY <1>1, <1>3 DEF Swept
  <2> QED BY <1>1, <2>1, <2>2 DEF SweepInv
<1> QED BY <1>2, <1>3

(* Only a session that is served has loops.  The one that ends the session *)
(* is never dropped without deregistering it.                              *)
LEMMA KillTickSwept ==
    ASSUME LinkTypeOK, ServerTypeOK, SessionInv, SweepInv, NEW s \in Sockets, KillTick(s)
    PROVE  SweepInv'
<1> DEFINE session == srv[s]
           loop == Head(session.loops)
           queue == Tail(session.loops)
           rest == [session EXCEPT !.loops = queue]
<1>1. /\ session \in UserSessions /\ session.loops # <<>> /\ session.loops \in Seq(Loops)
      /\ Swept(session, ws[s]) /\ ws' = ws
  BY DEF ServerTypeOK, KillTick, SweepInv, UserSessions
<1>2. session.phase = "serving"
  <2>1. session.phase \notin Young
    BY <1>1, YoungSession
  <2>2. session.phase \notin {"over", "leaked"}
    BY <1>1 DEF Swept
  <2> QED BY <1>1, <2>1, <2>2 DEF UserSessions, Phases, Young
<1>3. loop \in Loops /\ queue \in Seq(Loops)
  BY <1>1
<1>4. loop.awaitedBy # "close" /\ CloseAwaits(session.loops) => CloseAwaits(queue)
  BY <1>1, CloseBehind
<1>5. \/ Resume(s, rest, loop.awaitedBy, TRUE)
      \/ /\ MoreAttempts(loop) /\ srv' = [srv EXCEPT ![s] = AttemptKill(session)]
      \/ Resume(s, rest, loop.awaitedBy, FALSE)
  BY DEF KillTick
<1>6. CASE MoreAttempts(loop) /\ srv' = [srv EXCEPT ![s] = AttemptKill(session)]
  <2> DEFINE n == loop.killAttempts + 1
             next == [loop EXCEPT !.killAttempts = n]
             longer == Append(queue, next)
  <2>1. AttemptKill(session) = [session EXCEPT !.loops = longer]
    BY DEF AttemptKill
  <2>2. n \in 1 .. MaxKills
    BY <1>3, <1>6, KillsAssumption DEF MoreAttempts, Loops
  <2> HIDE DEF n, loop
  <2>3. next \in Loops /\ next.awaitedBy = loop.awaitedBy
    BY <1>3, <2>2 DEF Loops
  <2> HIDE DEF next, queue
  <2>4. CloseAwaits(session.loops) => CloseAwaits(longer)
    BY <1>3, <1>4, <2>3, CloseAppended
  <2> HIDE DEF longer
  <2>5. /\ AttemptKill(session).loops = longer /\ AttemptKill(session).phase = session.phase
        /\ AttemptKill(session).registered = session.registered
    BY <1>1, <2>1 DEF UserSessions
  <2>6. Swept(AttemptKill(session), ws[s])
    BY <1>1, <1>2, <2>4, <2>5, SweptLater
  <2> QED BY <1>1, <1>6, <2>6, OneSwept
<1> HIDE DEF loop, queue
<1>7. /\ rest \in UserSessions /\ rest.phase = session.phase /\ rest.loops = queue
      /\ rest.registered = session.registered
  BY <1>1, <1>3 DEF UserSessions
<1> HIDE DEF rest
<1>8. ASSUME loop.awaitedBy # "close" PROVE Swept(rest, ws[s])
  BY <1>1, <1>2, <1>4, <1>7, <1>8, SweptLater
<1>9. ASSUME NEW killed \in BOOLEAN, Resume(s, rest, loop.awaitedBy, killed) PROVE SweepInv'
  <2>1. CASE loop.awaitedBy = "command" /\ RunCommand(s, rest)
    BY <1>1, <1>2, <1>7, <1>8, <2>1, RunCommandSwept
  <2>2. CASE loop.awaitedBy # "close" /\ srv' = [srv EXCEPT ![s] = rest]
    BY <1>1, <1>8, <2>2, OneSwept
  <2>3. CASE Deregister(s, rest, killed)
    <3>1. srv' = [srv EXCEPT ![s] = [rest EXCEPT !.registered = FALSE]]
      BY <2>3 DEF Deregister
    <3>2. Swept([rest EXCEPT !.registered = FALSE], ws[s])
      BY <1>2, <1>7 DEF Swept, UserSessions
    <3> QED BY <1>1, <3>1, <3>2, OneSwept
  <2> QED BY <1>9, <2>1, <2>2, <2>3 DEF Resume
<1> QED BY <1>5, <1>6, <1>9

LEMMA PtySwept ==
    ASSUME LinkTypeOK, ServerTypeOK, SessionInv, SweepInv, NEW p \in DOMAIN ptys,
           PtyExit(p) \/ PtyTimeout(p)
    PROVE  SweepInv'
<1> DEFINE s == ptys[p].owner
<1>1. s \in Sockets
  <2>1. ptys[p] \in Processes
    BY DEF ServerTypeOK
  <2> QED BY <2>1 DEF Processes
<1>2. /\ srv[s] \in UserSessions /\ Swept(srv[s], ws[s]) /\ Pristine(srv[s])
      /\ ws' = ws
  BY <1>1 DEF ServerTypeOK, SweepInv, SessionInv, PtyExit, PtyTimeout, linkVars
<1>3. CASE PtyExit(p)
  <2> DEFINE session == [srv[s] EXCEPT !.isActive = FALSE]
  <2>1. srv' = [srv EXCEPT ![s] = session]
    BY <1>3 DEF PtyExit
  <2>2. Swept(session, ws[s])
    BY <1>2 DEF Swept, UserSessions
  <2> HIDE DEF session, s
  <2> QED BY <1>1, <1>2, <2>1, <2>2, OneSwept
<1>4. CASE PtyTimeout(p)
  <2> DEFINE session == KillFor(srv[s], "nobody")
  <2>1. srv' = [srv EXCEPT ![s] = session]
    BY <1>4 DEF PtyTimeout
  <2>2. Swept(session, ws[s])
    BY <1>2, KillForNobodySwept
  <2> HIDE DEF session, s
  <2> QED BY <1>1, <1>2, <2>1, <2>2, OneSwept
<1> QED BY <1>3, <1>4

LEMMA ServerRestartSwept ==
    ASSUME SweepInv, ServerRestart PROVE SweepInv'
<1>1. /\ Session("over").phase = "over" /\ ~Session("over").registered
      /\ Session("over").loops = <<>>
  BY SessionTyped DEF Phases
<1>2. \A s \in Sockets : \/ srv'[s] = srv[s] /\ ws'[s] = ws[s]
                         \/ srv'[s] = Session("over")
  BY DEF ServerRestart
<1> QED BY <1>1, <1>2 DEF SweepInv, Swept

LEMMA SweepInductive == Inv /\ SweepInv /\ [Next]_vars => SweepInv'
<1> SUFFICES ASSUME Inv, SweepInv, [Next]_vars PROVE SweepInv'
  OBVIOUS
<1>1. LinkTypeOK /\ ServerTypeOK /\ SessionInv
  BY DEF Inv, TypeOK
<1>2. CASE ServerNext
  BY <1>1, <1>2, ConnectingSwept, ServerReceiveSwept, ServerCloseSwept, KillTickSwept,
     PtySwept, ServerRestartSwept, SMTT(60) DEF ServerNext
<1>3. CASE (PageStep \/ UserStep) /\ UNCHANGED serverVars
  <2>1. ws' = ws
    BY <1>3 DEF PageStep, UserStep, Boot, Reconnect, StrayReconnect, ConnectionTimeout,
         PingTimeout, linkVars, PageReceive, SendCommandWhenReady, Hide, Show, Cleanup
  <2> QED BY <1>3, <2>1, SameSwept DEF serverVars
<1>4. ASSUME NEW s \in Sockets, Lose(s) \/ Freeze(s), UNCHANGED <<serverVars, page>>
      PROVE  SweepInv'
  BY <1>4, SameSwept DEF Lose, Freeze, serverVars
<1>5. CASE UNCHANGED vars
  BY <1>5, SameSwept DEF vars, linkVars, serverVars
<1> QED BY <1>2, <1>3, <1>4, <1>5 DEF Next

LEMMA SweepInitially == Init => SweepInv
<1> SUFFICES ASSUME Init PROVE SweepInv
  OBVIOUS
<1>1. \A s \in Sockets : srv[s].phase = "none"
  BY SessionTyped DEF Init, ServerInit, Phases
<1> QED BY <1>1 DEF SweepInv, Swept

(* A session outlives its socket only with handleClose at work on it, or   *)
(* without ever having run a command.                                      *)
THEOREM ClosedAreSwept == Spec => []ClosedIsSwept
<1>1. Inv /\ SweepInv => ClosedIsSwept
  <2> SUFFICES ASSUME Inv, SweepInv, NEW s \in Sockets, ws[s] = "closed", srv[s].registered
               PROVE  IF srv[s].phase = "leaked"
                      THEN srv[s].ptyProcess = NoPty
                      ELSE \E i \in DOMAIN srv[s].loops : srv[s].loops[i].awaitedBy = "close"
    BY DEF ClosedIsSwept
  <2>1. Swept(srv[s], ws[s]) /\ srv[s] \in UserSessions
    BY DEF SweepInv, Inv, TypeOK, ServerTypeOK
  <2>2. srv[s].phase \notin Young
    BY YoungSession DEF Inv
  <2>3. srv[s].phase \in {"serving", "leaked"}
    BY <2>1, <2>2 DEF Swept, UserSessions, Phases, Young
  <2>4. DOMAIN srv[s].loops = 1 .. Len(srv[s].loops)
    BY <2>1 DEF UserSessions
  <2> QED BY <2>1, <2>3, <2>4 DEF Swept, CloseAwaits
<1> QED BY <1>1, Invariant, SweepInitially, SweepInductive, PTL DEF Spec

-----------------------------------------------------------------------------
(* What a task of the server tells the page: good news, bad news, or ends. *)
Claims == {"pty-ready", "unprocessable"}
Denies == {"pty-exited", "rejected"}

(* No task but the handshake's own accepts a socket, and none but an end   *)
(* is sent before the handshake.                                           *)
Sends(s) ==
    /\ rs' = rs
    /\ \A t \in Sockets : srv'[t].phase = "none" => srv[t].phase = "none"
    /\ \/ down' = down
       \/ \E m \in DownMessages \ {"accept"} :
            /\ down' = ToPage(s, m)
            /\ m \in Ends \/ srv'[s].phase # "none"

(* A task that leaves a session active tells its page nothing bad, and a   *)
(* task that makes it active claims so.                                    *)
Reports(s) ==
    srv'[s].isActive =>
        \/ down' = down /\ srv[s].isActive
        \/ \E m \in DownMessages \ Denies :
             down' = ToPage(s, m) /\ (m \in Claims \/ srv[s].isActive)

Elsewhere(s) ==
    \A t \in Sockets \ {s} : /\ srv'[t].isActive => srv[t].isActive
                            /\ down'[t] = down[t]

Acts(s) == Sends(s) /\ Reports(s) /\ Elsewhere(s)

LEMMA PhaseKept ==
    ASSUME ServerTypeOK, NEW t \in Sockets, NEW session,
           session.phase = "none" => srv[t].phase = "none",
           srv' = [srv EXCEPT ![t] = session]
    PROVE  \A s \in Sockets : srv'[s].phase = "none" => srv[s].phase = "none"
BY DEF ServerTypeOK

(* Writing to one session and its link leaves the others alone.            *)
LEMMA OneElsewhere ==
    ASSUME LinkTypeOK, ServerTypeOK, NEW s \in Sockets, NEW session,
           srv' = [srv EXCEPT ![s] = session],
           down' = down \/ \E m \in DownMessages : down' = ToPage(s, m)
    PROVE  Elsewhere(s) /\ srv'[s] = session
BY DEF Elsewhere, ToPage, LinkTypeOK, ServerTypeOK

(* A task that does not change what runs, and tells nothing bad.           *)
LEMMA SameRunActs ==
    ASSUME LinkTypeOK, ServerTypeOK, NEW s \in Sockets, NEW session,
           SameRun(srv[s], session), srv' = [srv EXCEPT ![s] = session], rs' = rs,
           \/ down' = down
           \/ \E m \in DownMessages \ (Denies \cup {"accept"}) :
                down' = ToPage(s, m) /\ (m \in Ends \/ srv[s].phase # "none")
    PROVE  Acts(s)
<1>1. Elsewhere(s) /\ srv'[s] = session
  BY OneElsewhere
<1>2. Sends(s)
  BY <1>1, PhaseKept DEF SameRun, Sends
<1>3. Reports(s)
  BY <1>1 DEF SameRun, Reports
<1> QED BY <1>1, <1>2, <1>3 DEF Acts

(* A task that ends with a session in which nothing runs.                  *)
LEMMA InactiveActs ==
    ASSUME LinkTypeOK, ServerTypeOK, NEW s \in Sockets, NEW session,
           ~session.isActive, session.phase # "none",
           srv' = [srv EXCEPT ![s] = session], rs' = rs,
           down' = down \/ \E m \in DownMessages \ {"accept"} : down' = ToPage(s, m)
    PROVE  Acts(s)
<1>1. Elsewhere(s) /\ srv'[s] = session
  BY OneElsewhere
<1>2. Sends(s)
  BY <1>1, PhaseKept DEF Sends
<1>3. Reports(s)
  BY <1>1 DEF Reports
<1> QED BY <1>1, <1>2, <1>3 DEF Acts

LEMMA RunCommandActs ==
    ASSUME LinkTypeOK, ServerTypeOK, NEW s \in Sockets, NEW session,
           SameRun(srv[s], session), ~srv[s].isActive, srv[s].phase # "none",
           RunCommand(s, session), rs' = rs
    PROVE  Acts(s)
<1>1. CASE Spawn(s, session)
  <2> DEFINE n == Len(ptys) + 1
             new == [session EXCEPT !.ptyProcess = n, !.isActive = TRUE]
  <2>1. srv' = [srv EXCEPT ![s] = new] /\ down' = ToPage(s, "pty-ready")
    BY <1>1 DEF Spawn
  <2>2. /\ "pty-ready" \in Claims /\ "pty-ready" \notin Denies
        /\ "pty-ready" \in DownMessages \ {"accept"}
    BY DEF Claims, Denies, DownMessages
  <2> HIDE DEF n
  <2>3. new.phase = srv[s].phase
    BY DEF SameRun, UserSessions
  <2> HIDE DEF new
  <2>4. Elsewhere(s) /\ srv'[s] = new
    BY <2>1, <2>2, OneElsewhere
  <2>5. Sends(s)
    BY <2>1, <2>2, <2>3, <2>4, PhaseKept DEF Sends
  <2>6. Reports(s)
    BY <2>1, <2>2 DEF Reports
  <2> QED BY <2>4, <2>5, <2>6 DEF Acts
<1>2. CASE Reject(s, session)
  <2>1. "rejected" \in DownMessages \ {"accept"}
    BY DEF DownMessages
  <2> QED BY <1>2, <2>1, InactiveActs DEF Reject, SameRun
<1> QED BY <1>1, <1>2 DEF RunCommand

LEMMA AuthorizedActs ==
    ASSUME LinkTypeOK, ServerTypeOK, SessionInv, NEW s \in Sockets, Authorized(s)
    PROVE  Acts(s)
<1>1. rs' = rs /\ srv[s] \in UserSessions /\ ~srv[s].isActive
  BY YoungSession DEF Authorized, ServerTypeOK, Young
<1>2. CASE /\ srv' = [srv EXCEPT ![s].registered = TRUE,
                                 ![s].phase = IF ws[s] = "open" THEN "serving" ELSE "leaked"]
           /\ UNCHANGED <<ws, down, used>>
  <2> DEFINE phase == IF ws[s] = "open" THEN "serving" ELSE "leaked"
             session == [srv[s] EXCEPT !.registered = TRUE, !.phase = phase]
  <2>1. srv' = [srv EXCEPT ![s] = session]
    BY <1>2 DEF ServerTypeOK
  <2>2. phase # "none"
    OBVIOUS
  <2> HIDE DEF phase
  <2>3. session.phase # "none" /\ ~session.isActive
    BY <1>1, <2>2 DEF UserSessions
  <2> HIDE DEF session
  <2> QED BY <1>1, <1>2, <2>1, <2>3, InactiveActs
<1>3. CASE srv' = [srv EXCEPT ![s] = Session("over")] /\ down' = ToPage(s, "drop")
  <2>1. "drop" \in DownMessages \ {"accept"}
    BY DEF DownMessages, Ends
  <2>2. Session("over").phase = "over" /\ ~Session("over").isActive
    BY SessionTyped DEF Phases
  <2> QED BY <1>1, <1>3, <2>1, <2>2, InactiveActs
<1> QED BY <1>2, <1>3 DEF Authorized

LEMMA ServerReceiveActs ==
    ASSUME LinkTypeOK, ServerTypeOK, NEW s \in Sockets, ServerReceive(s)
    PROVE  Acts(s)
<1>1. rs' = rs /\ srv[s] \in UserSessions /\ SameRun(srv[s], srv[s])
  BY DEF ServerReceive, ServerTypeOK, SameRun
<1>2. srv' = srv => srv' = [srv EXCEPT ![s] = srv[s]]
  BY DEF ServerTypeOK
<1>3. CASE srv[s].phase = "serving" /\ HandleCommand(s)
  <2>1. CASE srv' = [srv EXCEPT ![s] = Kill(@, "command")] /\ UNCHANGED <<down, ptys>>
    <3>1. srv' = [srv EXCEPT ![s] = Kill(srv[s], "command")] /\ down' = down
      BY <2>1
    <3>2. SameRun(srv[s], Kill(srv[s], "command"))
      BY <1>1, KillFacts DEF Callers
    <3> QED BY <1>1, <3>1, <3>2, SameRunActs
  <2>2. CASE ~srv[s].isActive /\ RunCommand(s, srv[s])
    BY <1>1, <1>3, <2>2, RunCommandActs
  <2> QED BY <1>3, <2>1, <2>2 DEF HandleCommand
<1>4. CASE CheckActive(s)
  <2>1. down' = down
    BY <1>4 DEF CheckActive
  <2>2. CASE srv' = [srv EXCEPT ![s] = KillFor(@, "nobody")]
    <3>1. srv' = [srv EXCEPT ![s] = KillFor(srv[s], "nobody")]
      BY <2>2
    <3>2. SameRun(srv[s], KillFor(srv[s], "nobody"))
      BY <1>1, KillForFacts DEF Callers
    <3> QED BY <1>1, <2>1, <3>1, <3>2, SameRunActs
  <2>3. CASE srv' = srv
    BY <1>1, <1>2, <2>1, <2>3, SameRunActs
  <2> QED BY <1>4, <2>2, <2>3 DEF CheckActive
<1>5. CASE srv[s].phase = "serving" /\ down' = ToPage(s, "pong") /\ UNCHANGED <<srv, ptys>>
  <2>1. "pong" \in DownMessages \ (Denies \cup {"accept"})
    BY DEF DownMessages, Denies
  <2> QED BY <1>1, <1>2, <1>5, <2>1, SameRunActs
<1>6. CASE UNCHANGED <<down, srv, ptys>>
  BY <1>1, <1>2, <1>6, SameRunActs
<1> QED BY <1>3, <1>4, <1>5, <1>6 DEF ServerReceive, HandleMessage

LEMMA ServerCloseActs ==
    ASSUME LinkTypeOK, ServerTypeOK, NEW s \in Sockets, ServerClose(s)
    PROVE  Acts(s)
<1>1. /\ rs' = rs /\ srv[s] \in UserSessions /\ down' = ToPage(s, "clean")
      /\ "clean" \in DownMessages \ (Denies \cup {"accept"}) /\ "clean" \in Ends
  BY DEF ServerClose, ServerTypeOK, DownMessages, Denies, Ends
<1>2. \E session : SameRun(srv[s], session) /\ srv' = [srv EXCEPT ![s] = session]
  <2>1. CASE srv' = [srv EXCEPT ![s] = KillFor(@, "close")]
    <3>1. srv' = [srv EXCEPT ![s] = KillFor(srv[s], "close")]
      BY <2>1
    <3> QED BY <1>1, <3>1, KillForFacts DEF Callers
  <2>2. CASE srv' = srv
    <3>1. srv' = [srv EXCEPT ![s] = srv[s]]
      BY <2>2 DEF ServerTypeOK
    <3> QED BY <1>1, <3>1 DEF SameRun
  <2> QED BY <2>1, <2>2 DEF ServerClose
<1> QED BY <1>1, <1>2, SameRunActs

LEMMA KillTickActs ==
    ASSUME LinkTypeOK, ServerTypeOK, SessionInv, NEW s \in Sockets, KillTick(s)
    PROVE  Acts(s)
<1> DEFINE session == srv[s]
           loop == Head(session.loops)
           rest == [session EXCEPT !.loops = Tail(@)]
<1>1. session \in UserSessions /\ session.loops # <<>> /\ rs' = rs
  BY DEF ServerTypeOK, KillTick
<1>2. srv[s].phase # "none"
  BY <1>1, YoungSession DEF Young
<1>3. SameRun(session, rest)
  BY <1>1, RestFacts
<1>4. \/ ~session.isActive /\ Resume(s, rest, loop.awaitedBy, TRUE)
      \/ /\ MoreAttempts(loop) /\ srv' = [srv EXCEPT ![s] = AttemptKill(session)]
         /\ down' = down
      \/ Resume(s, rest, loop.awaitedBy, FALSE)
  BY DEF KillTick
<1>5. SameRun(session, AttemptKill(session)) \/ ~MoreAttempts(loop)
  BY <1>1, AttemptFacts
<1> HIDE DEF rest, loop
<1>6. CASE /\ MoreAttempts(loop) /\ srv' = [srv EXCEPT ![s] = AttemptKill(session)]
           /\ down' = down
  BY <1>1, <1>5, <1>6, SameRunActs
<1>7. ASSUME NEW caller, NEW killed \in BOOLEAN, killed => ~session.isActive,
             Resume(s, rest, caller, killed)
      PROVE  Acts(s)
  <2>1. CASE killed /\ RunCommand(s, rest)
    BY <1>1, <1>2, <1>3, <1>7, <2>1, RunCommandActs
  <2>2. CASE srv' = [srv EXCEPT ![s] = rest] /\ down' = ToPage(s, "unprocessable")
    <3>1. "unprocessable" \in DownMessages \ (Denies \cup {"accept"})
      BY DEF DownMessages, Denies
    <3> QED BY <1>1, <1>2, <1>3, <2>2, <3>1, SameRunActs
  <2>3. CASE Deregister(s, rest, killed) /\ down' = down
    <3> DEFINE new == [rest EXCEPT !.registered = FALSE]
    <3>1. srv' = [srv EXCEPT ![s] = new]
      BY <2>3 DEF Deregister
    <3>2. SameRun(session, new)
      BY <1>3 DEF SameRun, UserSessions
    <3> HIDE DEF new
    <3> QED BY <1>1, <2>3, <3>1, <3>2, SameRunActs
  <2>4. CASE srv' = [srv EXCEPT ![s] = rest] /\ down' = down
    BY <1>1, <1>3, <2>4, SameRunActs
  <2> QED BY <1>7, <2>1, <2>2, <2>3, <2>4 DEF Resume
<1> QED BY <1>4, <1>6, <1>7

LEMMA PtyActs ==
    ASSUME LinkTypeOK, ServerTypeOK, SessionInv, NEW p \in DOMAIN ptys,
           PtyExit(p) \/ PtyTimeout(p)
    PROVE  \E s \in Sockets : Acts(s)
<1> DEFINE s == ptys[p].owner
<1>1. s \in Sockets
  <2>1. ptys[p] \in Processes
    BY DEF ServerTypeOK
  <2> QED BY <2>1 DEF Processes
<1>2. srv[s] \in UserSessions
  BY <1>1 DEF ServerTypeOK
<1>3. CASE PtyExit(p)
  <2> DEFINE session == [srv[s] EXCEPT !.isActive = FALSE]
  <2>1. srv' = [srv EXCEPT ![s] = session] /\ down' = ToPage(s, "pty-exited") /\ rs' = rs
    BY <1>3 DEF PtyExit
  <2>2. session.phase = srv[s].phase /\ ~session.isActive
    BY <1>2 DEF UserSessions
  <2>3. "pty-exited" \in DownMessages \ {"accept"}
    BY DEF DownMessages
  <2>4. srv[s].phase # "none"
    <3>1. srv[s].isActive
      BY <1>3 DEF PtyExit, SessionInv, AliveIsActive
    <3> QED BY <1>1, <3>1, YoungSession DEF Young
  <2> HIDE DEF session, s
  <2> QED BY <1>1, <2>1, <2>2, <2>3, <2>4, InactiveActs
<1>4. CASE PtyTimeout(p)
  <2> DEFINE session == KillFor(srv[s], "nobody")
  <2>1. srv' = [srv EXCEPT ![s] = session] /\ down' = down /\ rs' = rs
    BY <1>4 DEF PtyTimeout, linkVars
  <2>2. SameRun(srv[s], session)
    BY <1>2, KillForFacts DEF Callers
  <2> HIDE DEF session, s
  <2> QED BY <1>1, <2>1, <2>2, SameRunActs
<1> QED BY <1>3, <1>4

(* Every task of the server but the answer to the handshake and a restart. *)
LEMMA ServerActs ==
    ASSUME LinkTypeOK, ServerTypeOK, SessionInv, ServerNext
    PROVE  \/ \E s \in Sockets : VerifyClient(s)
           \/ \E s \in Sockets : Acts(s)
           \/ ServerRestart
BY AuthorizedActs, ServerReceiveActs, ServerCloseActs, KillTickActs, PtyActs DEF ServerNext

-----------------------------------------------------------------------------
(* The handshake: a socket is accepted once, while it is connecting, and   *)
(* that is the first thing its page hears.                                 *)
Accepted(s) ==
    \A i \in 1 .. Len(down[s]) : down[s][i] = "accept" => i = 1 /\ rs[s] = "CONNECTING"

Unheard(s) ==
    /\ rs[s] # "OPEN" /\ ~In("accept", down[s])
    /\ down[s] = <<>> \/ EndsWith(down[s], Ends)
    /\ rs[s] = "CLOSING" => EndsWith(down[s], Ends)

Handshake(s) == Accepted(s) /\ (srv[s].phase = "none" => Unheard(s))

HandshakeInv == \A s \in Sockets : Handshake(s)

LEMMA HandshakeStays ==
    ASSUME NEW s \in Sockets, Handshake(s), rs'[s] = rs[s], down'[s] = down[s],
           srv'[s].phase = "none" => srv[s].phase = "none"
    PROVE  Handshake(s)'
BY DEF Handshake, Accepted, Unheard

(* Anything else that is sent comes after, or is an end.                   *)
LEMMA HandshakeAppend ==
    ASSUME NEW s \in Sockets, down[s] \in Seq(DownMessages), Handshake(s), rs'[s] = rs[s],
           NEW m \in DownMessages \ {"accept"}, down'[s] = Append(down[s], m),
           srv'[s].phase = "none" => srv[s].phase = "none" /\ m \in Ends
    PROVE  Handshake(s)'
<1>1. /\ Len(down[s]) \in Nat /\ Len(down'[s]) = Len(down[s]) + 1
      /\ down'[s][Len(down[s]) + 1] = m
      /\ \A i \in 1 .. Len(down[s]) : down'[s][i] = down[s][i]
  OBVIOUS
<1>2. Accepted(s)'
  <2> SUFFICES ASSUME NEW i \in 1 .. Len(down[s]) + 1, down'[s][i] = "accept"
               PROVE  i = 1 /\ rs[s] = "CONNECTING"
    BY <1>1 DEF Accepted
  <2>1. i \in 1 .. Len(down[s])
    BY <1>1
  <2> QED BY <1>1, <2>1 DEF Handshake, Accepted
<1>3. ASSUME srv'[s].phase = "none" PROVE Unheard(s)'
  <2>1. Unheard(s) /\ EndsWith(down'[s], Ends)
    BY <1>3, EndsWithAppend DEF Handshake
  <2>2. ~In("accept", down'[s])
    BY <2>1, InAppend DEF Unheard
  <2> QED BY <2>1, <2>2 DEF Unheard
<1> QED BY <1>2, <1>3 DEF Handshake

(* ws.send *)
LEMMA ToPageHandshake ==
    ASSUME LinkTypeOK, HandshakeInv, NEW t \in Sockets, NEW m \in DownMessages \ {"accept"},
           down' = ToPage(t, m), rs' = rs, NEW s \in Sockets,
           srv'[s].phase = "none" => srv[s].phase = "none" /\ (s # t \/ m \in Ends)
    PROVE  Handshake(s)'
<1>1. Handshake(s) /\ down[s] \in Seq(DownMessages)
  BY DEF HandshakeInv, LinkTypeOK
<1>2. CASE down'[s] = down[s]
  BY <1>1, <1>2, HandshakeStays
<1>3. CASE s = t /\ down'[s] = Append(down[s], m)
  BY <1>1, <1>3, HandshakeAppend
<1> QED BY <1>2, <1>3 DEF ToPage, LinkTypeOK

LEMMA VerifyClientHandshake ==
    ASSUME LinkTypeOK, ServerTypeOK, HandshakeInv, NEW t \in Sockets, VerifyClient(t),
           NEW s \in Sockets
    PROVE  Handshake(s)'
<1>1. rs' = rs /\ srv[t].phase = "none" /\ rs[t] # "NEW" /\ srv[t] \in UserSessions
  BY DEF VerifyClient, ServerTypeOK
<1>2. CASE srv' = [srv EXCEPT ![t].phase = "fetching"] /\ down' = ToPage(t, "accept")
  <2> DEFINE session == [srv[t] EXCEPT !.phase = "fetching"]
  <2>1. srv' = [srv EXCEPT ![t] = session] /\ session.phase = "fetching"
    BY <1>1, <1>2 DEF UserSessions
  <2> HIDE DEF session
  <2>2. srv'[t].phase = "fetching" /\ \A u \in Sockets \ {t} : srv'[u] = srv[u]
    BY <2>1 DEF ServerTypeOK
  <2>3. CASE down'[s] = down[s]
    BY <1>1, <2>2, <2>3, HandshakeStays DEF HandshakeInv
  <2>4. CASE /\ s = t /\ rs[t] # "CLOSED" /\ ~EndsWith(down[t], Ends)
             /\ down'[s] = Append(down[t], "accept")
    <3>1. Unheard(t)
      BY <1>1 DEF HandshakeInv, Handshake
    <3>2. down[t] = <<>> /\ rs[t] = "CONNECTING"
      BY <1>1, <2>4, <3>1 DEF Unheard, LinkTypeOK, ReadyStates
    <3>3. down'[s] = <<"accept">>
      BY <2>4, <3>2
    <3>4. Accepted(s)'
      BY <1>1, <2>4, <3>2, <3>3 DEF Accepted
    <3> QED BY <2>2, <2>4, <3>4 DEF Handshake
  <2> QED BY <1>2, <2>3, <2>4 DEF ToPage, LinkTypeOK
<1>3. CASE srv' = [srv EXCEPT ![t] = Session("over")] /\ down' = ToPage(t, "fail")
  <2>1. "fail" \in DownMessages \ {"accept"}
    BY DEF DownMessages, Ends
  <2>2. Session("over").phase = "over"
    BY SessionTyped DEF Phases
  <2> QED BY <1>1, <1>3, <2>1, <2>2, ToPageHandshake DEF ServerTypeOK
<1> QED BY <1>2, <1>3 DEF VerifyClient

LEMMA SendsHandshake ==
    ASSUME LinkTypeOK, HandshakeInv, NEW t \in Sockets, Sends(t), NEW s \in Sockets
    PROVE  Handshake(s)'
<1>1. CASE down' = down
  BY <1>1, HandshakeStays DEF Sends, HandshakeInv
<1>2. ASSUME NEW m \in DownMessages \ {"accept"}, down' = ToPage(t, m),
             m \in Ends \/ srv'[t].phase # "none"
      PROVE  Handshake(s)'
  BY <1>2, ToPageHandshake DEF Sends
<1> QED BY <1>1, <1>2 DEF Sends

LEMMA ServerRestartHandshake ==
    ASSUME LinkTypeOK, ServerTypeOK, HandshakeInv, ServerRestart, NEW s \in Sockets
    PROVE  Handshake(s)'
<1> DEFINE last == IF rs[s] = "CONNECTING" /\ down[s] = <<>> THEN "fail" ELSE "drop"
<1>1. /\ down[s] \in Seq(DownMessages) /\ last \in DownMessages \ {"accept"} /\ last \in Ends
      /\ Handshake(s)
  BY DEF LinkTypeOK, DownMessages, Ends, HandshakeInv
<1>2. rs' = rs /\ (srv'[s].phase = "none" => srv[s].phase = "none")
  <2>1. Session("over").phase = "over"
    BY SessionTyped DEF Phases
  <2> QED BY <2>1 DEF ServerRestart
<1>3. down'[s] = IF ~Live(s) \/ EndsWith(down[s], Ends) THEN down[s] ELSE Append(down[s], last)
  BY DEF ServerRestart
<1> HIDE DEF last
<1>4. CASE down'[s] = down[s]
  BY <1>1, <1>2, <1>4, HandshakeStays
<1>5. CASE down'[s] = Append(down[s], last)
  BY <1>1, <1>2, <1>5, HandshakeAppend
<1> QED BY <1>3, <1>4, <1>5

LEMMA ServerHandshake ==
    ASSUME LinkTypeOK, ServerTypeOK, SessionInv, HandshakeInv, ServerNext, NEW s \in Sockets
    PROVE  Handshake(s)'
BY ServerActs, VerifyClientHandshake, SendsHandshake, ServerRestartHandshake DEF Acts

(* The page creates sockets, and closes open ones, without a word of them. *)
Ordinary(s) ==
    \/ rs'[s] = rs[s]
    \/ rs[s] = "NEW" /\ rs'[s] = "CONNECTING"
    \/ rs[s] = "OPEN" /\ rs'[s] = "CLOSING"

LEMMA OrdinaryHandshake ==
    ASSUME NEW s \in Sockets, Handshake(s), Ordinary(s), UNCHANGED <<down, srv>>
    PROVE  Handshake(s)'
BY DEF Handshake, Accepted, Unheard, Ordinary

LEMMA SocketNumber ==
    ASSUME PageTypeOK PROVE page.socket \in Nat
<1>1. page.socket \in {NoSocket} \cup Sockets
  BY DEF PageTypeOK, Pages
<1>2. NoSocket \in Nat /\ Sockets \subseteq Nat
  BY SocketsAreNumbers DEF SocketsFact, NoSocket
<1> QED BY <1>1, <1>2, Zenon

LEMMA InitializeOrdinary ==
    ASSUME LinkTypeOK, PageTypeOK, PageInv, NEW p, initializeWebSocket(p), NEW s \in Sockets
    PROVE  Ordinary(s)
<1>1. CASE UNCHANGED rs
  BY <1>1 DEF Ordinary
<1>2. CASE OpenSocket(p)
  <2>1. /\ page.socket + 1 \in Sockets
        /\ rs' = [rs EXCEPT ![page.socket + 1] = "CONNECTING"]
    BY <1>2 DEF OpenSocket
  <2>2. rs[page.socket + 1] = "NEW"
    BY <2>1, SocketNumber DEF PageInv, SocketsInOrder
  <2> QED BY <2>1, <2>2 DEF Ordinary, LinkTypeOK
<1> QED BY <1>1, <1>2 DEF initializeWebSocket

LEMMA AbortKeepsHandshake ==
    ASSUME LinkTypeOK, HandshakeInv, AbortHandshake, UNCHANGED srv, NEW s \in Sockets
    PROVE  Handshake(s)'
<1>1. CASE s = page.socket
  <2>1. down'[s] = <<"fail">> /\ rs'[s] = "CLOSING"
    BY <1>1 DEF AbortHandshake, LinkTypeOK
  <2>2. /\ \A i \in 1 .. Len(down'[s]) : down'[s][i] # "accept"
        /\ EndsWith(down'[s], Ends)
    BY <2>1 DEF EndsWith, Ends
  <2> QED BY <2>1, <2>2 DEF Handshake, Accepted, Unheard, In
<1>2. CASE s # page.socket
  <2>1. down'[s] = down[s] /\ rs'[s] = rs[s]
    BY <1>2 DEF AbortHandshake, LinkTypeOK
  <2> QED BY <2>1, HandshakeStays DEF HandshakeInv
<1> QED BY <1>1, <1>2

LEMMA EndKept ==
    ASSUME NEW T, NEW q \in Seq(T), q # <<>>, NEW L, EndsWith(q, L)
    PROVE  Tail(q) = <<>> \/ EndsWith(Tail(q), L)
<1> DEFINE k == Len(q)
           n == k - 1
<1>1. k \in Nat /\ k # 0 /\ Tail(q) \in Seq(T)
  OBVIOUS
<1>2. Len(Tail(q)) = n /\ \A i \in 1 .. n : Tail(q)[i] = q[i + 1]
  OBVIOUS
<1> HIDE DEF k
<1>3. CASE k = 1
  <2>1. Len(Tail(q)) = 0
    BY <1>2, <1>3
  <2>2. ASSUME NEW r \in Seq(T), Len(r) = 0 PROVE r = <<>>
    BY <2>2
  <2> QED BY <1>1, <2>1, <2>2, Zenon
<1>4. CASE k # 1
  <2>1. n \in 1 .. n /\ n + 1 = k
    BY <1>1, <1>4
  <2>2. Tail(q)[n] = q[k]
    <3> HIDE DEF n
    <3> QED BY <1>2, <2>1
  <2>3. Tail(q)[Len(Tail(q))] \in L
    BY <1>2, <2>2, Zenon DEF EndsWith, k
  <2> QED BY <2>3 DEF EndsWith
<1> QED BY <1>3, <1>4

LEMMA ReceiveHandshake ==
    ASSUME LinkTypeOK, HandshakeInv, NEW t \in Sockets, PageReceive(t), UNCHANGED srv,
           NEW s \in Sockets
    PROVE  Handshake(s)'
<1> DEFINE m == Head(down[t])
<1>1. /\ down[t] \in Seq(DownMessages) /\ down[t] # <<>>
      /\ down' = [down EXCEPT ![t] = Tail(@)] /\ Live(t) /\ Handshake(t) /\ Handshake(s)
  BY DEF PageReceive, LinkTypeOK, HandshakeInv
<1>2. \/ m = "accept" /\ rs' = [rs EXCEPT ![t] = "OPEN"]
      \/ m \in Ends /\ rs' = [rs EXCEPT ![t] = "CLOSED"]
      \/ m \notin Ends /\ rs' = rs
  BY DEF PageReceive, handleSocketOpen, SocketEnds, handleSocketMessage
<1>3. CASE s # t
  <2>1. down'[s] = down[s] /\ rs'[s] = rs[s]
    BY <1>1, <1>2, <1>3 DEF LinkTypeOK
  <2> QED BY <1>1, <2>1, HandshakeStays
<1>4. CASE s = t
  <2>1. /\ Len(down[t]) \in Nat \ {0} /\ down'[t] = Tail(down[t]) /\ m = down[t][1]
        /\ Len(down'[t]) = Len(down[t]) - 1
        /\ \A i \in 1 .. Len(down[t]) - 1 : down'[t][i] = down[t][i + 1]
    BY <1>1 DEF LinkTypeOK
  <2> HIDE DEF m
  <2>2. \A i \in 1 .. Len(down'[t]) : down'[t][i] # "accept"
    <3> SUFFICES ASSUME NEW i \in 1 .. Len(down[t]) - 1, down[t][i + 1] = "accept" PROVE FALSE
      BY <2>1
    <3>1. i + 1 \in 1 .. Len(down[t]) /\ i + 1 # 1
      BY <2>1
    <3> QED BY <1>1, <3>1 DEF Handshake, Accepted
  <2>3. ASSUME srv[t].phase = "none" PROVE Unheard(t)'
    <3>1. Unheard(t)
      BY <1>1, <2>3 DEF Handshake
    <3>2. m # "accept"
      BY <2>1, <3>1 DEF Unheard, In
    <3>3. rs'[t] = rs[t] \/ rs'[t] = "CLOSED"
      BY <1>2, <3>2 DEF LinkTypeOK
    <3>4. EndsWith(down[t], Ends)
      BY <1>1, <3>1 DEF Unheard
    <3>5. down'[t] = <<>> \/ EndsWith(down'[t], Ends)
      BY <1>1, <2>1, <3>4, EndKept DEF LinkTypeOK
    <3>6. ASSUME rs'[t] = "CLOSING" PROVE EndsWith(down'[t], Ends)
      <4>1. m \notin Ends
        BY <1>2, <3>6 DEF LinkTypeOK
      <4> QED BY <1>1, <2>1, <3>4, <4>1, EndsWithTail DEF m
    <3>7. rs'[t] # "OPEN" /\ ~In("accept", down'[t])
      BY <2>2, <3>1, <3>3 DEF Unheard, In
    <3> QED BY <3>5, <3>6, <3>7 DEF Unheard
  <2> QED BY <1>4, <2>2, <2>3 DEF Handshake, Accepted
<1> QED BY <1>3, <1>4

LEMMA PageHandshake ==
    ASSUME LinkTypeOK, PageTypeOK, PageInv, HandshakeInv, PageStep \/ UserStep,
           UNCHANGED srv, NEW s \in Sockets
    PROVE  Handshake(s)'
<1> USE DEF HandshakeInv
<1>1. CASE UNCHANGED <<rs, down>>
  BY <1>1, HandshakeStays
<1>2. ASSUME NEW p, initializeWebSocket(p), UNCHANGED down PROVE Handshake(s)'
  BY <1>2, InitializeOrdinary, OrdinaryHandshake
<1>3. CASE Boot \/ Reconnect \/ StrayReconnect
  BY <1>2, <1>3 DEF Boot, Reconnect, StrayReconnect
<1>4. CASE ConnectionTimeout \/ PingTimeout
  BY <1>1, <1>4, AbortKeepsHandshake DEF ConnectionTimeout, PingTimeout, linkVars
<1>5. CASE \E t \in Sockets : PageReceive(t)
  BY <1>5, ReceiveHandshake
<1>6. CASE SendCommandWhenReady \/ Hide
  BY <1>1, <1>6 DEF SendCommandWhenReady, Hide
<1>7. CASE Show
  BY <1>1, <1>2, <1>7 DEF Show
<1>8. CASE Cleanup
  <2>1. CASE SocketIs({"OPEN"}) /\ rs' = [rs EXCEPT ![page.socket] = "CLOSING"] /\ UNCHANGED down
    <3>1. Ordinary(s)
      BY <2>1 DEF Ordinary, SocketIs, LinkTypeOK
    <3> QED BY <2>1, <3>1, OrdinaryHandshake
  <2> QED BY <1>1, <1>8, <2>1, AbortKeepsHandshake DEF Cleanup
<1> QED BY <1>3, <1>4, <1>5, <1>6, <1>7, <1>8 DEF PageStep, UserStep

LEMMA LoseHandshake ==
    ASSUME LinkTypeOK, HandshakeInv, NEW t \in Sockets, Lose(t), UNCHANGED srv, NEW s \in Sockets
    PROVE  Handshake(s)'
<1>1. PICK k \in 0 .. Len(down[t]) :
        \E last \in LossEvents(t, SubSeq(down[t], 1, k)) :
          down' = [down EXCEPT ![t] = Append(SubSeq(down[t], 1, k), last)]
  BY Zenon DEF Lose
<1>2. PICK last \in LossEvents(t, SubSeq(down[t], 1, k)) :
        down' = [down EXCEPT ![t] = Append(SubSeq(down[t], 1, k), last)]
  BY <1>1
<1>3. last \in DownMessages /\ last \in Ends /\ last # "accept" /\ rs' = rs
  BY <1>2 DEF LossEvents, DownMessages, Ends, Lose
<1>4. CASE s # t
  <2>1. down'[s] = down[s]
    BY <1>2, <1>4 DEF LinkTypeOK
  <2> QED BY <1>3, <2>1, HandshakeStays DEF HandshakeInv
<1>5. CASE s = t
  <2> DEFINE received == SubSeq(down[t], 1, k)
  <2>1. down[t] \in Seq(DownMessages) /\ Handshake(t)
    BY DEF LinkTypeOK, HandshakeInv
  <2>2. /\ received \in Seq(DownMessages) /\ Len(received) = k
        /\ \A i \in 1 .. k : i \in 1 .. Len(down[t]) /\ received[i] = down[t][i]
    <3>1. \A j \in 1 .. k : j \in 1 .. Len(down[t])
      BY <2>1
    <3> QED BY <2>1, <3>1, SubSeqProperties
  <2>3. down'[t] = Append(received, last)
    BY <1>2 DEF LinkTypeOK
  <2> HIDE DEF received
  <2>4. /\ Len(down'[t]) = k + 1 /\ down'[t][k + 1] = last
        /\ \A i \in 1 .. k : down'[t][i] = received[i]
    BY <1>1, <1>3, <2>2, <2>3
  <2>5. ASSUME NEW i \in 1 .. Len(down'[t]), down'[t][i] = "accept"
        PROVE  i \in 1 .. Len(down[t]) /\ down[t][i] = "accept"
    <3>1. i \in 1 .. k
      BY <1>1, <1>3, <2>4, <2>5
    <3> QED BY <2>2, <2>4, <2>5, <3>1
  <2>6. Accepted(t)'
    BY <1>3, <2>1, <2>5 DEF Handshake, Accepted
  <2>7. Unheard(t) => Unheard(t)'
    <3>1. EndsWith(down'[t], Ends)
      BY <1>3, <2>2, <2>3, EndsWithAppend
    <3> QED BY <1>3, <2>5, <3>1 DEF Unheard, In
  <2> QED BY <1>5, <2>1, <2>6, <2>7 DEF Handshake
<1> QED BY <1>4, <1>5

LEMMA HandshakeInductive == Inv /\ HandshakeInv /\ [Next]_vars => HandshakeInv'
<1> SUFFICES ASSUME Inv, HandshakeInv, [Next]_vars, NEW s \in Sockets PROVE Handshake(s)'
  BY DEF HandshakeInv
<1>1. LinkTypeOK /\ ServerTypeOK /\ PageTypeOK /\ PageInv /\ SessionInv
  BY DEF Inv, TypeOK
<1>2. CASE ServerNext
  BY <1>1, <1>2, ServerHandshake
<1>3. CASE (PageStep \/ UserStep) /\ UNCHANGED serverVars
  BY <1>1, <1>3, PageHandshake DEF serverVars
<1>4. ASSUME NEW t \in Sockets, Lose(t) \/ Freeze(t), UNCHANGED <<serverVars, page>>
      PROVE  Handshake(s)'
  BY <1>1, <1>4, LoseHandshake, HandshakeStays DEF Freeze, serverVars, HandshakeInv
<1>5. CASE UNCHANGED vars
  BY <1>5, HandshakeStays DEF vars, linkVars, serverVars, HandshakeInv
<1> QED BY <1>2, <1>3, <1>4, <1>5 DEF Next

LEMMA HandshakeInitially == Init => HandshakeInv
<1> SUFFICES ASSUME Init, NEW s \in Sockets PROVE Handshake(s)
  BY DEF HandshakeInv
<1>1. rs[s] = "NEW" /\ down[s] = <<>>
  BY DEF Init, LinkInit
<1> QED BY <1>1 DEF Handshake, Accepted, Unheard, In

-----------------------------------------------------------------------------
(* Showing: what is on its way to the page ends with good news, or says    *)
(* nothing bad and the page already shows a terminal, or its excuse.       *)
Undenied(q) == \A i \in 1 .. Len(q) : q[i] \notin Denies
WillShow(q) ==
    \E i \in 1 .. Len(q) : q[i] \in Claims /\ \A j \in i .. Len(q) : q[j] \notin Denies

Looks(p) == p.terminalActive \/ p.message = "sorry"
Tells(q, p) == WillShow(q) \/ (Undenied(q) /\ Looks(p))

(* The only socket of which the page can show a session. *)
InUse(s) == s = page.socket /\ rs[s] \in {"CONNECTING", "OPEN"} /\ ~EndsWith(down[s], Ends)

ShowInv == \A s \in Sockets : InUse(s) /\ srv[s].isActive => Tells(down[s], page)

LEMMA ClaimAppended ==
    ASSUME NEW q \in Seq(DownMessages), NEW m \in Claims
    PROVE  WillShow(Append(q, m))
<1>1. /\ Len(q) \in Nat /\ Len(Append(q, m)) = Len(q) + 1
      /\ Append(q, m)[Len(q) + 1] = m
  BY DEF Claims, DownMessages
<1>2. m \notin Denies
  BY DEF Claims, Denies
<1>3. \A j \in Len(q) + 1 .. Len(q) + 1 : j = Len(q) + 1
  BY <1>1
<1> QED BY <1>1, <1>2, <1>3 DEF WillShow

LEMMA NeutralAppended ==
    ASSUME NEW q \in Seq(DownMessages), NEW m \in DownMessages \ Denies, NEW p, Tells(q, p)
    PROVE  Tells(Append(q, m), p)
<1>1. /\ Len(q) \in Nat /\ Len(Append(q, m)) = Len(q) + 1
      /\ Append(q, m)[Len(q) + 1] = m
      /\ \A i \in 1 .. Len(q) : Append(q, m)[i] = q[i]
  OBVIOUS
<1>2. CASE WillShow(q)
  <2>1. PICK i \in 1 .. Len(q) : q[i] \in Claims /\ \A j \in i .. Len(q) : q[j] \notin Denies
    BY <1>2 DEF WillShow
  <2>2. \A j \in i .. Len(q) + 1 : Append(q, m)[j] \notin Denies
    <3> TAKE j \in i .. Len(q) + 1
    <3>1. j \in i .. Len(q) \/ j = Len(q) + 1
      BY <1>1, <2>1
    <3>2. i .. Len(q) \subseteq 1 .. Len(q)
      BY <2>1
    <3> QED BY <1>1, <2>1, <3>1, <3>2
  <2>3. i \in 1 .. Len(Append(q, m)) /\ Append(q, m)[i] \in Claims
    BY <1>1, <2>1
  <2> QED BY <1>1, <2>2, <2>3 DEF Tells, WillShow
<1>3. CASE Undenied(q) /\ Looks(p)
  <2>1. Undenied(Append(q, m))
    <3> SUFFICES ASSUME NEW j \in 1 .. Len(q) + 1 PROVE Append(q, m)[j] \notin Denies
      BY <1>1 DEF Undenied
    <3>1. j \in 1 .. Len(q) \/ j = Len(q) + 1
      BY <1>1
    <3> QED BY <1>1, <1>3, <3>1 DEF Undenied
  <2> QED BY <1>3, <2>1 DEF Tells
<1> QED BY <1>2, <1>3 DEF Tells

(* The page takes the first message, and shows what that claims.           *)
LEMMA HeadTaken ==
    ASSUME NEW q \in Seq(DownMessages), q # <<>>, NEW p, NEW r, Tells(q, p),
           Head(q) \in Claims => Looks(r),
           Head(q) \notin Claims \cup Denies => (Looks(p) => Looks(r))
    PROVE  Tells(Tail(q), r)
<1>1. /\ Len(q) \in Nat \ {0} /\ Len(Tail(q)) = Len(q) - 1 /\ Head(q) = q[1]
      /\ \A i \in 1 .. Len(q) - 1 : Tail(q)[i] = q[i + 1]
  OBVIOUS
<1>2. ASSUME NEW i \in 1 .. Len(q), \A j \in i .. Len(q) : q[j] \notin Denies,
             NEW k \in 1 .. Len(q) - 1, k + 1 >= i
      PROVE  Tail(q)[k] \notin Denies
  BY <1>1, <1>2
<1>3. CASE WillShow(q)
  <2>1. PICK i \in 1 .. Len(q) : q[i] \in Claims /\ \A j \in i .. Len(q) : q[j] \notin Denies
    BY <1>3 DEF WillShow
  <2>2. CASE i = 1
    <3>1. Undenied(Tail(q))
      BY <1>1, <1>2, <2>1, <2>2 DEF Undenied
    <3> QED BY <1>1, <2>1, <2>2, <3>1 DEF Tells
  <2>3. CASE i # 1
    <3>1. i - 1 \in 1 .. Len(Tail(q)) /\ Tail(q)[i - 1] = q[i]
      BY <1>1, <2>3
    <3>2. \A j \in i - 1 .. Len(Tail(q)) : Tail(q)[j] \notin Denies
      <4> TAKE j \in i - 1 .. Len(Tail(q))
      <4>1. j \in 1 .. Len(q) - 1 /\ j + 1 >= i
        BY <1>1, <2>3
      <4> QED BY <1>2, <2>1, <4>1
    <3> QED BY <2>1, <3>1, <3>2 DEF Tells, WillShow
  <2> QED BY <2>2, <2>3
<1>4. CASE Undenied(q) /\ Looks(p)
  <2>1. Undenied(Tail(q))
    BY <1>1, <1>4 DEF Undenied
  <2>2. Head(q) \notin Denies
    BY <1>1, <1>4 DEF Undenied
  <2> QED BY <1>4, <2>1, <2>2 DEF Tells
<1> QED BY <1>3, <1>4 DEF Tells

-----------------------------------------------------------------------------
LEMMA ReportsShow ==
    ASSUME LinkTypeOK, ShowInv, NEW s \in Sockets, Reports(s), Elsewhere(s),
           UNCHANGED <<rs, page>>
    PROVE  ShowInv'
<1> SUFFICES ASSUME NEW t \in Sockets, InUse(t)', srv'[t].isActive
             PROVE  Tells(down'[t], page)
  BY DEF ShowInv
<1>1. ASSUME down'[t] = down[t], srv[t].isActive PROVE Tells(down'[t], page)
  BY <1>1 DEF ShowInv, InUse
<1>2. CASE t # s
  BY <1>1, <1>2 DEF Elsewhere
<1>3. CASE t = s /\ down' = down /\ srv[s].isActive
  BY <1>1, <1>3
<1>4. ASSUME t = s, NEW m \in DownMessages \ Denies, down' = ToPage(s, m),
             m \in Claims \/ srv[s].isActive
      PROVE  Tells(down'[t], page)
  <2>1. rs[s] # "CLOSED" /\ ~EndsWith(down[s], Ends)
    BY <1>4 DEF InUse, ToPage
  <2>2. down'[s] = Append(down[s], m) /\ down[s] \in Seq(DownMessages)
    BY <1>4, <2>1 DEF ToPage, LinkTypeOK
  <2>3. CASE m \in Claims
    BY <1>4, <2>2, <2>3, ClaimAppended DEF Tells
  <2>4. CASE srv[s].isActive
    <3>1. Tells(down[s], page)
      BY <1>4, <2>1, <2>4 DEF ShowInv, InUse
    <3> QED BY <1>4, <2>2, <3>1, NeutralAppended
  <2> QED BY <1>4, <2>3, <2>4
<1> QED BY <1>2, <1>3, <1>4 DEF Reports

LEMMA VerifyClientReports ==
    ASSUME LinkTypeOK, ServerTypeOK, SessionInv, NEW s \in Sockets, VerifyClient(s)
    PROVE  Reports(s) /\ Elsewhere(s)
<1>1. srv[s] \in UserSessions /\ ~srv[s].isActive
  BY YoungSession DEF VerifyClient, Young, ServerTypeOK
<1>2. \E m \in DownMessages : down' = ToPage(s, m)
  BY DEF VerifyClient, DownMessages, Ends
<1>3. ASSUME NEW session, ~session.isActive, srv' = [srv EXCEPT ![s] = session]
      PROVE  Reports(s) /\ Elsewhere(s)
  BY <1>2, <1>3, OneElsewhere DEF Reports
<1>4. CASE srv' = [srv EXCEPT ![s].phase = "fetching"]
  <2> DEFINE session == [srv[s] EXCEPT !.phase = "fetching"]
  <2>1. srv' = [srv EXCEPT ![s] = session] /\ ~session.isActive
    BY <1>1, <1>4 DEF UserSessions
  <2> HIDE DEF session
  <2> QED BY <1>3, <2>1
<1>5. CASE srv' = [srv EXCEPT ![s] = Session("over")]
  BY <1>3, <1>5, SessionTyped DEF Phases
<1> QED BY <1>4, <1>5 DEF VerifyClient

LEMMA ServerShows ==
    ASSUME LinkTypeOK, ServerTypeOK, SessionInv, ShowInv, ServerNext, UNCHANGED page
    PROVE  ShowInv'
<1>1. rs' = rs
  BY ServerKeepsReadyStates
<1>2. CASE \E s \in Sockets : Reports(s) /\ Elsewhere(s)
  BY <1>1, <1>2, ReportsShow
<1>3. CASE ServerRestart
  <2>1. ~Session("over").isActive
    BY SessionTyped DEF Phases
  <2>2. \A s \in Sockets : ~srv'[s].isActive
    <3> TAKE s \in Sockets
    <3>1. srv'[s] = IF rs[s] = "NEW" THEN srv[s] ELSE Session("over")
      BY <1>3 DEF ServerRestart
    <3>2. rs[s] = "NEW" => ~srv[s].isActive
      BY YoungSession DEF SessionInv, Young
    <3> QED BY <2>1, <3>1, <3>2
  <2> QED BY <2>2 DEF ShowInv
<1> QED BY <1>2, <1>3, ServerActs, VerifyClientReports DEF Acts

-----------------------------------------------------------------------------
(* The tasks of the page.  Either it keeps its socket and goes on showing  *)
(* what it shows, or it has a socket without a session, or it has none.    *)
Persists ==
    /\ page'.socket = page.socket /\ UNCHANGED <<rs, down>>
    /\ Looks(page) => Looks(page')

StartsAnew ==
    /\ page'.socket \in Sockets /\ rs[page'.socket] = "NEW"

Parts == page'.socket \in Sockets => rs'[page'.socket] \notin {"CONNECTING", "OPEN"}

LEMMA PageShows ==
    ASSUME SessionInv, ShowInv, UNCHANGED srv, Persists \/ StartsAnew \/ Parts
    PROVE  ShowInv'
<1> SUFFICES ASSUME NEW s \in Sockets, InUse(s)', srv[s].isActive
             PROVE  Tells(down'[s], page')
  BY DEF ShowInv
<1>1. CASE Persists
  <2>1. Tells(down[s], page)
    BY <1>1 DEF Persists, ShowInv, InUse
  <2> QED BY <1>1, <2>1 DEF Persists, Tells
<1>2. CASE StartsAnew
  <2>1. srv[s].phase = "none"
    BY <1>2 DEF StartsAnew, InUse, SessionInv
  <2> QED BY <2>1, YoungSession DEF Young
<1>3. CASE Parts
  BY <1>3 DEF Parts, InUse
<1> QED BY <1>1, <1>2, <1>3

LEMMA InitializeShows ==
    ASSUME LinkTypeOK, PageTypeOK, PageInv, NEW p \in Pages, p.socket = page.socket,
           p.terminalActive = page.terminalActive, p.message = page.message,
           initializeWebSocket(p), UNCHANGED down
    PROVE  Persists \/ StartsAnew
<1>1. CASE page' = p /\ UNCHANGED rs
  BY <1>1 DEF Persists, Looks
<1>2. CASE OpenSocket(p)
  <2> DEFINE q == clearAllTimers(p)
  <2>1. q \in Pages /\ q.socket = page.socket
    BY ClearFacts
  <2>2. page' = [q EXCEPT !.connectionState = "connecting", !.socket = q.socket + 1,
                          !.connectionTimeoutId = TRUE]
    BY <1>2 DEF OpenSocket
  <2> HIDE DEF q
  <2>3. page'.socket = page.socket + 1
    BY <2>1, <2>2 DEF Pages
  <2>4. page.socket + 1 \in Sockets
    BY <1>2 DEF OpenSocket
  <2>5. rs[page.socket + 1] = "NEW"
    BY <2>4, SocketNumber DEF PageInv, SocketsInOrder
  <2> QED BY <2>3, <2>4, <2>5 DEF StartsAnew
<1> QED BY <1>1, <1>2 DEF initializeWebSocket

LEMMA TimersShow ==
    ASSUME LinkTypeOK, PageTypeOK, PageInv, Boot \/ Reconnect \/ StrayReconnect
    PROVE  Persists \/ StartsAnew
<1> USE DEF PageTypeOK
<1>1. UNCHANGED down
  BY DEF Boot, Reconnect, StrayReconnect
<1>2. CASE Boot
  <2> DEFINE p == [page EXCEPT !.bootTimer = FALSE]
  <2>1. /\ p \in Pages /\ p.socket = page.socket
        /\ p.terminalActive = page.terminalActive /\ p.message = page.message
    BY DEF Pages
  <2>2. initializeWebSocket(p)
    BY <1>2 DEF Boot
  <2> HIDE DEF p
  <2> QED BY <1>1, <2>1, <2>2, InitializeShows
<1>3. CASE Reconnect
  <2> DEFINE n == page.reconnectAttempts + 1
             p == [page EXCEPT !.reconnectInterval = FALSE, !.reconnectAttempts = n]
  <2>1. initializeWebSocket(p)
    BY <1>3 DEF Reconnect
  <2>2. n \in Nat
    BY DEF Pages
  <2> HIDE DEF n
  <2>3. /\ p \in Pages /\ p.socket = page.socket
        /\ p.terminalActive = page.terminalActive /\ p.message = page.message
    BY <2>2 DEF Pages
  <2> HIDE DEF p
  <2> QED BY <1>1, <2>1, <2>3, InitializeShows
<1>4. CASE StrayReconnect
  <2> DEFINE k == page.strayTimers - 1
             n == page.reconnectAttempts + 1
             p == [page EXCEPT !.strayTimers = k, !.reconnectAttempts = n]
  <2>1. initializeWebSocket(p)
    BY <1>4 DEF StrayReconnect
  <2>2. k \in Nat /\ n \in Nat
    BY <1>4 DEF StrayReconnect, Pages
  <2> HIDE DEF k, n
  <2>3. /\ p \in Pages /\ p.socket = page.socket
        /\ p.terminalActive = page.terminalActive /\ p.message = page.message
    BY <2>2 DEF Pages
  <2> HIDE DEF p
  <2> QED BY <1>1, <2>1, <2>3, InitializeShows
<1> QED BY <1>2, <1>3, <1>4

(* socket.close() before the handshake is answered. *)
LEMMA AbortParts ==
    ASSUME LinkTypeOK, AbortHandshake, page'.socket = page.socket
    PROVE  Parts
BY DEF AbortHandshake, Parts, LinkTypeOK

LEMMA TimeoutsShow ==
    ASSUME LinkTypeOK, PageTypeOK, ConnectionTimeout \/ PingTimeout
    PROVE  Persists \/ Parts
<1>1. CASE ConnectionTimeout
  <2> DEFINE p == [page EXCEPT !.connectionTimeoutId = FALSE]
  <2>1. p \in Pages /\ p.socket = page.socket
    BY DEF PageTypeOK, Pages
  <2>2. page' = handleConnectionError(p) /\ AbortHandshake
    BY <1>1 DEF ConnectionTimeout
  <2> HIDE DEF p
  <2>3. page'.socket = page.socket
    BY <2>1, <2>2, ErrorFacts
  <2> QED BY <2>2, <2>3, AbortParts
<1>2. CASE PingTimeout
  <2> DEFINE n == page.heartbeatMissed + 1
  <2>1. page' = [page EXCEPT !.pingTimeoutId = FALSE, !.heartbeatMissed = n]
    BY <1>2 DEF PingTimeout
  <2> HIDE DEF n
  <2>2. /\ page'.socket = page.socket /\ page'.message = page.message
        /\ page'.terminalActive = page.terminalActive
    BY <2>1 DEF PageTypeOK, Pages
  <2> QED BY <1>2, <2>2 DEF PingTimeout, linkVars, Persists, Looks
<1> QED BY <1>1, <1>2

(* handleSocketMessage does what the message says. *)
LEMMA ReceivedShows ==
    ASSUME PageTypeOK, NEW m \in DownMessages \ (Ends \cup {"accept"})
    PROVE  /\ m \in Claims => Looks(Received(m))
           /\ m \notin Claims \cup Denies => (Looks(page) => Looks(Received(m)))
<1>1. m \in {"pty-ready", "pty-exited", "unprocessable", "rejected", "pong"}
  BY DEF DownMessages
<1>2. CASE m = "pong"
  <2>1. Received(m) = [page EXCEPT !.heartbeatMissed = 0, !.pingTimeoutId = TRUE]
    BY <1>2 DEF Received
  <2>2. /\ Received(m).terminalActive = page.terminalActive
        /\ Received(m).message = page.message
    BY <2>1 DEF PageTypeOK, Pages
  <2> QED BY <1>2, <2>2 DEF Looks, Claims
<1>3. CASE m = "pty-ready"
  <2>1. Received(m) = [page EXCEPT !.terminalActive = TRUE]
    BY <1>3 DEF Received
  <2>2. Received(m).terminalActive
    BY <2>1 DEF PageTypeOK, Pages
  <2> QED BY <1>3, <2>2 DEF Looks, Claims
<1>4. CASE m = "unprocessable"
  <2>1. Received(m) = [page EXCEPT !.terminalActive = FALSE, !.message = "sorry"]
    BY <1>4 DEF Received
  <2>2. Received(m).message = "sorry"
    BY <2>1 DEF PageTypeOK, Pages
  <2> QED BY <1>4, <2>2 DEF Looks, Claims
<1>5. CASE m \in {"pty-exited", "rejected"}
  BY <1>5 DEF Claims, Denies
<1> QED BY <1>1, <1>2, <1>3, <1>4, <1>5

LEMMA ReceiveShows ==
    ASSUME LinkTypeOK, PageTypeOK, PageInv, SessionInv, HandshakeInv, ShowInv,
           NEW t \in Sockets, PageReceive(t), UNCHANGED srv
    PROVE  ShowInv'
<1> DEFINE m == Head(down[t])
<1>1. /\ t = page.socket /\ Live(t)
      /\ down[t] \in Seq(DownMessages) /\ down[t] # <<>> /\ m \in DownMessages
      /\ down'[t] = Tail(down[t])
  BY DEF PageReceive, PageInv, SocketsInOrder, LinkTypeOK
<1> HIDE DEF m
<1>2. ASSUME m \notin Ends, page'.socket = page.socket,
             rs'[t] \in {"CONNECTING", "OPEN"} => rs[t] \in {"CONNECTING", "OPEN"},
             m \in Claims => Looks(page'),
             m \notin Claims \cup Denies => (Looks(page) => Looks(page'))
      PROVE  ShowInv'
  <2> SUFFICES ASSUME InUse(t)', srv[t].isActive PROVE Tells(down'[t], page')
    BY <1>1, <1>2 DEF ShowInv, InUse
  <2>1. ~EndsWith(down[t], Ends)
    BY <1>1, <1>2, EndsWithTail DEF InUse, m
  <2>2. Tells(down[t], page)
    BY <1>1, <1>2, <2>1 DEF ShowInv, InUse
  <2> QED BY <1>1, <1>2, <2>2, HeadTaken DEF m
<1>3. CASE m = "accept" /\ handleSocketOpen(t)
  <2>1. page' = [page EXCEPT !.connectionState = "connected", !.reconnectAttempts = 0,
                             !.heartbeatMissed = 0, !.connectionTimeoutId = FALSE,
                             !.pendingCommand = FALSE, !.pingTimeoutId = TRUE]
    BY <1>3 DEF handleSocketOpen
  <2>2. /\ page'.socket = page.socket /\ page'.message = page.message
        /\ page'.terminalActive = page.terminalActive
    BY <2>1 DEF PageTypeOK, Pages
  <2>3. m \notin Ends \cup Claims
    BY <1>3 DEF Ends, Claims
  <2>4. rs[t] = "CONNECTING"
    <3>1. 1 \in 1 .. Len(down[t]) /\ down[t][1] = "accept"
      BY <1>1, <1>3 DEF m
    <3> QED BY <3>1 DEF HandshakeInv, Handshake, Accepted
  <2> QED BY <1>2, <2>2, <2>3, <2>4 DEF Looks
<1>4. CASE m \in Ends /\ SocketEnds(t, m)
  <2> DEFINE p == IF m = "fail" THEN handleConnectionError(page) ELSE page
             clean == m = "clean"
  <2>1. p \in Pages /\ p.socket = page.socket
    BY ErrorFacts DEF PageTypeOK
  <2>2. page' = handleSocketClose(p, clean) /\ clean \in BOOLEAN
    BY <1>4 DEF SocketEnds
  <2> HIDE DEF p, clean
  <2>3. page'.socket = page.socket
    BY <2>1, <2>2, CloseFacts
  <2>4. rs'[t] = "CLOSED"
    BY <1>4 DEF SocketEnds, LinkTypeOK
  <2>5. Parts
    BY <1>1, <2>3, <2>4 DEF Parts
  <2> QED BY <2>5, PageShows
<1>5. CASE m \notin Ends \cup {"accept"} /\ handleSocketMessage(m)
  <2>1. page' = Received(m) /\ rs' = rs
    BY <1>5 DEF handleSocketMessage
  <2>2. Received(m).socket = page.socket
    BY <1>1, <1>5, ReceivedFacts
  <2> QED BY <1>1, <1>2, <1>5, <2>1, <2>2, ReceivedShows
<1>6. CASE rs[t] = "CLOSING" /\ UNCHANGED <<page, rs, up>>
  <2>1. Parts
    BY <1>1, <1>6 DEF Parts
  <2> QED BY <2>1, PageShows
<1> QED BY <1>3, <1>4, <1>5, <1>6 DEF PageReceive, m

LEMMA UserShows ==
    ASSUME LinkTypeOK, PageTypeOK, PageInv, SendCommandWhenReady \/ Hide \/ Show \/ Cleanup
    PROVE  Persists \/ StartsAnew \/ Parts
<1>1. CASE SendCommandWhenReady
  <2>1. page'.socket = page.socket /\ (Looks(page) => Looks(page'))
    BY <1>1 DEF SendCommandWhenReady, PageTypeOK, Pages, Looks
  <2> QED BY <1>1, <2>1 DEF SendCommandWhenReady, Persists
<1>2. CASE Hide
  <2> DEFINE was == page.connectionState = "connected"
  <2>1. page' = [page EXCEPT !.isDocumentVisible = FALSE,
                             !.wasConnectedBeforeHidden = was, !.pingTimeoutId = FALSE]
    BY <1>2 DEF Hide
  <2> HIDE DEF was
  <2>2. page'.socket = page.socket /\ (Looks(page) => Looks(page'))
    BY <2>1 DEF PageTypeOK, Pages, Looks
  <2> QED BY <1>2, <2>2 DEF Hide, Persists
<1>3. CASE Show
  <2> DEFINE p == [page EXCEPT !.isDocumentVisible = TRUE]
  <2>1. /\ p \in Pages /\ p.socket = page.socket
        /\ p.terminalActive = page.terminalActive /\ p.message = page.message
    BY DEF PageTypeOK, Pages
  <2>2. \/ page' = [p EXCEPT !.heartbeatMissed = 0, !.pingTimeoutId = TRUE] /\ UNCHANGED rs
        \/ initializeWebSocket([p EXCEPT !.reconnectAttempts = 0])
        \/ page' = p /\ UNCHANGED rs
    BY <1>3 DEF Show
  <2>3. down' = down
    BY <1>3 DEF Show
  <2> HIDE DEF p
  <2>4. CASE page' = [p EXCEPT !.heartbeatMissed = 0, !.pingTimeoutId = TRUE] /\ UNCHANGED rs
    BY <2>1, <2>3, <2>4 DEF Persists, Looks, Pages
  <2>5. CASE initializeWebSocket([p EXCEPT !.reconnectAttempts = 0])
    <3> DEFINE q == [p EXCEPT !.reconnectAttempts = 0]
    <3>1. /\ q \in Pages /\ q.socket = page.socket
          /\ q.terminalActive = page.terminalActive /\ q.message = page.message
      BY <2>1 DEF Pages
    <3>2. initializeWebSocket(q)
      BY <2>5
    <3> HIDE DEF q
    <3> QED BY <2>3, <3>1, <3>2, InitializeShows
  <2>6. CASE page' = p /\ UNCHANGED rs
    BY <2>1, <2>3, <2>6 DEF Persists, Looks
  <2> QED BY <2>2, <2>4, <2>5, <2>6
<1>4. CASE Cleanup
  <2> DEFINE q == clearAllTimers(page)
  <2>1. q \in Pages /\ q.socket = page.socket
    BY ClearFacts DEF PageTypeOK
  <2>2. page' = [q EXCEPT !.connectionState = "disconnected",
                          !.pendingCommand = FALSE, !.gone = TRUE]
    BY <1>4 DEF Cleanup
  <2> HIDE DEF q
  <2>3. page'.socket = page.socket
    BY <2>1, <2>2 DEF Pages
  <2>4. CASE AbortHandshake
    BY <2>3, <2>4, AbortParts
  <2>5. CASE rs' = [rs EXCEPT ![page.socket] = "CLOSING"]
    BY <2>3, <2>5 DEF Parts, LinkTypeOK
  <2>6. CASE ~SocketIs({"CONNECTING", "OPEN"}) /\ UNCHANGED rs
    BY <2>3, <2>6, SocketsAreNumbers DEF Parts, SocketIs, SocketsFact
  <2> QED BY <1>4, <2>4, <2>5, <2>6 DEF Cleanup
<1> QED BY <1>1, <1>2, <1>3, <1>4

LEMMA LoseShows ==
    ASSUME LinkTypeOK, ShowInv, NEW t \in Sockets, Lose(t) \/ Freeze(t), UNCHANGED <<srv, page>>
    PROVE  ShowInv'
<1>1. rs' = rs
  BY DEF Lose, Freeze
<1>2. CASE down' = down
  BY <1>1, <1>2 DEF ShowInv, InUse
<1>3. CASE Lose(t)
  <2>1. PICK k \in 0 .. Len(down[t]) :
          \E last \in LossEvents(t, SubSeq(down[t], 1, k)) :
            down' = [down EXCEPT ![t] = Append(SubSeq(down[t], 1, k), last)]
    BY <1>3, Zenon DEF Lose
  <2>2. PICK last \in LossEvents(t, SubSeq(down[t], 1, k)) :
          down' = [down EXCEPT ![t] = Append(SubSeq(down[t], 1, k), last)]
    BY <2>1
  <2>3. last \in DownMessages /\ last \in Ends
    BY <2>2 DEF LossEvents, DownMessages, Ends
  <2>4. down[t] \in Seq(DownMessages) /\ \A s \in Sockets \ {t} : down'[s] = down[s]
    BY <2>2 DEF LinkTypeOK
  <2>5. SubSeq(down[t], 1, k) \in Seq(DownMessages)
    <3>1. \A j \in 1 .. k : j \in 1 .. Len(down[t])
      BY <2>4
    <3> QED BY <2>4, <3>1, SubSeqProperties
  <2>6. EndsWith(down'[t], Ends)
    BY <2>2, <2>3, <2>5, EndsWithAppend DEF LinkTypeOK
  <2> QED BY <1>1, <2>4, <2>6 DEF ShowInv, InUse
<1> QED BY <1>2, <1>3 DEF Freeze

LEMMA ShowInductive == Inv /\ HandshakeInv /\ ShowInv /\ [Next]_vars => ShowInv'
<1> SUFFICES ASSUME Inv, HandshakeInv, ShowInv, [Next]_vars PROVE ShowInv'
  OBVIOUS
<1>1. LinkTypeOK /\ ServerTypeOK /\ PageTypeOK /\ PageInv /\ SessionInv
  BY DEF Inv, TypeOK
<1>2. CASE ServerNext /\ UNCHANGED page
  BY <1>1, <1>2, ServerShows
<1>3. CASE (PageStep \/ UserStep) /\ UNCHANGED serverVars
  <2>1. srv' = srv
    BY <1>3 DEF serverVars
  <2>2. CASE \E s \in Sockets : PageReceive(s)
    BY <1>1, <2>1, <2>2, ReceiveShows
  <2> QED BY <1>1, <1>3, <2>1, <2>2, TimersShow, TimeoutsShow, UserShows, PageShows
          DEF PageStep, UserStep
<1>4. ASSUME NEW s \in Sockets, Lose(s) \/ Freeze(s), UNCHANGED <<serverVars, page>>
      PROVE  ShowInv'
  BY <1>1, <1>4, LoseShows DEF serverVars
<1>5. CASE UNCHANGED vars
  BY <1>5 DEF vars, linkVars, serverVars, ShowInv, InUse
<1> QED BY <1>2, <1>3, <1>4, <1>5 DEF Next

LEMMA ShowInitially == Init => ShowInv
<1> SUFFICES ASSUME Init PROVE ShowInv
  OBVIOUS
<1>1. \A s \in Sockets : ~srv[s].isActive
  BY SessionTyped DEF Init, ServerInit, Phases
<1> QED BY <1>1 DEF ShowInv

(* Once the page has read all that was sent to it, it shows a session that *)
(* runs, or says that the last command failed: no message of the server is *)
(* overtaken, and none that matters is missing.                            *)
THEOREM ActiveSessionShown == Spec => []ActiveIsShown
<1>1. Inv /\ ShowInv => ActiveIsShown
  <2> SUFFICES ASSUME Inv, ShowInv, NEW s \in Sockets,
                      SocketIs({"OPEN"}), s = page.socket, down[s] = <<>>, srv[s].isActive
               PROVE  page.terminalActive \/ page.message = "sorry"
    BY DEF ActiveIsShown
  <2>1. Tells(down[s], page)
    BY DEF ShowInv, InUse, SocketIs, EndsWith
  <2>2. ~WillShow(down[s])
    BY DEF WillShow
  <2> QED BY <2>1, <2>2 DEF Tells, Looks
<1> QED BY <1>1, Invariant, HandshakeInitially, HandshakeInductive,
           ShowInitially, ShowInductive, PTL DEF Spec
=============================================================================
