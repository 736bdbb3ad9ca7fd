----------------------- MODULE TerminalReconnectProofs -----------------------
(***************************************************************************)
(* A page is never left disconnected with nothing to wait for.  A close    *)
(* with code 1000 arms no timer, so the proof has to show that a socket    *)
(* ends that way only when the page is left: whatever else puts a "close"  *)
(* on the way up has already put another end on the way down.              *)
(***************************************************************************)
EXTENDS TerminalProofs, SequenceTheorems

(* m is somewhere in q. *)
In(m, q) == \E i \in 1 .. Len(q) : q[i] = m

LEMMA InAppend ==
    ASSUME NEW T, NEW q \in Seq(T), NEW x \in T, NEW m, In(m, Append(q, x))
    PROVE  In(m, q) \/ x = m
BY DEF In

LEMMA InTail ==
    ASSUME NEW T, NEW q \in Seq(T), q # <<>>, NEW m, In(m, Tail(q))
    PROVE  In(m, q)
<1>1. PICK i \in 1 .. Len(Tail(q)) : Tail(q)[i] = m
  BY DEF In
<1>2. i + 1 \in 1 .. Len(q) /\ q[i + 1] = m
  BY <1>1
<1> QED BY <1>2 DEF In

LEMMA InHead ==
    ASSUME NEW T, NEW q \in Seq(T), q # <<>>
    PROVE  In(Head(q), q)
BY DEF In

LEMMA InSubSeq ==
    ASSUME NEW T, NEW q \in Seq(T), NEW k \in 0 .. Len(q), NEW m, In(m, SubSeq(q, 1, k))
    PROVE  In(m, q)
<1>1. PICK i \in 1 .. Len(SubSeq(q, 1, k)) : SubSeq(q, 1, k)[i] = m
  BY DEF In
<1>2. i \in 1 .. Len(q) /\ q[i] = m
  BY <1>1
<1> QED BY <1>2 DEF In

LEMMA EndsWithAppend ==
    ASSUME NEW T, NEW q \in Seq(T), NEW x \in T, NEW L, x \in L
    PROVE  EndsWith(Append(q, x), L)
BY DEF EndsWith

LEMMA EndsWithTail ==
    ASSUME NEW T, NEW q \in Seq(T), NEW L, EndsWith(q, L), Head(q) \notin L
    PROVE  EndsWith(Tail(q), L)
<1>1. Len(q) \in Nat /\ Len(q) > 1
  BY DEF EndsWith
<1>2. Tail(q) \in Seq(T) /\ Len(Tail(q)) = Len(q) - 1
  BY <1>1
<1>3. ASSUME NEW n \in Nat, n = Len(q) - 1 PROVE Tail(q)[n] = q[n + 1]
  <2>1. n \in 1 .. Len(Tail(q))
    BY <1>1, <1>2, <1>3
  <2> QED BY <2>1
<1>4. Len(q) - 1 \in Nat /\ Len(q) - 1 + 1 = Len(q)
  BY <1>1, SMTT(60)
<1>5. Tail(q)[Len(q) - 1] = q[Len(q)]
  BY <1>3, <1>4
<1>6. Tail(q) # <<>>
  <2>1. Len(Tail(q)) # 0
    BY <1>1, <1>2
  <2>2. Len(<<>>) = 0
    OBVIOUS
  <2> QED BY <2>1, <2>2, Zenon
<1> QED BY <1>2, <1>5, <1>6 DEF EndsWith

-----------------------------------------------------------------------------
(* The page has had, or has on its way, the last event of socket s. *)
Ended(s) == rs[s] = "CLOSED" \/ EndsWith(down[s], Ends)

CloseInv ==
    \A s \in Sockets : /\ In("close", up[s]) => page.gone \/ Ended(s)
                       /\ In("clean", down[s]) => page.gone

(* What a step may do to the ends of a socket. *)
Forward(s) ==
    /\ In("close", up'[s]) => In("close", up[s]) \/ page'.gone \/ Ended(s)'
    /\ Ended(s) => Ended(s)'
    /\ In("clean", down'[s]) => In("clean", down[s]) \/ page'.gone

LEMMA ForwardKeeps ==
    ASSUME CloseInv, \A s \in Sockets : Forward(s), page.gone => page'.gone
    PROVE  CloseInv'
BY DEF CloseInv, Forward

LEMMA ToPageForward ==
    ASSUME LinkTypeOK, NEW t \in Sockets, NEW m \in DownMessages,
           down' = ToPage(t, m), rs' = rs, NEW s \in Sockets
    PROVE  /\ Ended(s) => Ended(s)'
           /\ In("clean", down'[s]) =>
                In("clean", down[s]) \/ (m = "clean" /\ s = t /\ ~Ended(s))
<1>1. down[s] \in Seq(DownMessages) /\ down[t] \in Seq(DownMessages)
  BY DEF LinkTypeOK
<1>2. CASE Ended(t)
  <2>1. down' = down
    BY <1>2 DEF Ended, ToPage
  <2> QED BY <2>1 DEF Ended
<1>3. CASE ~Ended(t)
  <2>1. down' = [down EXCEPT ![t] = Append(@, m)]
    BY <1>3 DEF Ended, ToPage
  <2>2. down'[s] = IF s = t THEN Append(down[s], m) ELSE down[s]
    BY <2>1 DEF LinkTypeOK
  <2> QED BY <1>1, <1>3, <2>2, InAppend DEF Ended
<1> QED BY <1>2, <1>3

LEMMA ToServerForward ==
    ASSUME LinkTypeOK, NEW t \in Sockets, NEW m \in UpMessages, m # "close",
           NEW s \in Sockets, In("close", ToServer(t, m)[s])
    PROVE  In("close", up[s])
<1>1. up[s] \in Seq(UpMessages)
  BY DEF LinkTypeOK
<1>2. ToServer(t, m)[s] \in {up[s], Append(up[s], m)}
  BY DEF ToServer, LinkTypeOK
<1> QED BY <1>1, <1>2, InAppend, ZenonT(60)

-----------------------------------------------------------------------------
(* The server, and faults *)
LEMMA TailForward ==
    ASSUME LinkTypeOK, NEW t \in Sockets, up[t] # <<>>,
           up' = [up EXCEPT ![t] = Tail(@)], NEW s \in Sockets, In("close", up'[s])
    PROVE  In("close", up[s])
<1>1. up[s] \in Seq(UpMessages)
  BY DEF LinkTypeOK
<1>2. up'[s] = IF s = t THEN Tail(up[s]) ELSE up[s]
  BY DEF LinkTypeOK
<1> QED BY <1>1, <1>2, InTail

LEMMA ServerAnswersForward ==
    ASSUME LinkTypeOK, CloseInv, NEW t \in Sockets,
           VerifyClient(t) \/ Authorized(t) \/ ServerReceive(t) \/ KillTick(t),
           NEW s \in Sockets
    PROVE  Forward(s)
<1>1. rs' = rs
  BY DEF VerifyClient, Authorized, ServerReceive, KillTick
<1>2. \/ down' = down
      \/ \E m \in DownMessages : m # "clean" /\ down' = ToPage(t, m)
  <2> USE DEF DownMessages, Ends
  <2>1. CASE VerifyClient(t)
    BY <2>1 DEF VerifyClient
  <2>2. CASE Authorized(t)
    BY <2>2 DEF Authorized
  <2>3. CASE ServerReceive(t)
    BY <2>3, SMTT(60)
        DEF ServerReceive, HandleMessage, HandleCommand, CheckActive, RunCommand, Spawn, Reject
  <2>4. CASE KillTick(t)
    BY <2>4 DEF KillTick, Resume, RunCommand, Spawn, Reject
  <2> QED BY <2>1, <2>2, <2>3, <2>4
<1>3. In("close", up'[s]) => In("close", up[s])
  <2>1. CASE up' = up
    BY <2>1
  <2>2. CASE ServerReceive(t)
    BY <2>2, TailForward DEF ServerReceive
  <2> QED BY <2>1, <2>2 DEF VerifyClient, Authorized, KillTick
<1>4. CASE down' = down
  BY <1>1, <1>3, <1>4 DEF Forward, Ended
<1>5. CASE \E m \in DownMessages : m # "clean" /\ down' = ToPage(t, m)
  BY <1>1, <1>3, <1>5, ToPageForward DEF Forward
<1> QED BY <1>2, <1>4, <1>5

LEMMA ServerCloseForward ==
    ASSUME LinkTypeOK, CloseInv, NEW t \in Sockets, ServerClose(t), UNCHANGED page,
           NEW s \in Sockets
    PROVE  Forward(s)
<1>1. rs' = rs /\ down' = ToPage(t, "clean") /\ "clean" \in DownMessages
  BY DEF ServerClose, DownMessages, Ends
<1>2. In("close", up'[s]) => In("close", up[s])
  BY TailForward DEF ServerClose
<1>3. In("close", up[t])
  <2>1. up[t] \in Seq(UpMessages) /\ up[t] # <<>> /\ Head(up[t]) = "close"
    BY DEF ServerClose, LinkTypeOK
  <2> QED BY <2>1, InHead
<1> QED BY <1>1, <1>2, <1>3, ToPageForward DEF Forward, CloseInv

LEMMA PtyForward ==
    ASSUME LinkTypeOK, ServerTypeOK, NEW p \in DOMAIN ptys, PtyExit(p) \/ PtyTimeout(p),
           NEW s \in Sockets
    PROVE  Forward(s)
<1>1. CASE PtyExit(p)
  <2>1. ptys[p].owner \in Sockets
    <3>1. ptys[p] \in Processes
      BY DEF ServerTypeOK
    <3> QED BY <3>1 DEF Processes
  <2>2. /\ UNCHANGED <<rs, up>> /\ down' = ToPage(ptys[p].owner, "pty-exited")
        /\ "pty-exited" \in DownMessages
    BY <1>1 DEF PtyExit, DownMessages
  <2> QED BY <2>1, <2>2, ToPageForward DEF Forward
<1>2. CASE PtyTimeout(p)
  BY <1>2 DEF PtyTimeout, linkVars, Forward, Ended
<1> QED BY <1>1, <1>2

LEMMA ServerRestartForward ==
    ASSUME LinkTypeOK, ServerRestart, NEW s \in Sockets
    PROVE  Forward(s)
<1> DEFINE last == IF rs[s] = "CONNECTING" /\ down[s] = <<>> THEN "fail" ELSE "drop"
<1>1. down[s] \in Seq(DownMessages) /\ last \in DownMessages /\ last # "clean"
  BY DEF LinkTypeOK, DownMessages, Ends
<1>2. rs' = rs /\ up'[s] = <<>>
  BY DEF ServerRestart
<1>3. down'[s] = IF ~Live(s) \/ EndsWith(down[s], Ends) THEN down[s] ELSE Append(down[s], last)
  BY DEF ServerRestart
<1> HIDE DEF last
<1>4. ~In("close", up'[s])
  BY <1>2 DEF In
<1>5. CASE down'[s] = down[s]
  BY <1>2, <1>4, <1>5 DEF Forward, Ended
<1>6. CASE Live(s) /\ ~EndsWith(down[s], Ends) /\ down'[s] = Append(down[s], last)
  <2>1. ~Ended(s)
    BY <1>6 DEF Live, Ended
  <2>2. In("clean", down'[s]) => In("clean", down[s])
    BY <1>1, <1>6, InAppend
  <2> QED BY <1>4, <2>1, <2>2 DEF Forward
<1> QED BY <1>3, <1>5, <1>6

LEMMA LoseForward ==
    ASSUME LinkTypeOK, NEW t \in Sockets, Lose(t), NEW s \in Sockets
    PROVE  Forward(s)
<1>1. PICK k \in 0 .. Len(down[t]) :
        \E last \in LossEvents(t, SubSeq(down[t], 1, k)) :
          down' = [down EXCEPT ![t] = Append(SubSeq(down[t], 1, k), last)]
  BY Zenon DEF Lose
<1>2. PICK last \in LossEvents(t, SubSeq(down[t], 1, k)) :
        down' = [down EXCEPT ![t] = Append(SubSeq(down[t], 1, k), last)]
  BY <1>1
<1>3. last \in DownMessages /\ last \in Ends /\ last # "clean"
  BY <1>2 DEF LossEvents, DownMessages, Ends
<1>4. rs' = rs
  BY DEF Lose
<1>5. CASE s = t
  <2>1. down[s] \in Seq(DownMessages) /\ SubSeq(down[s], 1, k) \in Seq(DownMessages)
    <3>1. down \in [Sockets -> Seq(DownMessages)]
      BY DEF LinkTypeOK
    <3>2. down[s] \in Seq(DownMessages) /\ k \in 0 .. Len(down[s])
      BY <1>1, <1>5, <3>1
    <3>3. \A j \in 1 .. k : j \in 1 .. Len(down[s])
      BY <3>2
    <3> QED BY <3>2, <3>3, SubSeqProperties
  <2>2. down'[s] = Append(SubSeq(down[s], 1, k), last)
    BY <1>2, <1>5 DEF LinkTypeOK
  <2>3. Ended(s)'
    BY <1>3, <2>1, <2>2, EndsWithAppend DEF Ended
  <2>4. In("clean", down'[s]) => In("clean", SubSeq(down[s], 1, k))
    BY <1>3, <2>1, <2>2, InAppend, ZenonT(60)
  <2>5. In("clean", down'[s]) => In("clean", down[s])
    BY <1>1, <1>5, <2>1, <2>4, InSubSeq
  <2> QED BY <2>3, <2>5 DEF Forward
<1>6. CASE s # t
  <2>1. down'[s] = down[s]
    BY <1>2, <1>6 DEF LinkTypeOK
  <2>2. up'[s] = up[s]
    <3>1. PICK j \in 0 .. Len(up[t]) :
            up' = IF EndsWith(up[t], {"close"}) \/ ws[t] = "closed" THEN up
                  ELSE [up EXCEPT ![t] = Append(SubSeq(up[t], 1, j), "close")]
      BY Zenon DEF Lose
    <3> QED BY <1>6, <3>1 DEF LinkTypeOK
  <2> QED BY <1>4, <2>1, <2>2 DEF Forward, Ended
<1> QED BY <1>5, <1>6

LEMMA ServerForward ==
    ASSUME LinkTypeOK, ServerTypeOK, CloseInv, ServerNext, UNCHANGED page, NEW s \in Sockets
    PROVE  Forward(s)
BY ServerAnswersForward, ServerCloseForward, PtyForward, ServerRestartForward DEF ServerNext

-----------------------------------------------------------------------------
(* The page: something will make it try again, or it has given up. *)
Retries(p) ==
    \/ p.gone \/ p.bootTimer \/ p.reconnectInterval \/ p.strayTimers > 0
    \/ p.reconnectAttempts >= MaxReconnectAttempts

Settled == NeverStuck /\ (page.socket # NoSocket => rs[page.socket] # "NEW")

LEMMA ClearGone ==
    ASSUME NEW p \in Pages
    PROVE  clearAllTimers(p).gone = p.gone
BY DEF clearAllTimers, Pages

LEMMA ScheduleRetries ==
    ASSUME NEW p \in Pages
    PROVE  Retries(scheduleReconnect(p)) /\ scheduleReconnect(p).gone = p.gone
<1>1. CASE p.reconnectAttempts >= MaxReconnectAttempts
  <2>1. scheduleReconnect(p) = [p EXCEPT !.message = "failed"]
    BY <1>1 DEF scheduleReconnect
  <2> QED BY <1>1, <2>1 DEF Pages, Retries
<1>2. CASE ~(p.reconnectAttempts >= MaxReconnectAttempts)
  <2> DEFINE n == IF p.reconnectInterval THEN p.strayTimers + 1 ELSE p.strayTimers
  <2>1. scheduleReconnect(p) = [p EXCEPT !.connectionState = "reconnecting",
                                         !.strayTimers = n,
                                         !.reconnectInterval = TRUE]
    BY <1>2 DEF scheduleReconnect
  <2> HIDE DEF n
  <2>2. scheduleReconnect(p).reconnectInterval /\ scheduleReconnect(p).gone = p.gone
    BY <2>1 DEF Pages
  <2> QED BY <2>2 DEF Retries
<1> QED BY <1>1, <1>2

LEMMA ErrorRetries ==
    ASSUME NEW p \in Pages
    PROVE  Retries(handleConnectionError(p)) /\ handleConnectionError(p).gone = p.gone
<1> DEFINE q == [p EXCEPT !.connectionState = "disconnected"]
<1>1. q \in Pages /\ q.gone = p.gone
  BY DEF Pages
<1>2. handleConnectionError(p) = scheduleReconnect(q)
  BY DEF handleConnectionError
<1> HIDE DEF q
<1> QED BY <1>1, <1>2, ScheduleRetries

LEMMA CloseRetries ==
    ASSUME NEW p \in Pages, NEW clean \in BOOLEAN
    PROVE  /\ ~clean => Retries(handleSocketClose(p, clean))
           /\ handleSocketClose(p, clean).gone = p.gone
<1> DEFINE d == [p EXCEPT !.connectionState = "disconnected"]
           q == clearAllTimers(d)
           r == IF q.reconnectAttempts > 0 THEN resetTerminal(q) ELSE q
<1>1. d \in Pages /\ d.gone = p.gone
  BY DEF Pages
<1>2. handleSocketClose(p, clean) = IF clean THEN q ELSE scheduleReconnect(r)
  BY DEF handleSocketClose
<1> HIDE DEF d
<1>3. q \in Pages /\ q.gone = p.gone
  BY <1>1, ClearFacts, ClearGone
<1> HIDE DEF q
<1>4. r \in Pages /\ r.gone = p.gone
  <2>1. resetTerminal(q) \in Pages /\ resetTerminal(q).gone = q.gone
    BY <1>3, ZenonT(60) DEF resetTerminal, Pages
  <2> QED BY <1>3, <2>1
<1> HIDE DEF r
<1> QED BY <1>2, <1>3, <1>4, ScheduleRetries

(* Each task of the page, as far as this invariant can see it.             *)
Steady ==
    /\ page.gone => page'.gone
    /\ NeverStuck'
    /\ \A s \in Sockets : Forward(s)

(* initializeWebSocket leaves a socket that is not closed, old or new.     *)
LEMMA InitializeSteady ==
    ASSUME LinkTypeOK, PageTypeOK, PageInv, Settled,
           NEW p \in Pages, p.socket = page.socket,
           p.connectionState = page.connectionState, p.gone = page.gone,
           initializeWebSocket(p), UNCHANGED down,
           \A s \in Sockets : In("close", up'[s]) => In("close", up[s])
    PROVE  Steady
<1>1. CASE SocketIs(ReadyStates \ {"CLOSED"}) /\ page' = p /\ UNCHANGED rs
  <2>1. page.socket \in Sockets /\ rs[page.socket] \in {"CONNECTING", "OPEN", "CLOSING"}
    BY <1>1 DEF SocketIs, ReadyStates, Settled, PageTypeOK, Pages
  <2>2. NeverStuck'
    BY <1>1, <2>1 DEF NeverStuck, SocketIs, PageInv, ConnectedIffOpen
  <2> QED BY <1>1, <2>2 DEF Steady, Forward, Ended
<1>2. CASE OpenSocket(p)
  <2> DEFINE q == clearAllTimers(p)
  <2>1. q \in Pages /\ q.socket = page.socket /\ q.gone = page.gone
    BY ClearFacts, ClearGone
  <2>2. page' = [q EXCEPT !.connectionState = "connecting", !.socket = q.socket + 1,
                          !.connectionTimeoutId = TRUE]
    BY <1>2 DEF OpenSocket
  <2> HIDE DEF q
  <2>3. page'.gone = page.gone /\ page'.socket = page.socket + 1
    BY <2>1, <2>2 DEF Pages
  <2>4. page.socket + 1 \in Sockets /\ rs' = [rs EXCEPT ![page.socket + 1] = "CONNECTING"]
    BY <1>2 DEF OpenSocket
  <2>5. NeverStuck'
    <3>1. rs'[page'.socket] = "CONNECTING" /\ page'.socket # NoSocket
      BY <2>3, <2>4, SocketsAreNumbers DEF SocketsFact, LinkTypeOK
    <3>2. SocketIs({"CONNECTING", "CLOSING"})'
      BY <3>1 DEF SocketIs
    <3> QED BY <3>2, Zenon DEF NeverStuck
  <2>6. rs[page.socket + 1] = "NEW"
    <3>1. page.socket \in Nat
      <4>1. page.socket \in {NoSocket} \cup Sockets
        BY DEF PageTypeOK, Pages
      <4>2. NoSocket \in Nat /\ Sockets \subseteq Nat
        BY SocketsAreNumbers DEF SocketsFact, NoSocket
      <4> QED BY <4>1, <4>2, Zenon
    <3> QED BY <2>4, <3>1 DEF PageInv, SocketsInOrder
  <2>7. \A s \in Sockets : Ended(s) => Ended(s)'
    BY <2>4, <2>6 DEF Ended, LinkTypeOK
  <2> QED BY <2>3, <2>5, <2>7 DEF Steady, Forward
<1> QED BY <1>1, <1>2 DEF initializeWebSocket

LEMMA TimersSteady ==
    ASSUME LinkTypeOK, PageTypeOK, PageInv, Settled, Boot \/ Reconnect \/ StrayReconnect
    PROVE  Steady
<1>1. PICK p \in Pages : /\ p.socket = page.socket
                         /\ p.connectionState = page.connectionState
                         /\ p.gone = page.gone
                         /\ initializeWebSocket(p)
  <2>1. CASE Boot
    <3> DEFINE p == [page EXCEPT !.bootTimer = FALSE]
    <3>1. /\ p \in Pages /\ p.socket = page.socket /\ p.gone = page.gone
          /\ p.connectionState = page.connectionState
      BY DEF PageTypeOK, Pages
    <3>2. initializeWebSocket(p)
      BY <2>1 DEF Boot
    <3> QED BY <3>1, <3>2
  <2>2. CASE Reconnect
    <3> DEFINE n == page.reconnectAttempts + 1
               p == [page EXCEPT !.reconnectInterval = FALSE, !.reconnectAttempts = n]
    <3>1. initializeWebSocket(p)
      BY <2>2 DEF Reconnect
    <3>2. n \in Nat
      BY DEF PageTypeOK, Pages
    <3> HIDE DEF n
    <3>3. /\ p \in Pages /\ p.socket = page.socket /\ p.gone = page.gone
          /\ p.connectionState = page.connectionState
      BY <3>2 DEF PageTypeOK, Pages
    <3> QED BY <3>1, <3>3
  <2>3. CASE StrayReconnect
    <3> DEFINE k == page.strayTimers - 1
               n == page.reconnectAttempts + 1
               p == [page EXCEPT !.strayTimers = k, !.reconnectAttempts = n]
    <3>1. initializeWebSocket(p)
      BY <2>3 DEF StrayReconnect
    <3>2. k \in Nat /\ n \in Nat
      BY <2>3 DEF StrayReconnect, PageTypeOK, Pages
    <3> HIDE DEF k, n
    <3>3. /\ p \in Pages /\ p.socket = page.socket /\ p.gone = page.gone
          /\ p.connectionState = page.connectionState
      BY <3>2 DEF PageTypeOK, Pages
    <3> QED BY <3>1, <3>3
  <2> QED BY <2>1, <2>2, <2>3
<1>2. UNCHANGED <<up, down>>
  BY DEF Boot, Reconnect, StrayReconnect
<1> QED BY <1>1, <1>2, InitializeSteady

(* A page that keeps its socket and all that it waits for is as it was.    *)
LEMMA SameSteady ==
    ASSUME Settled, rs' = rs, page'.socket = page.socket,
           page'.connectionState = page.connectionState,
           Retries(page) => Retries(page')
    PROVE  NeverStuck'
BY DEF Settled, NeverStuck, Retries, SocketIs

(* The failed handshake ends the socket, whatever it was.                  *)
LEMMA AbortForward ==
    ASSUME LinkTypeOK, PageTypeOK, AbortHandshake, NEW s \in Sockets
    PROVE  Forward(s)
<1>1. CASE s = page.socket
  <2>1. down'[s] = <<"fail">>
    BY <1>1 DEF AbortHandshake, LinkTypeOK
  <2>2. Ended(s)'
    BY <2>1 DEF Ended, EndsWith, Ends
  <2>3. ~In("clean", down'[s])
    BY <2>1 DEF In
  <2> QED BY <2>2, <2>3 DEF Forward
<1>2. CASE s # page.socket
  <2>1. rs'[s] = rs[s] /\ down'[s] = down[s] /\ up'[s] = up[s]
    BY <1>2 DEF AbortHandshake, ToServer, LinkTypeOK
  <2> QED BY <2>1 DEF Forward, Ended
<1> QED BY <1>1, <1>2

LEMMA TimeoutsSteady ==
    ASSUME LinkTypeOK, PageTypeOK, PageInv, Settled, ConnectionTimeout \/ PingTimeout
    PROVE  Steady
<1>1. CASE ConnectionTimeout
  <2> DEFINE p == [page EXCEPT !.connectionTimeoutId = FALSE]
  <2>1. p \in Pages /\ p.gone = page.gone
    BY DEF PageTypeOK, Pages
  <2>2. page' = handleConnectionError(p) /\ AbortHandshake
    BY <1>1 DEF ConnectionTimeout
  <2> HIDE DEF p
  <2>3. Retries(page') /\ page'.gone = page.gone
    BY <2>1, <2>2, ErrorRetries
  <2> QED BY <2>2, <2>3, AbortForward DEF Steady, NeverStuck, Retries
<1>2. CASE PingTimeout
  <2> DEFINE n == page.heartbeatMissed + 1
  <2>1. page' = [page EXCEPT !.pingTimeoutId = FALSE, !.heartbeatMissed = n]
    BY <1>2 DEF PingTimeout
  <2> HIDE DEF n
  <2>2. /\ page'.socket = page.socket /\ page'.gone = page.gone
        /\ page'.connectionState = page.connectionState
        /\ Retries(page) => Retries(page')
    BY <2>1 DEF PageTypeOK, Pages, Retries
  <2>3. UNCHANGED <<rs, up, down>>
    BY <1>2 DEF PingTimeout, linkVars
  <2> QED BY <2>2, <2>3, SameSteady DEF Steady, Forward, Ended
<1> QED BY <1>1, <1>2

LEMMA ReceivedSteady ==
    ASSUME PageTypeOK, NEW m \in DownMessages \ (Ends \cup {"accept"})
    PROVE  Received(m).gone = page.gone /\ (Retries(page) => Retries(Received(m)))
<1>1. m \in {"pty-ready", "pty-exited", "unprocessable", "rejected", "pong"}
  BY DEF DownMessages
<1>2. CASE m = "pong"
  <2> DEFINE q == [page EXCEPT !.heartbeatMissed = 0, !.pingTimeoutId = TRUE]
  <2>1. Received(m) = q
    BY <1>2 DEF Received
  <2>2. q.gone = page.gone /\ (Retries(page) => Retries(q))
    BY DEF PageTypeOK, Pages, Retries
  <2> HIDE DEF q
  <2> QED BY <2>1, <2>2
<1>3. CASE m = "pty-ready"
  <2>1. Received(m) = [page EXCEPT !.terminalActive = TRUE]
    BY <1>3 DEF Received
  <2> QED BY <2>1 DEF PageTypeOK, Pages, Retries
<1>4. CASE m = "unprocessable"
  <2>1. Received(m) = [page EXCEPT !.terminalActive = FALSE, !.message = "sorry"]
    BY <1>4 DEF Received
  <2> QED BY <2>1 DEF PageTypeOK, Pages, Retries
<1>5. CASE m \in {"pty-exited", "rejected"}
  <2>1. Received(m) = [page EXCEPT !.terminalActive = FALSE]
    BY <1>5 DEF Received
  <2> QED BY <2>1 DEF PageTypeOK, Pages, Retries
<1> QED BY <1>1, <1>2, <1>3, <1>4, <1>5

LEMMA ReceiveSteady ==
    ASSUME LinkTypeOK, PageTypeOK, PageInv, Settled, CloseInv,
           NEW t \in Sockets, PageReceive(t)
    PROVE  Steady
<1> DEFINE m == Head(down[t])
<1>1. /\ t = page.socket /\ t # NoSocket /\ Live(t)
      /\ down[t] \in Seq(DownMessages) /\ down[t] # <<>> /\ m \in DownMessages
      /\ down' = [down EXCEPT ![t] = Tail(@)]
  BY SocketsAreNumbers DEF PageReceive, PageInv, SocketsInOrder, LinkTypeOK, SocketsFact
<1>2. \A s \in Sockets : In("clean", down'[s]) => In("clean", down[s])
  BY <1>1, InTail DEF LinkTypeOK
<1>3. m \notin Ends => (EndsWith(down[t], Ends) => EndsWith(down'[t], Ends))
  BY <1>1, EndsWithTail DEF LinkTypeOK
<1>4. \A s \in Sockets \ {t} : down'[s] = down[s]
  BY <1>1 DEF LinkTypeOK
<1> HIDE DEF m
<1>5. CASE m = "accept" /\ handleSocketOpen(t)
  <2>1. page' = [page EXCEPT !.connectionState = "connected", !.reconnectAttempts = 0,
                             !.heartbeatMissed = 0, !.connectionTimeoutId = FALSE,
                             !.pendingCommand = FALSE, !.pingTimeoutId = TRUE]
    BY <1>5 DEF handleSocketOpen
  <2>2. page'.connectionState = "connected" /\ page'.gone = page.gone
    BY <2>1 DEF PageTypeOK, Pages
  <2>3. \A s \in Sockets : In("close", up'[s]) => In("close", up[s])
    <3>1. up' = up \/ up' = ToServer(t, "command")
      BY <1>5 DEF handleSocketOpen
    <3>2. "command" \in UpMessages /\ "command" # "close"
      BY DEF UpMessages
    <3> QED BY <3>1, <3>2, ToServerForward
  <2>4. \A s \in Sockets : Ended(s) => Ended(s)'
    <3>1. rs' = [rs EXCEPT ![t] = "OPEN"] /\ m \notin Ends
      BY <1>5 DEF handleSocketOpen, Ends
    <3>2. \A s \in Sockets \ {t} : rs'[s] = rs[s]
      BY <3>1 DEF LinkTypeOK
    <3>3. rs[t] # "CLOSED"
      BY <1>1 DEF Live
    <3> QED BY <1>3, <1>4, <3>1, <3>2, <3>3 DEF Ended
  <2> QED BY <1>2, <2>2, <2>3, <2>4 DEF Steady, Forward, NeverStuck
<1>6. CASE m \in Ends /\ SocketEnds(t, m)
  <2> DEFINE p == IF m = "fail" THEN handleConnectionError(page) ELSE page
             clean == m = "clean"
  <2>1. p \in Pages /\ p.gone = page.gone
    BY ErrorFacts, ErrorRetries DEF PageTypeOK
  <2>2. page' = handleSocketClose(p, clean) /\ clean \in BOOLEAN
    BY <1>6 DEF SocketEnds
  <2>3. clean => page.gone
    <3>1. In(m, down[t])
      BY <1>1, InHead DEF m
    <3> QED BY <3>1 DEF CloseInv
  <2> HIDE DEF p, clean
  <2>4. page'.gone = page.gone /\ Retries(page')
    <3>1. page'.gone = page.gone /\ (~clean => Retries(page'))
      BY <2>1, <2>2, CloseRetries
    <3> QED BY <2>3, <3>1 DEF Retries
  <2>5. rs' = [rs EXCEPT ![t] = "CLOSED"] /\ up' = up
    BY <1>6 DEF SocketEnds
  <2>6. \A s \in Sockets : Ended(s) => Ended(s)'
    BY <1>4, <2>5 DEF Ended, LinkTypeOK
  <2> QED BY <1>2, <2>4, <2>5, <2>6 DEF Steady, Forward, NeverStuck, Retries
<1>7. ASSUME m \notin Ends, UNCHANGED <<rs, up>>, page'.socket = page.socket,
             page'.gone = page.gone, page'.connectionState = page.connectionState,
             Retries(page) => Retries(page')
      PROVE  Steady
  <2>1. \A s \in Sockets : Ended(s) => Ended(s)'
    BY <1>3, <1>4, <1>7 DEF Ended
  <2> QED BY <1>2, <1>7, <2>1, SameSteady DEF Steady, Forward
<1>8. CASE m \notin Ends \cup {"accept"} /\ handleSocketMessage(m)
  <2>1. /\ Received(m).socket = page.socket /\ Received(m).gone = page.gone
        /\ Received(m).connectionState = page.connectionState
        /\ Retries(page) => Retries(Received(m))
    BY <1>1, <1>8, ReceivedFacts, ReceivedSteady
  <2> QED BY <1>7, <1>8, <2>1 DEF handleSocketMessage
<1>9. CASE m \notin Ends \cup {"accept"} /\ UNCHANGED <<page, rs, up>>
  BY <1>7, <1>9
<1> QED BY <1>5, <1>6, <1>8, <1>9 DEF PageReceive, m

LEMMA UserSteady ==
    ASSUME LinkTypeOK, PageTypeOK, PageInv, Settled, SendCommandWhenReady \/ Hide
    PROVE  Steady
<1>1. UNCHANGED <<rs, down>>
  BY DEF SendCommandWhenReady, Hide
<1>2. /\ page'.socket = page.socket /\ page'.gone = page.gone
      /\ page'.connectionState = page.connectionState
      /\ Retries(page) => Retries(page')
  <2>1. CASE page' = page
    BY <2>1
  <2>2. CASE page' = [page EXCEPT !.pendingCommand = TRUE]
    BY <2>2 DEF PageTypeOK, Pages, Retries
  <2>3. CASE Hide
    <3> DEFINE was == page.connectionState = "connected"
    <3>1. page' = [page EXCEPT !.isDocumentVisible = FALSE,
                               !.wasConnectedBeforeHidden = was,
                               !.pingTimeoutId = FALSE]
      BY <2>3 DEF Hide
    <3> HIDE DEF was
    <3> QED BY <3>1 DEF PageTypeOK, Pages, Retries
  <2> QED BY <2>1, <2>2, <2>3 DEF SendCommandWhenReady
<1>3. \A s \in Sockets : In("close", up'[s]) => In("close", up[s])
  <2>1. up' = up \/ up' = SendMessage("command")
    BY DEF SendCommandWhenReady, Hide
  <2>2. page.socket # NoSocket => page.socket \in Sockets
    BY DEF PageTypeOK, Pages
  <2>3. "command" \in UpMessages /\ "command" # "close"
    BY DEF UpMessages
  <2> QED BY <2>1, <2>2, <2>3, ToServerForward DEF SendMessage, SocketIs
<1> QED BY <1>1, <1>2, <1>3, SameSteady DEF Steady, Forward, Ended

LEMMA ShowSteady ==
    ASSUME LinkTypeOK, PageTypeOK, PageInv, Settled, Show
    PROVE  Steady
<1> DEFINE p == [page EXCEPT !.isDocumentVisible = TRUE]
<1>1. /\ p \in Pages /\ p.socket = page.socket /\ p.gone = page.gone
      /\ p.connectionState = page.connectionState
      /\ Retries(page) => Retries(p)
  BY DEF PageTypeOK, Pages, Retries
<1>2. down' = down
  BY DEF Show
<1>3. \/ /\ SocketIs({"OPEN"}) /\ up' = SendMessage("ping") /\ UNCHANGED rs
         /\ page' = [p EXCEPT !.heartbeatMissed = 0, !.pingTimeoutId = TRUE]
      \/ initializeWebSocket([p EXCEPT !.reconnectAttempts = 0]) /\ UNCHANGED up
      \/ page' = p /\ UNCHANGED <<rs, up>>
  BY DEF Show
<1> HIDE DEF p
<1>4. CASE /\ SocketIs({"OPEN"}) /\ up' = SendMessage("ping") /\ UNCHANGED rs
           /\ page' = [p EXCEPT !.heartbeatMissed = 0, !.pingTimeoutId = TRUE]
  <2>1. /\ page'.socket = page.socket /\ page'.gone = page.gone
        /\ page'.connectionState = page.connectionState
        /\ Retries(page) => Retries(page')
    BY <1>1, <1>4 DEF Pages, Retries
  <2>2. \A s \in Sockets : In("close", up'[s]) => In("close", up[s])
    <3>1. page.socket \in Sockets /\ up' = ToServer(page.socket, "ping")
      BY <1>4 DEF SendMessage, SocketIs, PageTypeOK, Pages
    <3>2. "ping" \in UpMessages /\ "ping" # "close"
      BY DEF UpMessages
    <3> QED BY <3>1, <3>2, ToServerForward
  <2> QED BY <1>2, <1>4, <2>1, <2>2, SameSteady DEF Steady, Forward, Ended
<1>5. CASE initializeWebSocket([p EXCEPT !.reconnectAttempts = 0]) /\ UNCHANGED up
  <2> DEFINE q == [p EXCEPT !.reconnectAttempts = 0]
  <2>1. /\ q \in Pages /\ q.socket = page.socket /\ q.gone = page.gone
        /\ q.connectionState = page.connectionState
    BY <1>1 DEF Pages
  <2>2. initializeWebSocket(q)
    BY <1>5
  <2> HIDE DEF q
  <2> QED BY <1>2, <1>5, <2>1, <2>2, InitializeSteady
<1>6. CASE page' = p /\ UNCHANGED <<rs, up>>
  BY <1>1, <1>2, <1>6, SameSteady DEF Steady, Forward, Ended
<1> QED BY <1>3, <1>4, <1>5, <1>6

LEMMA CleanupSteady ==
    ASSUME LinkTypeOK, PageTypeOK, PageInv, Settled, Cleanup
    PROVE  Steady
<1> DEFINE q == clearAllTimers(page)
<1>1. q \in Pages
  BY ClearFacts DEF PageTypeOK
<1>2. page' = [q EXCEPT !.connectionState = "disconnected",
                        !.pendingCommand = FALSE, !.gone = TRUE]
  BY DEF Cleanup
<1> HIDE DEF q
<1>3. page'.gone
  BY <1>1, <1>2 DEF Pages
<1>4. CASE AbortHandshake
  BY <1>3, <1>4, AbortForward DEF Steady, NeverStuck
<1>5. CASE /\ SocketIs({"OPEN"})
           /\ rs' = [rs EXCEPT ![page.socket] = "CLOSING"]
           /\ UNCHANGED down
  <2>1. \A s \in Sockets : rs[s] = "CLOSED" => rs'[s] = "CLOSED"
    BY <1>5 DEF SocketIs, LinkTypeOK
  <2> QED BY <1>3, <1>5, <2>1 DEF Steady, NeverStuck, Forward, Ended
<1>6. CASE UNCHANGED <<rs, up, down>>
  BY <1>3, <1>6 DEF Steady, NeverStuck, Forward, Ended
<1> QED BY <1>4, <1>5, <1>6 DEF Cleanup

LEMMA PageSteady ==
    ASSUME LinkTypeOK, PageTypeOK, PageInv, Settled, CloseInv, PageStep \/ UserStep
    PROVE  Steady
BY TimersSteady, TimeoutsSteady, ReceiveSteady, UserSteady, ShowSteady, CleanupSteady
   DEF PageStep, UserStep

-----------------------------------------------------------------------------
LiveInv == Settled /\ CloseInv

LEMMA LiveInitially == Init => LiveInv
<1> SUFFICES ASSUME Init PROVE LiveInv
  OBVIOUS
<1>1. page.bootTimer /\ page.socket = NoSocket
  BY DEF Init, PageInit
<1>2. \A s \in Sockets : up[s] = <<>> /\ down[s] = <<>>
  BY DEF Init, LinkInit
<1>3. CloseInv
  BY <1>2 DEF CloseInv, In
<1> QED BY <1>1, <1>3 DEF LiveInv, Settled, NeverStuck

LEMMA LiveInductive == Inv /\ LiveInv /\ [Next]_vars => LiveInv'
<1> SUFFICES ASSUME Inv, LiveInv, [Next]_vars PROVE LiveInv'
  OBVIOUS
<1>1. LinkTypeOK /\ ServerTypeOK /\ PageTypeOK /\ PageInv /\ Settled /\ CloseInv
  BY DEF Inv, TypeOK, LiveInv
<1>2. ASSUME UNCHANGED <<rs, page>> PROVE Settled'
  BY <1>1, <1>2 DEF Settled, NeverStuck, SocketIs
<1>3. CASE ServerNext /\ UNCHANGED page
  <2>1. Settled'
    BY <1>2, <1>3, ServerKeepsReadyStates
  <2>2. CloseInv'
    BY <1>1, <1>3, ServerForward, ForwardKeeps
  <2> QED BY <2>1, <2>2 DEF LiveInv
<1>4. CASE (PageStep \/ UserStep) /\ UNCHANGED serverVars
  <2>1. Steady
    BY <1>1, <1>4, PageSteady
  <2>2. CloseInv' /\ NeverStuck'
    BY <1>1, <2>1, ForwardKeeps DEF Steady
  <2>3. Move
    BY <1>1, <1>4, PageMoves
  <2>4. page'.socket # NoSocket => rs'[page'.socket] # "NEW"
    <3>1. /\ page.socket \in {NoSocket} \cup Sockets /\ rs \in [Sockets -> ReadyStates]
          /\ page.socket # NoSocket => rs[page.socket] # "NEW"
      BY <1>1 DEF PageTypeOK, Pages, LinkTypeOK, Settled
    <3> QED BY <2>3, <3>1 DEF Move, Keeps, Opens, Connects, Closes
  <2> QED BY <2>2, <2>4 DEF LiveInv, Settled
<1>5. ASSUME NEW t \in Sockets, Lose(t) \/ Freeze(t), UNCHANGED <<serverVars, page>>
      PROVE  LiveInv'
  <2>1. rs' = rs
    BY <1>5 DEF Lose, Freeze
  <2>2. \A s \in Sockets : Forward(s)
    BY <1>1, <1>5, LoseForward DEF Freeze, Forward, Ended
  <2> QED BY <1>1, <1>2, <1>5, <2>1, <2>2, ForwardKeeps DEF LiveInv
<1>6. CASE UNCHANGED vars
  <2>1. UNCHANGED <<rs, up, down, page>>
    BY <1>6 DEF vars, linkVars
  <2> QED BY <1>1, <1>2, <2>1 DEF LiveInv, CloseInv, Ended
<1> QED BY <1>3, <1>4, <1>5, <1>6 DEF Next

(* Whatever is lost, refused, timed out or restarted, a page that is not   *)
(* connected has a timer armed or an event of its socket to come, has used *)
(* up its reconnect attempts, or is left.                                  *)
THEOREM AlwaysRetries == Spec => []NeverStuck
<1>1. LiveInv => NeverStuck
  BY DEF LiveInv, Settled
<1> QED BY <1>1, Invariant, LiveInitially, LiveInductive, PTL DEF Spec
=============================================================================
