---------------------------- MODULE TerminalLink ----------------------------
(***************************************************************************)
(* The WebSocket between a browser page and terminal-server.js: nothing    *)
(* of it is code of the repository, everything is what the handlers of     *)
(* terminal.js (onopen, onmessage, onerror, onclose, readyState) and of    *)
(* terminal-server.js (connection, message, close, ws.send) see of it.     *)
(*                                                                         *)
(* A socket is a number, in the order in which the page opens them.  The   *)
(* two directions are FIFO.  The last event a page gets of a socket is     *)
(*   "clean"  a close event with code 1000, the answer to its own close    *)
(*   "drop"   a close event with any other code                            *)
(*   "fail"   an error event and, in the same task, a close event          *)
(* and the last one the server gets is "close".                            *)
(***************************************************************************)
EXTENDS Naturals, Sequences, FiniteSets

CONSTANTS
    MaxFaults,     \* bound on lost links, refusals, restarts and timeouts
    MaxCommands,   \* bound on the commands the user sends
    MaxHides,      \* bound on how often the tab is hidden
    CanFreeze      \* TRUE to explore links that go silent and stay open

ASSUME LinkAssumption ==
    /\ MaxFaults \in Nat /\ MaxCommands \in Nat /\ MaxHides \in Nat
    /\ CanFreeze \in BOOLEAN

(* A page opens a socket when it has none that is not closed, and a socket *)
(* closes by a fault or because the page is left: this many are enough.    *)
Sockets == 1 .. MaxFaults + 2

VARIABLES
    rs,       \* [Sockets -> readyState at the page]; "NEW" is not yet created
    ws,       \* [Sockets -> state at the server]
    up, down, \* [Sockets -> messages in flight to the server, to the page]
    frozen,   \* the sockets whose link is silent
    used      \* what has been used of the three bounds

linkVars == <<rs, ws, up, down, frozen, used>>

ReadyStates == {"NEW", "CONNECTING", "OPEN", "CLOSING", "CLOSED"}
Ends == {"clean", "drop", "fail"}
UpMessages == {"command", "ping", "checkActive", "close"}
DownMessages ==
    {"accept", "pty-ready", "pty-exited", "unprocessable", "rejected", "pong"} \cup Ends

LinkTypeOK ==
    /\ rs \in [Sockets -> ReadyStates]
    /\ ws \in [Sockets -> {"none", "open", "closed"}]
    /\ up \in [Sockets -> Seq(UpMessages)]
    /\ down \in [Sockets -> Seq(DownMessages)]
    /\ frozen \subseteq Sockets
    /\ used \in [faults : Nat, commands : Nat, hides : Nat]

LinkInit ==
    /\ rs = [s \in Sockets |-> "NEW"]
    /\ ws = [s \in Sockets |-> "none"]
    /\ up = [s \in Sockets |-> <<>>]
    /\ down = [s \in Sockets |-> <<>>]
    /\ frozen = {}
    /\ used = [faults |-> 0, commands |-> 0, hides |-> 0]

Live(s) == rs[s] \in {"CONNECTING", "OPEN", "CLOSING"}
EndsWith(q, last) == q # <<>> /\ q[Len(q)] \in last

(* ws.send and socket.send are ignored once an end is closed. *)
ToPage(s, m) ==
    IF rs[s] = "CLOSED" \/ EndsWith(down[s], Ends) THEN down
    ELSE [down EXCEPT ![s] = Append(@, m)]
ToServer(s, m) ==
    IF ws[s] = "closed" \/ EndsWith(up[s], {"close"}) THEN up
    ELSE [up EXCEPT ![s] = Append(@, m)]

Fault == /\ used.faults < MaxFaults
         /\ used' = [used EXCEPT !.faults = @ + 1]

(* How the page learns that it has lost socket s: a socket whose handshake *)
(* has not been answered always fails.                                     *)
LossEvents(s, received) ==
    IF rs[s] = "CONNECTING" /\ received = <<>> THEN {"fail"} ELSE {"fail", "drop"}

(* The connection is lost: each end still gets a prefix of what was sent   *)
(* to it, and then the end.                                                *)
Lose(s) ==
    /\ Fault
    /\ Live(s) /\ ~EndsWith(down[s], Ends)
    /\ \E k \in 0 .. Len(down[s]) :
         LET received == SubSeq(down[s], 1, k) IN
         \E last \in LossEvents(s, received) :
           down' = [down EXCEPT ![s] = Append(received, last)]
    /\ \E k \in 0 .. Len(up[s]) :
         up' = IF EndsWith(up[s], {"close"}) \/ ws[s] = "closed" THEN up
               ELSE [up EXCEPT ![s] = Append(SubSeq(@, 1, k), "close")]
    /\ UNCHANGED <<rs, ws, frozen>>

(* The path goes silent: nothing is delivered any more in either           *)
(* direction, and neither end is told.                                     *)
Freeze(s) ==
    /\ CanFreeze
    /\ Fault
    /\ rs[s] = "OPEN" /\ s \notin frozen
    /\ frozen' = frozen \cup {s}
    /\ UNCHANGED <<rs, ws, up, down>>
=============================================================================
