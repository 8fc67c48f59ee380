------------------------------- MODULE Server -------------------------------
(***************************************************************************)
(* The HTTP server around the connections: which requests Middleware lets  *)
(* through, how activeConns limits them, and how the process goes down.    *)
(* A connection is what Lifecycle says of it, which WebSocket is shown to  *)
(* implement.                                                              *)
(*                                                                         *)
(*   req       each request: not yet here, past the check of locked, past  *)
(*             that of the limit, up (a connection serves it), over        *)
(*   locked    Server.locked, set after Server.shutdown was closed         *)
(*   closer    the goroutine that New starts for the shutdown              *)
(*   timedOut  it left its loop by the 30 s timer                          *)
(*   fileEvent the file "shutdown" changed                                 *)
(*   signals   signals received; gctxDone: main cancelled the context      *)
(*   exited    how the process ended                                       *)
(*                                                                         *)
(* History, for the properties: counted, whom activeConns counted when the *)
(* shutdown began; raced, whether a request was let through while another  *)
(* one, let through before it, was not counted yet.                        *)
(***************************************************************************)
EXTENDS Integers, FiniteSets

CONSTANTS Conn, WS, ConnectionLimit

ASSUME ServerAssumption ==
  /\ IsFiniteSet(Conn) /\ WS \subseteq Conn
  /\ ConnectionLimit \in Nat

VARIABLES req, life, tracked, shutdown, locked, closer, timedOut,
          fileEvent, signals, gctxDone, exited, counted, raced

L == INSTANCE Lifecycle

conns == <<req, life, tracked, raced>>
closing == <<shutdown, locked, closer, timedOut, counted>>
process == <<fileEvent, signals, gctxDone, exited>>

vars == <<conns, closing, process>>

(* Types; and the closer closes the channel before it locks the server     *)
(* (server.go:97-98), and a connection lives only once its request is up.  *)
TypeOK ==
  /\ req \in [Conn -> {"none", "unlocked", "admitted", "up", "over"}]
  /\ life \in [Conn -> {"opening", "open", "closed"}]
  /\ tracked \in [Conn -> {"no", "yes", "done"}]
  /\ shutdown \in BOOLEAN /\ locked \in BOOLEAN /\ timedOut \in BOOLEAN
  /\ closer \in {"wait", "lock", "poll", "drain", "done"}
  /\ fileEvent \in BOOLEAN /\ gctxDone \in BOOLEAN /\ raced \in BOOLEAN
  /\ signals \in {0, 1, 2}
  /\ exited \in {"no", "ok", "failed", "forced"}
  /\ counted \subseteq Conn
  /\ shutdown <=> closer # "wait"
  /\ locked <=> closer \in {"poll", "drain", "done"}
  /\ \A c \in Conn : life[c] # "opening" => req[c] \in {"up", "over"}

Init ==
  /\ req = [c \in Conn |-> "none"] /\ raced = FALSE
  /\ L!Init
  /\ locked = FALSE /\ closer = "wait" /\ timedOut = FALSE /\ counted = {}
  /\ fileEvent = FALSE /\ signals = 0 /\ gctxDone = FALSE /\ exited = "no"

Tracked == {c \in Conn : tracked[c] = "yes"}
activeConns == Cardinality(Tracked)

Goto(c, l) == req' = [req EXCEPT ![c] = l]

(* Let through, and activeConns has not counted the connection yet.        *)
Pending ==
  {c \in Conn : tracked[c] = "no" /\ (req[c] \in {"admitted", "up"} \/ life[c] # "opening")}
-----------------------------------------------------------------------------
(* Requests.  Middleware looks at locked, then at activeConns, and nothing *)
(* reserves a place until TrackConnection counts the connection.           *)

(* Also on a connection that was accepted before the listener closed.      *)
Arrive(c) ==
  /\ req[c] = "none" /\ closer # "done"
  /\ Goto(c, IF locked THEN "over" ELSE "unlocked")
  /\ UNCHANGED <<life, tracked, raced, closing, process>>

\* mutant: one connection too many
AdmitOneMore(c) ==
  /\ req[c] = "unlocked"
  /\ IF activeConns > ConnectionLimit
     THEN Goto(c, "over") /\ UNCHANGED raced
     ELSE Goto(c, "admitted") /\ raced' = (raced \/ Pending # {})
  /\ UNCHANGED <<life, tracked, closing, process>>

Admit(c) ==
  /\ req[c] = "unlocked"
  /\ IF activeConns >= ConnectionLimit
     THEN Goto(c, "over") /\ UNCHANGED raced
     ELSE Goto(c, "admitted") /\ raced' = (raced \/ Pending # {})
  /\ UNCHANGED <<life, tracked, closing, process>>

(* handleV3: an API that is switched off, a failed upgrade or no session   *)
(* id end the request; else Read and TrackConnection run.                  *)
handleV3(c) ==
  /\ req[c] = "admitted"
  /\ \E l \in {"up", "over"} : Goto(c, l)
  /\ UNCHANGED <<life, tracked, raced, closing, process>>

(* What the connection itself does: its Hello, and its end.                *)
Connection(c) ==
  /\ req[c] = "up" /\ (L!Open(c) \/ L!Close(c))
  /\ UNCHANGED <<req, raced, locked, closer, timedOut, counted, process>>

TrackConnection(c) ==
  /\ L!Count(c) \/ L!Uncount(c)
  /\ UNCHANGED <<req, raced, locked, closer, timedOut, counted, process>>

(* v3.SSE returns after Read; a WebSocket's handler returned long ago.     *)
HandlerReturns(c) ==
  /\ req[c] = "up" /\ c \notin WS /\ life[c] = "closed" /\ Goto(c, "over")
  /\ UNCHANGED <<life, tracked, raced, closing, process>>

Requests ==
  \E c \in Conn :
    \/ Arrive(c) \/ Admit(c) \/ handleV3(c)
    \/ Connection(c) \/ TrackConnection(c) \/ HandlerReturns(c)
-----------------------------------------------------------------------------
(* The goroutine of New that takes the server down.                        *)

\* mutant: the server is locked before its channel is closed
BeginLocked ==
  /\ closer = "wait" /\ (gctxDone \/ fileEvent) /\ closer' = "lock"
  /\ locked' = TRUE /\ counted' = Tracked
  /\ UNCHANGED <<conns, shutdown, timedOut, process>>

Begin ==
  /\ closer = "wait" /\ (gctxDone \/ fileEvent) /\ closer' = "lock"
  /\ L!Shutdown /\ counted' = Tracked
  /\ UNCHANGED <<req, raced, locked, timedOut, process>>

Lock ==
  /\ closer = "lock" /\ closer' = "poll" /\ locked' = TRUE
  /\ UNCHANGED <<conns, shutdown, timedOut, counted, process>>

\* mutant: only the WebSockets are waited for
PollWebSockets ==
  /\ closer = "poll" /\ closer' = "drain"
  /\ timedOut' \in (IF Tracked \cap WS = {} THEN BOOLEAN ELSE {TRUE})
  /\ UNCHANGED <<conns, shutdown, locked, counted, process>>

\* mutant: no timer
PollForever ==
  /\ closer = "poll" /\ closer' = "drain" /\ activeConns = 0
  /\ UNCHANGED <<conns, shutdown, locked, timedOut, counted, process>>

(* The loop ends when nothing is counted, or after 30 s; server.Shutdown   *)
(* then closes the listener first.                                         *)
Poll ==
  /\ closer = "poll" /\ closer' = "drain"
  /\ timedOut' \in (IF activeConns = 0 THEN BOOLEAN ELSE {TRUE})
  /\ UNCHANGED <<conns, shutdown, locked, counted, process>>

(* A request that server.Shutdown waits for: one whose handler runs on a   *)
(* connection that was not hijacked.                                       *)
Served(c) == req[c] \in {"unlocked", "admitted"} \/ (req[c] = "up" /\ c \notin WS)

\* mutant: the handlers are not waited for
DrainNobody ==
  /\ closer = "drain" /\ closer' = "done"
  /\ UNCHANGED <<conns, shutdown, locked, timedOut, counted, process>>

(* The rest of server.Shutdown, nats.Close and close(done).                *)
Drain ==
  /\ closer = "drain" /\ closer' = "done"
  /\ \A c \in Conn : ~Served(c)
  /\ UNCHANGED <<conns, shutdown, locked, timedOut, counted, process>>
-----------------------------------------------------------------------------
(* The process.                                                            *)

FileEvent == fileEvent' = TRUE /\ UNCHANGED <<conns, closing, signals, gctxDone, exited>>

Signal ==
  /\ signals < 2 /\ signals' = signals + 1
  /\ UNCHANGED <<conns, closing, fileEvent, gctxDone, exited>>

Cancel ==
  /\ signals > 0 /\ gctxDone' = TRUE
  /\ UNCHANGED <<conns, closing, fileEvent, signals, exited>>

Exit(how) ==
  /\ exited' = how
  /\ UNCHANGED <<conns, closing, fileEvent, signals, gctxDone>>

(* ListenAndServe returns ErrServerClosed once the listener is closed, and *)
(* its goroutine takes that for a failure to start: Fatal, that is exit 1. *)
ListenAndServe == closer \in {"drain", "done"} /\ Exit("failed")

(* A second signal, or a minute.                                           *)
ForceExit == gctxDone /\ Exit("forced")

(* main has waited for every server's channel; those of health, monitoring *)
(* and pprof close when the context is done.                               *)
Done == gctxDone /\ closer = "done" /\ Exit("ok")

Closer == Begin \/ Lock \/ Poll \/ Drain
Main == Cancel \/ ForceExit \/ Done

Next ==
  /\ exited = "no"
  /\ Requests \/ Closer \/ Main \/ ListenAndServe \/ FileEvent \/ Signal

(* The goroutines run.  Connections and clients need not: a peer that      *)
(* reads nothing blocks its connection for as long as it likes.            *)
Fairness ==
  /\ WF_vars(exited = "no" /\ Closer)
  /\ WF_vars(exited = "no" /\ ListenAndServe)
  /\ WF_vars(exited = "no" /\ Cancel)
  /\ WF_vars(exited = "no" /\ (ForceExit \/ Done))

Spec == Init /\ [][Next]_vars /\ Fairness
-----------------------------------------------------------------------------
(* activeConns can pass its limit only because a request was let through   *)
(* between the check of another one and its count (server.go:173 and       *)
(* connect.go:25): requests that come one by one keep to it.               *)
OvershootNeedsRace == activeConns > ConnectionLimit => raced

(* Once NATS is closed (server.go:115-120) a connection that still lives   *)
(* is a WebSocket, and unless the 30 s were over it is one that            *)
(* activeConns did not know yet when the shutdown began.                   *)
Drained ==
  closer = "done" =>
    \A c \in Conn : req[c] = "up" /\ life[c] # "closed" =>
      c \in WS /\ (timedOut \/ c \notin counted)

(* Unless it is forced, the process ends only when the connections that    *)
(* were counted at the shutdown are closed or have had their 30 s; the     *)
(* Fatal of ListenAndServe's goroutine (server.go:70-74) does not come     *)
(* earlier.                                                                *)
GraceGiven ==
  exited \in {"ok", "failed"} /\ ~timedOut => \A c \in counted : life[c] = "closed"

(* A signal or a change of the file ends the process, whatever the clients *)
(* do (server.go:90-121, main.go:118-143).                                 *)
Exits == gctxDone \/ fileEvent ~> exited # "no"
=============================================================================
