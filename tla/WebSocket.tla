----------------------------- MODULE WebSocket ------------------------------
(***************************************************************************)
(* The life of one WebSocket connection: the four goroutines that serve    *)
(* it, and the ways it can end.                                            *)
(*                                                                         *)
(*   main      websocket_read.go Read: Hello, then the select loop         *)
(*   reader    the goroutine Read starts: the client's commands            *)
(*   tracker   connect.go TrackConnection: the counters                    *)
(*   watcher   the goroutine TrackConnection starts: server shutdown       *)
(*                                                                         *)
(* Any of them may run SendClose, and main and reader both end in Destroy; *)
(* nothing keeps two SendClose apart but the check of the context.  What a *)
(* frame or a command carries is left out, but for whether it joins a key  *)
(* in NATS; Dispatch and Subscriptions are about the rest.                 *)
(*                                                                         *)
(*   wire       frames the socket accepted, by kind                        *)
(*   closed     the socket was closed here (c.Close)                       *)
(*   broken     the peer or the network is gone                            *)
(*   cancelled  the connection's context is                                *)
(*   ready      the channel is closed                                      *)
(*   joined     the session has joined a key in NATS since its             *)
(*              subscription there was last closed; heard: it ever has, so a *)
(*              dispatch may be queued                                       *)
(*   conns      what the connection has added to activeConns               *)
(*   ret        where each goroutine goes on after SendClose or ForceClose *)
(*   gctxDone   the process's context; shutdown the server's channel       *)
(*                                                                         *)
(* History: cut, whether the map was destroyed while another goroutine     *)
(* could still subscribe.                                                  *)
(***************************************************************************)
EXTENDS Integers, Sequences

CONSTANT MaxExtra   \* bound: heartbeats, dispatches and commands together

Proc == {"main", "reader", "tracker", "watcher"}

VARIABLES pc, ret, wire, closed, broken, cancelled, ready, destroyed, joined, heard, cut,
          conns, gctxDone, shutdown, extra

gvars == <<pc, ret>>
svars == <<wire, closed, broken>>
subs == <<joined, heard, cut>>
cvars == <<cancelled, ready, destroyed, subs>>
env == <<gctxDone, shutdown>>

vars == <<gvars, svars, cvars, conns, env, extra>>

(* data: a dispatch, a heartbeat, an Ack or an Error.                      *)
Frame == {"hello", "data", "reconnect", "eos", "close", "echo"}
SendCloseAt == {"eos", "frame", "force", "cancel"}
DestroyAt == {"force", "cancel", "rest", "end"}

Place == {"greet", "select", "effect", "wait", "whisper", "read", "ack", "counted", "off", "watch"}
         \cup SendCloseAt \cup DestroyAt

(* Types; each goroutine is at one of its own places, and the connection   *)
(* counts once (connect.go:25-69).                                         *)
TypeOK ==
  /\ pc \in [Proc -> Place]
  /\ pc["main"] \in {"greet", "select", "effect"} \cup SendCloseAt \cup DestroyAt
  /\ pc["reader"] \in {"wait", "whisper", "read", "ack"} \cup SendCloseAt \cup DestroyAt
  /\ pc["tracker"] \in {"wait", "counted", "end"}
  /\ pc["watcher"] \in {"off", "watch", "end"} \cup SendCloseAt
  /\ ret \in [Proc -> {"read", "destroy", "rest", "end"}]
  /\ wire \in Seq(Frame) /\ extra \in Nat
  /\ closed \in BOOLEAN /\ broken \in BOOLEAN
  /\ cancelled \in BOOLEAN /\ ready \in BOOLEAN /\ destroyed \in BOOLEAN
  /\ joined \in BOOLEAN /\ heard \in BOOLEAN /\ cut \in BOOLEAN
  /\ conns \in {0, 1}
  /\ gctxDone \in BOOLEAN /\ shutdown \in BOOLEAN

Init ==
  /\ pc = [p \in Proc |-> CASE p = "main" -> "greet" [] p = "watcher" -> "off" [] OTHER -> "wait"]
  /\ ret = [p \in Proc |-> "end"]
  /\ wire = <<>> /\ closed = FALSE /\ broken = FALSE
  /\ cancelled = FALSE /\ ready = FALSE /\ destroyed = FALSE
  /\ joined = FALSE /\ heard = FALSE /\ cut = FALSE
  /\ conns = 0 /\ gctxDone = FALSE /\ shutdown = FALSE /\ extra = 0
-----------------------------------------------------------------------------
Goto(p, l) == pc' = [pc EXCEPT ![p] = l] /\ UNCHANGED ret
Call(p, l, back) == pc' = [pc EXCEPT ![p] = l] /\ ret' = [ret EXCEPT ![p] = back]

(* gorilla's Conn accepts nothing once a close frame was written.          *)
Sent(f) == \E i \in DOMAIN wire : wire[i] = f
CanWrite == ~closed /\ ~broken /\ ~Sent("close") /\ ~Sent("echo")

(* Write: nothing and no error once the context is cancelled; but that is  *)
(* looked at before writeMtx is taken, so a Write that then waited still   *)
(* tries.  A broken socket may take bytes for a while.                     *)
Write(f, ok) ==
  /\ UNCHANGED <<closed, broken>>
  /\ \/ CanWrite /\ ok /\ wire' = Append(wire, f)
     \/ (cancelled \/ broken) /\ ok /\ UNCHANGED wire
     \/ ~CanWrite /\ ~ok /\ UNCHANGED wire

Extra == extra < MaxExtra /\ extra' = extra + 1

(* The connection's own Destroy, from its first step.                      *)
Destroy(p) == Call(p, "force", "rest")
-----------------------------------------------------------------------------
(* SendClose.                                                              *)

\* mutant: it does not look whether the connection has ended already
SendCloseAgain(p, back) == Call(p, "eos", back)

SendClose(p, back) ==
  IF cancelled
  THEN IF back = "destroy" THEN Destroy(p) ELSE Goto(p, back)
  ELSE Call(p, "eos", back)

EndOfStream(p) ==
  /\ pc[p] = "eos"
  /\ \E ok \in BOOLEAN : Write("eos", ok) /\ Goto(p, IF ok THEN "frame" ELSE "force")
  /\ UNCHANGED <<cvars, conns, env, extra>>

(* The wait that follows, until the context is done or the given time has  *)
(* passed, is the time until ForceClose's first step.                      *)
CloseFrame(p) ==
  /\ pc[p] = "frame"
  /\ wire' = IF CanWrite THEN Append(wire, "close") ELSE wire
  /\ Goto(p, "force")
  /\ UNCHANGED <<closed, broken, cvars, conns, env, extra>>

\* mutant: the context is cancelled before the socket is closed
ForceCloseSwapped(p) ==
  /\ \/ /\ pc[p] = "force" /\ cancelled' = TRUE
        /\ Goto(p, "cancel")
        /\ UNCHANGED closed
     \/ /\ pc[p] = "cancel" /\ closed' = TRUE
        /\ IF ret[p] = "destroy" THEN Destroy(p) ELSE Call(p, ret[p], "end")
        /\ UNCHANGED cancelled
  /\ UNCHANGED <<wire, broken, ready, destroyed, subs, conns, env, extra>>

(* Close the socket, then cancel; and return, for SendClose and Destroy.   *)
ForceClose(p) ==
  /\ \/ /\ pc[p] = "force" /\ closed' = TRUE
        /\ Goto(p, "cancel")
        /\ UNCHANGED cancelled
     \/ /\ pc[p] = "cancel" /\ cancelled' = TRUE
        /\ IF ret[p] = "destroy" THEN Destroy(p) ELSE Call(p, ret[p], "end")
        /\ UNCHANGED closed
  /\ UNCHANGED <<wire, broken, ready, destroyed, subs, conns, env, extra>>

(* A goroutine that may still subscribe: what it does next does not look   *)
(* at the context.  The select can take a dispatch though it is done.      *)
CanJoin(p) ==
  \/ p = "main" /\ (pc[p] = "effect" \/ (pc[p] = "select" /\ heard))
  \/ p = "reader" /\ (pc[p] \in {"whisper", "read", "ack"} \/ (pc[p] \in SendCloseAt /\ ret[p] = "read"))

(* EventMap.Destroy, whose body runs once.                                 *)
DestroyMap ==
  /\ destroyed' = TRUE /\ joined' = (joined /\ destroyed)
  /\ cut' = (cut \/ (~destroyed /\ \E p \in Proc : CanJoin(p)))
  /\ UNCHANGED heard

\* mutant: Destroy does not wake who waits for the connection to be ready
DestroyRestWakesNobody(p) ==
  /\ pc[p] = "rest" /\ DestroyMap
  /\ Goto(p, "end")
  /\ UNCHANGED <<svars, cancelled, ready, conns, env, extra>>

(* SetReady, which by now lets others only see the context cancelled, and  *)
(* EventMap.Destroy.                                                       *)
DestroyRest(p) ==
  /\ pc[p] = "rest" /\ ready' = TRUE /\ DestroyMap
  /\ Goto(p, "end")
  /\ UNCHANGED <<svars, cancelled, conns, env, extra>>

Closing(p) ==
  \/ EndOfStream(p) \/ CloseFrame(p)
  \/ ForceClose(p) \/ DestroyRest(p)
-----------------------------------------------------------------------------
(* main.                                                                   *)

(* The Hello, then SetReady: nobody else acts before it.                   *)
Greet ==
  /\ pc["main"] = "greet"
  /\ \E ok \in BOOLEAN :
       /\ Write("hello", ok)
       /\ IF ok THEN Goto("main", "select") ELSE Destroy("main")
       /\ ready' = ok
  /\ UNCHANGED <<cancelled, destroyed, subs, conns, env, extra>>

(* The cases of the select.  A case that is ready is not always the one    *)
(* taken.                                                                  *)
OnClose ==
  /\ pc["main"] = "select" /\ cancelled
  /\ Destroy("main")
  /\ UNCHANGED <<svars, cvars, conns, env, extra>>

OnGctxDone ==
  /\ pc["main"] = "select" /\ gctxDone
  /\ SendClose("main", "destroy")
  /\ UNCHANGED <<svars, cvars, conns, env, extra>>

(* The connection has lived for its TTL: Reconnect, then SendClose.        *)
OnTTL ==
  /\ pc["main"] = "select"
  /\ \E ok \in BOOLEAN : Write("reconnect", ok)
  /\ SendClose("main", "destroy")
  /\ UNCHANGED <<cvars, conns, env, extra>>

(* deferred, a flag the reader sets when it ends and main reads without    *)
(* synchronisation, can suppress a heartbeat but need not.                 *)
OnHeartbeat ==
  /\ pc["main"] = "select" /\ Extra
  /\ \E ok \in BOOLEAN :
       /\ Write("data", ok)
       /\ IF ok THEN UNCHANGED gvars ELSE Destroy("main")
  /\ UNCHANGED <<cvars, conns, env>>

(* A dispatch that passes its filters, like a whisper, which does so when  *)
(* the map is empty too; what passes none leaves everything as it is.      *)
TakeDispatch ==
  /\ pc["main"] = "select" /\ heard /\ Extra
  /\ Goto("main", "effect")
  /\ UNCHANGED <<svars, cvars, conns, env>>

(* Its effects, which may subscribe, and its Write, whose error is logged. *)
OnDispatch ==
  /\ pc["main"] = "effect" /\ joined' \in {joined, TRUE}
  /\ \E ok \in BOOLEAN : Write("data", ok)
  /\ Goto("main", "select")
  /\ UNCHANGED <<cancelled, ready, destroyed, heard, cut, conns, env, extra>>
-----------------------------------------------------------------------------
(* reader.                                                                 *)

\* mutant: commands are read before the Hello was written
OnReadyAtOnce ==
  /\ pc["reader"] = "wait"
  /\ Goto("reader", IF cancelled THEN "end" ELSE "whisper")
  /\ UNCHANGED <<svars, cvars, conns, env, extra>>

\* mutant: it does not look whether the connection has ended already
OnReadyAlive ==
  /\ pc["reader"] = "wait" /\ ready
  /\ Goto("reader", "whisper")
  /\ UNCHANGED <<svars, cvars, conns, env, extra>>

OnReady ==
  /\ pc["reader"] = "wait" /\ ready
  /\ Goto("reader", IF cancelled THEN "end" ELSE "whisper")
  /\ UNCHANGED <<svars, cvars, conns, env, extra>>

WhisperSubscribe ==
  /\ pc["reader"] = "whisper" /\ joined' = TRUE /\ heard' = TRUE
  /\ Goto("reader", "read")
  /\ UNCHANGED <<svars, cancelled, ready, destroyed, cut, conns, env, extra>>

(* A command.  gorilla's read buffer may hold more of them after the       *)
(* socket was closed, and the context is not looked at.  A SUBSCRIBE, or   *)
(* the effects of what the API answers to BRIDGE, join a key; an Ack or a  *)
(* dispatch follows.  A BRIDGE without answer does nothing.  Or the        *)
(* command is refused, with SendError or not, and SendClose; or its        *)
(* payload does not convert, and the reader returns.                       *)
Command ==
  /\ pc["reader"] = "read" /\ Extra
  /\ \/ Goto("reader", "ack") /\ joined' \in {joined, TRUE}
     \/ UNCHANGED <<gvars, joined>>
  /\ UNCHANGED <<svars, cancelled, ready, destroyed, heard, cut, conns, env>>

SendAck ==
  /\ pc["reader"] = "ack"
  /\ \E ok \in BOOLEAN : Write("data", ok)
  /\ Goto("reader", "read")
  /\ UNCHANGED <<cvars, conns, env, extra>>

(* SendError writes whatever comes of it; SendClose follows.               *)
SendError == \E ok \in BOOLEAN : Write("data", ok)

Refuse ==
  /\ pc["reader"] = "read" /\ Extra
  /\ SendError \/ UNCHANGED svars
  /\ SendClose("reader", "read")
  /\ UNCHANGED <<cvars, conns, env>>

Unconvertible ==
  /\ pc["reader"] = "read"
  /\ Destroy("reader")
  /\ UNCHANGED <<svars, cvars, conns, env, extra>>

UnknownOp ==
  /\ pc["reader"] = "read"
  /\ SendClose("reader", "destroy")
  /\ UNCHANGED <<svars, cvars, conns, env, extra>>

(* A close frame, which gorilla answers with one, or the end of the stream.*)
ReadClose ==
  /\ pc["reader"] = "read"
  /\ wire' = IF CanWrite THEN Append(wire, "echo") ELSE wire
  /\ Destroy("reader")
  /\ UNCHANGED <<closed, broken, cvars, conns, env, extra>>

(* Anything else: bytes that are no JSON, or a socket that is closed here  *)
(* or reset there.                                                         *)
ReadError ==
  /\ pc["reader"] = "read"
  /\ SendError
  /\ SendClose("reader", "destroy")
  /\ UNCHANGED <<cvars, conns, env, extra>>

ReadFails == (closed \/ broken) /\ (ReadError \/ ReadClose)
-----------------------------------------------------------------------------
(* tracker and watcher.                                                    *)

\* mutant: counted once more for its transport
CountTwice ==
  /\ pc["tracker"] = "wait" /\ ready
  /\ conns' = conns + 2
  /\ pc' = [pc EXCEPT !["tracker"] = "counted", !["watcher"] = "watch"]
  /\ UNCHANGED <<ret, svars, cvars, env, extra>>

Count ==
  /\ pc["tracker"] = "wait" /\ ready
  /\ conns' = conns + 1
  /\ pc' = [pc EXCEPT !["tracker"] = "counted", !["watcher"] = "watch"]
  /\ UNCHANGED <<ret, svars, cvars, env, extra>>

\* mutant: the connection is counted out when the server shuts down
UncountAtShutdown ==
  /\ pc["tracker"] = "counted" /\ (cancelled \/ shutdown)
  /\ conns' = conns - 1
  /\ Goto("tracker", "end")
  /\ UNCHANGED <<svars, cvars, env, extra>>

Uncount ==
  /\ pc["tracker"] = "counted" /\ cancelled
  /\ conns' = conns - 1
  /\ Goto("tracker", "end")
  /\ UNCHANGED <<svars, cvars, env, extra>>

\* mutant: the watcher only waits for the connection
WatchNothing ==
  /\ pc["watcher"] = "watch" /\ cancelled
  /\ Goto("watcher", "end")
  /\ UNCHANGED <<svars, cvars, conns, env, extra>>

Watch ==
  /\ pc["watcher"] = "watch"
  /\ \/ shutdown /\ SendClose("watcher", "end")
     \/ cancelled /\ Goto("watcher", "end")
  /\ UNCHANGED <<svars, cvars, conns, env, extra>>
-----------------------------------------------------------------------------
(* The process's context is cancelled by a signal, and the server closes   *)
(* its channel then or when the shutdown file is touched.  Once the        *)
(* connection is cancelled, neither changes what happens to it.            *)
GctxDone == ~cancelled /\ gctxDone' = TRUE /\ UNCHANGED <<gvars, svars, cvars, conns, shutdown, extra>>
Shutdown == ~cancelled /\ shutdown' = TRUE /\ UNCHANGED <<gvars, svars, cvars, conns, gctxDone, extra>>

(* The client vanishes, or its network does.                               *)
Break == ~closed /\ broken' = TRUE /\ UNCHANGED <<gvars, wire, closed, cvars, conns, env, extra>>

Main == Greet \/ OnClose \/ OnGctxDone \/ OnDispatch \/ Closing("main")
Reader == OnReady \/ WhisperSubscribe \/ SendAck \/ ReadFails \/ Closing("reader")
Tracker == Count \/ Uncount
Watcher == Watch \/ Closing("watcher")

Next ==
  \/ Main \/ OnTTL \/ OnHeartbeat \/ TakeDispatch
  \/ Reader \/ Command \/ Refuse \/ Unconvertible \/ UnknownOp \/ ReadError \/ ReadClose
  \/ Tracker \/ Watcher
  \/ GctxDone \/ Shutdown \/ Break

(* Goroutines that can go on do: writes to the socket return, timers fire, *)
(* a read from a dead socket fails, and the API answers a BRIDGE.  Nothing *)
(* makes the client send, a dispatch arrive or the TTL pass.               *)
Spec == Init /\ [][Next]_vars
        /\ WF_vars(Main) /\ WF_vars(Reader) /\ WF_vars(Tracker) /\ WF_vars(Watcher)
-----------------------------------------------------------------------------
(* Whoever writes, the client's first frame is the Hello: the reader, its  *)
(* watcher and the loop all start after it (websocket_read.go:37-43,       *)
(* 127-131, connect.go:20).                                                *)
HelloFirst == wire # <<>> => wire[1] = "hello"

(* The server's own close frame is always announced by an End of Stream,   *)
(* also when another goroutine closes the connection between the two       *)
(* writes of a SendClose (websocket.go:111-144).                           *)
CloseAnnounced ==
  \A i \in DOMAIN wire : wire[i] = "close" => \E j \in 1..(i - 1) : wire[j] = "eos"

(* The session stays joined to a key after the map was destroyed only if   *)
(* another goroutine was past its look at the context at that moment: the  *)
(* reader running the commands it still has, one that follows a refused    *)
(* command among them, or the loop with a dispatch.  A reader that had not *)
(* begun subscribes to nothing (websocket_read.go:37-52, 71-124, 155-175,  *)
(* handle.go:70-101, 228, connection.go:271-283).                          *)
LeftBehind == destroyed /\ joined => cut

(* A connection that anybody cancelled, or that is to go because the       *)
(* server shuts down or the process is signalled, comes to its end, also   *)
(* one whose Hello is still to be written: all four goroutines end, it is  *)
(* destroyed and counted out (websocket_read.go:31-63, 133-139,            *)
(* connect.go:20-69).                                                      *)
Gone == (\A p \in Proc : pc[p] = "end") /\ destroyed /\ conns = 0
Ends == cancelled \/ shutdown \/ gctxDone ~> Gone

(* The two halves of that, but for the fairness: what is to end is never   *)
(* such that every goroutine that has not ended waits for something that   *)
(* is not there, whoever ended first and whether or not the Hello went out *)
(* (websocket_read.go:31-63, 133-139, connect.go:20-69).                   *)
Waits(p) ==
  \/ pc[p] \in {"end", "off"}
  \/ pc[p] = "wait" /\ ~ready
  \/ pc[p] = "counted" /\ ~cancelled
  \/ pc[p] = "watch" /\ ~(cancelled \/ shutdown)
  \/ pc[p] = "select" /\ ~(cancelled \/ gctxDone)
  \/ pc[p] = "read" /\ ~(closed \/ broken)
NeverStuck == cancelled \/ shutdown \/ gctxDone => Gone \/ \E p \in Proc : ~Waits(p)

(* And once it is cancelled every step but a heartbeat, dispatch or        *)
(* command brings it nearer to its end, and those add no more than their   *)
(* own step: no goroutine starts another End of Stream or goes back to     *)
(* where it was (websocket.go:111-160, websocket_read.go:31-139).          *)
Distance(p) ==
  CASE pc[p] \in {"end", "off"} -> 0
    [] pc[p] \in {"rest", "watch", "counted"} -> 1
    [] pc[p] = "cancel" -> IF ret[p] \in {"read", "destroy"} THEN 5 ELSE 2
    [] pc[p] = "force" -> IF ret[p] \in {"read", "destroy"} THEN 6 ELSE 3
    [] pc[p] \in {"read", "select"} -> 4
    [] pc[p] \in {"whisper", "greet", "ack", "effect"} -> 5
    [] pc[p] = "wait" -> 6
    [] pc[p] = "frame" -> 7
    [] pc[p] = "eos" -> 8
StepsLeft == Distance("main") + Distance("reader") + Distance("tracker") + Distance("watcher")
WindsDown == [][cancelled => StepsLeft' < StepsLeft + 2 * (extra' - extra)]_vars

(* End of Stream: "The server will send no further data and imminently end *)
(* the connection" (README.MD:79).                                         *)
NothingAfterEos ==
  \A i, j \in DOMAIN wire : wire[i] = "eos" /\ i < j => wire[j] \in {"close", "echo"}

(* The connection as the server sees it (Lifecycle.tla).                   *)
L == INSTANCE Lifecycle WITH
       Conn <- {"self"},
       life <- [c \in {"self"} |-> IF cancelled THEN "closed"
                                   ELSE IF ready THEN "open" ELSE "opening"],
       tracked <- [c \in {"self"} |-> IF pc["tracker"] = "wait" THEN "no"
                                      ELSE IF conns = 1 THEN "yes" ELSE "done"]

(* It implements that lifecycle, liveness included (connect.go:15-79).     *)
LifecycleSpec == L!Spec
=============================================================================
