---------------------------- MODULE EventStream -----------------------------
(***************************************************************************)
(* The life of one EventStream connection: the HTTP handler and the three  *)
(* goroutines beside it.                                                   *)
(*                                                                         *)
(*   main      v3.go SSE and eventstream_read.go Read: Hello, the select   *)
(*             loop; when it ends the handler returns                      *)
(*   inline    the goroutine SSE starts: the subscriptions in the URL      *)
(*   tracker   connect.go TrackConnection: the counters                    *)
(*   watcher   the goroutine TrackConnection starts: server shutdown       *)
(*                                                                         *)
(* main, inline and watcher all write.  Unlike a WebSocket's, this Write   *)
(* takes no lock and does not look at the context, so it is one step per   *)
(* access to what the writers share: seq, the bufio.Writer, seq again.     *)
(* What comes out of the bufio.Writer and of seq once two Writes have      *)
(* overlapped can be anything, and is not followed any further.            *)
(*                                                                         *)
(*   job       the event a goroutine writes, and where it goes on when     *)
(*             that succeeds or fails                                      *)
(*   seq       the id of the next event                                    *)
(*   wire      events the client received until two Writes overlapped      *)
(*   gone      the request's context is done: no client any more           *)
(*   cancelled the connection's context is                                 *)
(*   ready     the channel is closed                                       *)
(*   todo      inline subscriptions still to do, of asked                  *)
(*   joined    the session has joined a key in NATS since the map was last *)
(*             empty; heard: it ever has, so a dispatch may be queued      *)
(*   conns     what the connection has added to activeConns                *)
(*   gctxDone  the process's context; shutdown the server's channel        *)
(*                                                                         *)
(* History: overlapped, whether a Write began inside another one; cut,     *)
(* whether the map was destroyed while a goroutine was still subscribing.  *)
(***************************************************************************)
EXTENDS Integers, Sequences, FiniteSets

CONSTANTS
  MaxInline,  \* bound: subscriptions in the URL
  MaxExtra    \* bound: heartbeats and dispatches together

ASSUME BoundAssumption == MaxInline \in Nat /\ MaxExtra \in Nat

Proc == {"main", "inline", "tracker", "watcher"}

VARIABLES pc, job, seq, wire, gone, cancelled, ready, destroyed,
          asked, todo, joined, heard, conns, gctxDone, shutdown, extra,
          overlapped, cut

stream == <<seq, wire, overlapped>>
cvars == <<cancelled, ready, destroyed>>
subs == <<asked, todo, joined, heard>>
env == <<gctxDone, shutdown>>

vars == <<pc, job, stream, gone, cvars, subs, conns, env, extra, cut>>

(* data: a dispatch, a heartbeat or an Error.                              *)
Kind == {"hello", "data", "ack", "eos"}
Event == [kind : Kind, id : Nat]
Writing == {"push", "count"}
Destroying == {"cancel", "rest"}

MainPlace == {"greet", "ready", "select", "effect", "end"} \cup Writing \cup Destroying
InlinePlace == {"wait", "next", "ack", "refused", "close", "end"} \cup Writing \cup Destroying
WatcherPlace == {"off", "watch", "end"} \cup Writing \cup Destroying
Place == MainPlace \cup InlinePlace \cup WatcherPlace \cup {"counted"}

(* Types; each goroutine is at one of its own places, and the connection   *)
(* counts once (connect.go:25-69).                                         *)
TypeOK ==
  /\ pc \in [Proc -> Place]
  /\ pc["main"] \in MainPlace /\ pc["inline"] \in InlinePlace
  /\ pc["tracker"] \in {"wait", "counted", "end"} /\ pc["watcher"] \in WatcherPlace
  /\ job \in [Proc -> [event : Event, ok : Place, err : Place]]
  /\ seq \in Nat /\ wire \in Seq(Event)
  /\ gone \in BOOLEAN /\ cancelled \in BOOLEAN /\ ready \in BOOLEAN /\ destroyed \in BOOLEAN
  /\ asked \in Nat /\ todo \in 0 .. asked /\ joined \in BOOLEAN /\ heard \in BOOLEAN
  /\ conns \in {0, 1} /\ gctxDone \in BOOLEAN /\ shutdown \in BOOLEAN /\ extra \in Nat
  /\ overlapped \in BOOLEAN /\ cut \in BOOLEAN

NoJob == [event |-> [kind |-> "data", id |-> 0], ok |-> "end", err |-> "end"]

Init ==
  /\ pc = [p \in Proc |-> CASE p = "main" -> "greet" [] p = "watcher" -> "off" [] OTHER -> "wait"]
  /\ job = [p \in Proc |-> NoJob]
  /\ seq = 0 /\ wire = <<>> /\ overlapped = FALSE
  /\ gone = FALSE /\ cancelled = FALSE /\ ready = FALSE /\ destroyed = FALSE
  /\ asked \in 0 .. MaxInline /\ todo = asked /\ joined = FALSE /\ heard = FALSE
  /\ conns = 0 /\ gctxDone = FALSE /\ shutdown = FALSE /\ extra = 0 /\ cut = FALSE
-----------------------------------------------------------------------------
Goto(p, l) == pc' = [pc EXCEPT ![p] = l] /\ UNCHANGED job
Return(p, l) == pc' = [pc EXCEPT ![p] = l] /\ job' = [job EXCEPT ![p] = NoJob]
Extra == extra < MaxExtra /\ extra' = extra + 1
Inside(p) == pc[p] \in Writing

(* Nobody receives what is written.                                        *)
Unheard == gone \/ pc["main"] = "end"

(* Write, from here to Count: the event gets the id seq has now.           *)
Write(p, kind, ok, err) ==
  /\ pc' = [pc EXCEPT ![p] = "push"]
  /\ job' = [job EXCEPT ![p] = [event |-> [kind |-> kind, id |-> seq], ok |-> ok, err |-> err]]
  /\ overlapped' = (overlapped \/ \E q \in Proc \ {p} : Inside(q))
  /\ UNCHANGED <<seq, wire>>

(* writer.Write, writer.Flush and f.Flush.  A client that is gone receives *)
(* nothing, nor does one whose handler has returned, and only then there   *)
(* may be an error.                                                        *)
Push(p) ==
  /\ pc[p] = "push"
  /\ Goto(p, "count") \/ (Unheard /\ Return(p, job[p].err))
  /\ wire' = IF Unheard \/ overlapped THEN wire ELSE Append(wire, job[p].event)
  /\ UNCHANGED <<seq, overlapped, gone, cvars, subs, conns, env, extra, cut>>

\* mutant: the id is not counted up after an Ack
CountOthers(p) ==
  /\ pc[p] = "count" /\ Return(p, job[p].ok)
  /\ seq' = IF overlapped \/ job[p].event.kind = "ack" THEN seq ELSE seq + 1
  /\ UNCHANGED <<wire, overlapped, gone, cvars, subs, conns, env, extra, cut>>

(* es.seq++                                                                *)
Count(p) ==
  /\ pc[p] = "count" /\ Return(p, job[p].ok)
  /\ seq' = IF overlapped THEN seq ELSE seq + 1
  /\ UNCHANGED <<wire, overlapped, gone, cvars, subs, conns, env, extra, cut>>

(* SendClose: End of Stream, whatever comes of it, then Destroy; the wait  *)
(* in between is the time until Destroy's first step.                      *)
SendClose(p, back) ==
  IF cancelled THEN Goto(p, back) /\ UNCHANGED stream ELSE Write(p, "eos", "cancel", "cancel")

(* A goroutine that goes on subscribing though nothing tells it to stop.   *)
Subscribing == pc["main"] = "effect" \/ (pc["inline"] \notin {"wait", "end"} /\ todo > 0)

\* mutant: Destroy does not wake who waits for the connection to be ready
DestroyWakesNobody(p) ==
  /\ \/ pc[p] = "cancel" /\ cancelled' = TRUE /\ Goto(p, "rest") /\ UNCHANGED <<ready, destroyed, subs, cut>>
     \/ /\ pc[p] = "rest" /\ destroyed' = TRUE /\ Goto(p, "end")
        /\ joined' = (joined /\ destroyed)
        /\ cut' = (cut \/ (~destroyed /\ Subscribing))
        /\ UNCHANGED <<cancelled, ready, asked, todo, heard>>
  /\ UNCHANGED <<stream, gone, conns, env, extra>>

(* Destroy: cancel; then SetReady, which by now lets others only see the   *)
(* context cancelled, and EventMap.Destroy, whose body runs once.  A       *)
(* second Destroy, like main's deferred one, finds nothing to do.          *)
Destroy(p) ==
  /\ \/ pc[p] = "cancel" /\ cancelled' = TRUE /\ Goto(p, "rest") /\ UNCHANGED <<ready, destroyed, subs, cut>>
     \/ /\ pc[p] = "rest" /\ ready' = TRUE /\ destroyed' = TRUE /\ Goto(p, "end")
        /\ joined' = (joined /\ destroyed)
        /\ cut' = (cut \/ (~destroyed /\ Subscribing))
        /\ UNCHANGED <<cancelled, asked, todo, heard>>
  /\ UNCHANGED <<stream, gone, conns, env, extra>>

Common(p) == Push(p) \/ Count(p) \/ Destroy(p)
-----------------------------------------------------------------------------
(* main.                                                                   *)

Greet ==
  /\ pc["main"] = "greet" /\ Write("main", "hello", "ready", "cancel")
  /\ UNCHANGED <<gone, cvars, subs, conns, env, extra, cut>>

SetReady ==
  /\ pc["main"] = "ready" /\ ready' = TRUE /\ Goto("main", "select")
  /\ UNCHANGED <<stream, gone, cancelled, destroyed, subs, conns, env, extra, cut>>

(* The cases of the select.  A case that is ready is not always the one    *)
(* taken; the liveness ticker's does nothing.                              *)
OnRequestDoneOrClose ==
  /\ pc["main"] = "select" /\ (gone \/ cancelled)
  /\ Goto("main", "cancel")
  /\ UNCHANGED <<stream, gone, cvars, subs, conns, env, extra, cut>>

OnGctxDone ==
  /\ pc["main"] = "select" /\ gctxDone
  /\ SendClose("main", "cancel")
  /\ UNCHANGED <<gone, cvars, subs, conns, env, extra, cut>>

OnHeartbeat ==
  /\ pc["main"] = "select" /\ Extra
  /\ Write("main", "data", "select", "cancel")
  /\ UNCHANGED <<gone, cvars, subs, conns, env, cut>>

(* A dispatch that passes its filters; what does not parse or pass them    *)
(* leaves everything as it is.  An EventStream joins no key for whispers,  *)
(* so nothing passes while its map is empty after Destroy.                 *)
TakeDispatch ==
  /\ pc["main"] = "select" /\ heard /\ (joined \/ ~destroyed) /\ Extra
  /\ Goto("main", "effect")
  /\ UNCHANGED <<stream, gone, cvars, subs, conns, env, cut>>

(* Its effects, which may subscribe, and its Write, whose error is logged. *)
OnDispatch ==
  /\ pc["main"] = "effect"
  /\ joined' \in {joined, TRUE}
  /\ Write("main", "data", "select", "select")
  /\ UNCHANGED <<gone, cvars, asked, todo, heard, conns, env, extra, cut>>
-----------------------------------------------------------------------------
(* inline.                                                                 *)

\* mutant: it does not wait for the connection to be ready
OnReadyAtOnce ==
  /\ pc["inline"] = "wait"
  /\ Goto("inline", IF cancelled THEN "end" ELSE "next")
  /\ UNCHANGED <<stream, gone, cvars, subs, conns, env, extra, cut>>

\* mutant: it does not look whether the connection has ended already
OnReadyAlive ==
  /\ pc["inline"] = "wait" /\ ready
  /\ Goto("inline", "next")
  /\ UNCHANGED <<stream, gone, cvars, subs, conns, env, extra, cut>>

OnReady ==
  /\ pc["inline"] = "wait" /\ ready
  /\ Goto("inline", IF cancelled THEN "end" ELSE "next")
  /\ UNCHANGED <<stream, gone, cvars, subs, conns, env, extra, cut>>

(* SendAck for a subscription that was stored or that an automatic one     *)
(* covers; SendError and SendClose for one that is refused, which ends the *)
(* goroutine.  An item that does not parse is none.  The context is not    *)
(* looked at again.                                                        *)
Subscribe ==
  /\ pc["inline"] = "next"
  /\ \/ todo = 0 /\ Goto("inline", "end") /\ UNCHANGED <<todo, joined, heard>>
     \/ todo > 0 /\ todo' = todo - 1 /\ Goto("inline", "ack") /\ joined' = TRUE /\ heard' = TRUE
     \/ todo > 0 /\ todo' = 0 /\ Goto("inline", "refused") /\ UNCHANGED <<joined, heard>>
  /\ UNCHANGED <<stream, gone, cvars, asked, conns, env, extra, cut>>

\* mutant: only the WebSocket's commands are acknowledged
AckNothing ==
  /\ pc["inline"] = "ack" /\ Goto("inline", "next")
  /\ UNCHANGED <<stream, gone, cvars, subs, conns, env, extra, cut>>

\* mutant: an Ack that could not be written is tried again
AckAgain ==
  /\ pc["inline"] = "ack" /\ Write("inline", "ack", "next", "ack")
  /\ UNCHANGED <<gone, cvars, subs, conns, env, extra, cut>>

Ack ==
  /\ pc["inline"] = "ack" /\ Write("inline", "ack", "next", "next")
  /\ UNCHANGED <<gone, cvars, subs, conns, env, extra, cut>>

SendError ==
  /\ pc["inline"] = "refused" /\ Write("inline", "data", "close", "close")
  /\ UNCHANGED <<gone, cvars, subs, conns, env, extra, cut>>

Close ==
  /\ pc["inline"] = "close" /\ SendClose("inline", "end")
  /\ UNCHANGED <<gone, cvars, subs, conns, env, extra, cut>>
-----------------------------------------------------------------------------
(* tracker and watcher, as for every connection.                           *)

\* mutant: counted once more for its transport
CountedTwice ==
  /\ pc["tracker"] = "wait" /\ ready
  /\ conns' = conns + 2
  /\ pc' = [pc EXCEPT !["tracker"] = "counted", !["watcher"] = "watch"]
  /\ UNCHANGED <<job, stream, gone, cvars, subs, env, extra, cut>>

Counted ==
  /\ pc["tracker"] = "wait" /\ ready
  /\ conns' = conns + 1
  /\ pc' = [pc EXCEPT !["tracker"] = "counted", !["watcher"] = "watch"]
  /\ UNCHANGED <<job, stream, gone, cvars, subs, env, extra, cut>>

\* mutant: the connection is counted out when the request ends
UncountedByRequest ==
  /\ pc["tracker"] = "counted" /\ (cancelled \/ gone)
  /\ conns' = conns - 1 /\ Goto("tracker", "end")
  /\ UNCHANGED <<stream, gone, cvars, subs, env, extra, cut>>

Uncounted ==
  /\ pc["tracker"] = "counted" /\ cancelled
  /\ conns' = conns - 1 /\ Goto("tracker", "end")
  /\ UNCHANGED <<stream, gone, cvars, subs, env, extra, cut>>

\* mutant: the watcher only waits for the connection
WatchNothing ==
  /\ pc["watcher"] = "watch" /\ cancelled /\ Goto("watcher", "end") /\ UNCHANGED stream
  /\ UNCHANGED <<gone, cvars, subs, conns, env, extra, cut>>

Watch ==
  /\ pc["watcher"] = "watch"
  /\ \/ shutdown /\ SendClose("watcher", "end")
     \/ cancelled /\ Goto("watcher", "end") /\ UNCHANGED stream
  /\ UNCHANGED <<gone, cvars, subs, conns, env, extra, cut>>
-----------------------------------------------------------------------------
(* The process and its server, until the connection is cancelled; and the  *)
(* client, which leaves, or whose network does.                            *)
GctxDone == ~cancelled /\ gctxDone' = TRUE /\ UNCHANGED <<pc, job, stream, gone, cvars, subs, conns, shutdown, extra, cut>>
Shutdown == ~cancelled /\ shutdown' = TRUE /\ UNCHANGED <<pc, job, stream, gone, cvars, subs, conns, gctxDone, extra, cut>>
Leave == pc["main"] # "end" /\ gone' = TRUE /\ UNCHANGED <<pc, job, stream, cvars, subs, conns, env, extra, cut>>

Main == Greet \/ SetReady \/ OnRequestDoneOrClose \/ OnGctxDone \/ OnDispatch \/ Common("main")
Inline == OnReady \/ Subscribe \/ Ack \/ SendError \/ Close \/ Common("inline")
Tracker == Counted \/ Uncounted
Watcher == Watch \/ Common("watcher")

Next ==
  \/ Main \/ OnHeartbeat \/ TakeDispatch
  \/ Inline \/ Tracker \/ Watcher
  \/ GctxDone \/ Shutdown \/ Leave

(* Goroutines that can go on do: a Write returns, with an error if the     *)
(* client is gone, and a select sees what is done.                         *)
Spec == Init /\ [][Next]_vars
        /\ WF_vars(Main) /\ WF_vars(Inline) /\ WF_vars(Tracker) /\ WF_vars(Watcher)
-----------------------------------------------------------------------------
(* The client's first event is the Hello, whole: neither the inline        *)
(* subscriptions nor the watcher write before it (v3.go:39,                *)
(* eventstream_read.go:24-28, connect.go:20).                              *)
HelloFirst == wire # <<>> => wire[1] = [kind |-> "hello", id |-> 0]

(* The ids count the events without a gap or a repetition until two        *)
(* goroutines are inside Write at once: nothing that follows one another,  *)
(* an error, an end or a second End of Stream included, disturbs them      *)
(* (eventstream.go:180-210).                                               *)
IdsCount == \A i \in DOMAIN wire : wire[i].id = i - 1

(* The session stays joined to a key after the map was destroyed only if   *)
(* the inline subscriptions or a dispatch's effects were under way at that *)
(* moment: a goroutine that had not begun subscribes to nothing            *)
(* (v3.go:39-42, eventstream.go:234-238).                                  *)
LeftBehind == destroyed /\ joined => cut

(* Each inline subscription is acknowledged once the connection is ready,  *)
(* unless the stream ends, by a refusal for instance, or Writes overlap:   *)
(* "This can be used to confirm the validity of the inline subscription    *)
(* string" (README.MD:306, v3.go:54-81).                                   *)
Acks == {i \in DOMAIN wire : wire[i].kind = "ack"}
InlineAnswered == ready ~> (Cardinality(Acks) = asked \/ cancelled \/ gone \/ overlapped)

(* A stream that anybody cancelled, whose client left, or that is to go    *)
(* because the server shuts down or the process is signalled, comes to its *)
(* end: all four goroutines end, it is destroyed and counted out           *)
(* (eventstream_read.go:18-40, v3.go:38-42, connect.go:20-69).             *)
Gone == (\A p \in Proc : pc[p] = "end") /\ destroyed /\ conns = 0
Ends == cancelled \/ gone \/ shutdown \/ gctxDone ~> Gone

(* The two halves of that, but for the fairness: what is to end is never   *)
(* such that every goroutine that has not ended waits for something that   *)
(* is not there, whoever ended first and whether or not the Hello went out *)
(* (eventstream_read.go:18-40, v3.go:38-42, connect.go:20-69).             *)
Waits(p) ==
  \/ pc[p] \in {"end", "off"}
  \/ pc[p] = "wait" /\ ~ready
  \/ pc[p] = "counted" /\ ~cancelled
  \/ pc[p] = "watch" /\ ~(cancelled \/ shutdown)
  \/ pc[p] = "select" /\ ~(cancelled \/ gone \/ gctxDone)
NeverStuck ==
  cancelled \/ gone \/ shutdown \/ gctxDone => Gone \/ \E p \in Proc : ~Waits(p)

(* And once it is cancelled every step but a heartbeat or dispatch brings  *)
(* it nearer to its end: what is left is at most what is asked for inline, *)
(* a few steps each, a Write that fails is not tried again, and nobody     *)
(* goes back to where it was; a heartbeat or dispatch that the select      *)
(* still takes adds its own steps (v3.go:41-81, eventstream.go:141-210,    *)
(* eventstream_read.go:31-88).                                             *)
Distance(p) ==
  CASE pc[p] \in {"end", "off"} -> 0
    [] pc[p] \in {"rest", "watch", "counted"} -> 1
    [] pc[p] = "cancel" -> 2
    [] pc[p] \in {"select", "close"} -> 3
    [] pc[p] \in {"ready", "next"} -> 4
    [] pc[p] = "count" -> 5
    [] pc[p] = "push" -> 6
    [] pc[p] \in {"greet", "effect", "ack", "refused", "wait"} -> 7
StepsLeft ==
  Distance("main") + Distance("inline") + Distance("tracker") + Distance("watcher")
  + 8 * todo + (IF gone THEN 0 ELSE 1)
WindsDown == [][cancelled => StepsLeft' < StepsLeft + 5 * (extra' - extra)]_vars

(* The connection as the server sees it (Lifecycle.tla).                   *)
L == INSTANCE Lifecycle WITH
       Conn <- {"self"},
       life <- [c \in {"self"} |-> IF cancelled THEN "closed"
                                   ELSE IF ready THEN "open" ELSE "opening"],
       tracked <- [c \in {"self"} |-> IF pc["tracker"] = "wait" THEN "no"
                                      ELSE IF conns = 1 THEN "yes" ELSE "done"]

(* It implements that lifecycle, liveness included (connect.go:15-79).     *)
LifecycleSpec == L!Spec
=============================================================================
