-------------------------- MODULE EventStreamProofs -------------------------
(***************************************************************************)
(* EventStream proved for any number of inline subscriptions, dispatches   *)
(* and heartbeats: types, the Hello first, ids without gaps, what a        *)
(* destroyed connection leaves behind, the lifecycle it implements, and    *)
(* that one that is to end is never stuck and winds down.                  *)
(***************************************************************************)
EXTENDS EventStream, TLAPS

Writers == {"main", "inline", "watcher"}

(* Where each goroutine goes on after a Write.                             *)
Back(p) ==
  IF p = "main" THEN {"ready", "select", "cancel"}
  ELSE IF p = "inline" THEN {"next", "close", "cancel"}
  ELSE {"cancel"}

HelloJob == job["main"] = [event |-> [kind |-> "hello", id |-> 0], ok |-> "ready", err |-> "cancel"]

Control ==
  /\ \A p \in Writers : Inside(p) => job[p].ok \in Back(p) /\ job[p].err \in Back(p) \ {"ready"}
  /\ conns = IF pc["tracker"] = "counted" THEN 1 ELSE 0
  /\ pc["tracker"] = "wait" => pc["watcher"] = "off"

(* Until the channel is closed only main is up.                            *)
Quiet ==
  /\ ~ready => /\ pc["inline"] = "wait" /\ pc["tracker"] = "wait" /\ pc["watcher"] = "off"
               /\ pc["main"] \in {"greet", "ready"} \cup Writing \cup Destroying
               /\ Inside("main") => HelloJob
               /\ cancelled => pc["main"] = "rest"
               /\ ~overlapped
  /\ Inside("main") /\ job["main"].ok = "ready" => ~ready
  /\ pc["main"] \in {"greet", "ready"} => ~ready
  /\ pc["main"] = "greet" => wire = <<>> /\ seq = 0

(* While nothing was received, Hello is what comes next.                   *)
HelloNext ==
  wire = <<>> => Unheard \/ pc["main"] = "greet" \/ (pc["main"] = "push" /\ HelloJob)

(* Outside of overlaps at most one goroutine is inside Write, with the     *)
(* next id; what a client received is what has been counted.               *)
InTurn ==
  ~overlapped =>
    /\ \A p, q \in Proc : Inside(p) /\ Inside(q) => p = q
    /\ \A p \in Proc : pc[p] = "push" => job[p].event.id = seq
    /\ ~Unheard => Len(wire) = IF \E p \in Proc : pc[p] = "count" THEN seq + 1 ELSE seq

(* A map that was destroyed with nobody subscribing stays so.              *)
Left ==
  /\ \A p \in Writers : pc[p] = "rest" => cancelled
  /\ destroyed => cancelled /\ ready /\ (cut \/ (~joined /\ ~Subscribing))

IInv == TypeOK /\ Control /\ Quiet /\ HelloNext /\ InTurn /\ Left /\ HelloFirst /\ IdsCount

-----------------------------------------------------------------------------
(* Everything of IInv but what is received.                                *)
TypeRest ==
  /\ pc \in [Proc -> Place]
  /\ pc["main"] \in MainPlace /\ pc["inline"] \in InlinePlace
  /\ pc["tracker"] \in {"wait", "counted", "end"} /\ pc["watcher"] \in WatcherPlace
  /\ job \in [Proc -> [event : Event, ok : Place, err : Place]]
  /\ seq \in Nat
  /\ gone \in BOOLEAN /\ cancelled \in BOOLEAN /\ ready \in BOOLEAN /\ destroyed \in BOOLEAN
  /\ asked \in Nat /\ todo \in 0 .. asked /\ joined \in BOOLEAN /\ heard \in BOOLEAN
  /\ conns \in {0, 1} /\ gctxDone \in BOOLEAN /\ shutdown \in BOOLEAN /\ extra \in Nat
  /\ overlapped \in BOOLEAN /\ cut \in BOOLEAN

Received == wire \in Seq(Event) /\ HelloFirst /\ IdsCount

LEMMA Parts ==
  /\ IInv <=> TypeRest /\ Control /\ Quiet /\ HelloNext /\ InTurn /\ Left /\ Received
  /\ (IInv <=> TypeRest /\ Control /\ Quiet /\ HelloNext /\ InTurn /\ Left /\ Received)'
BY DEF IInv, TypeRest, TypeOK, Received

LEMMA SameWire ==
  ASSUME IInv, UNCHANGED wire
  PROVE  Received' /\ Len(wire)' = Len(wire)
BY DEF IInv, TypeOK, Received, HelloFirst, IdsCount

USE DEF Goto, Return, Write, SendClose, Inside, Proc, Place, MainPlace, InlinePlace, WatcherPlace,
        Writing, Destroying, Event, Kind, Writers, NoJob,
        stream, cvars, subs, env

LEMMA GreetInv ==
  ASSUME IInv, Greet
  PROVE  IInv'
<1>0. UNCHANGED wire
  BY DEF Greet
<1>1. TypeRest'
  BY Parts DEF Greet, TypeRest, Control, Back, Extra
<1>2. Control'
  BY Parts DEF Greet, TypeRest, Control, Back
<1>3. Quiet'
  BY <1>0, Parts DEF Greet, TypeRest, Quiet, Control, Left, Back, HelloJob
<1>4. HelloNext'
  BY <1>0, Parts DEF Greet, TypeRest, Quiet, Control, HelloNext, HelloJob, Unheard
<1>5. InTurn'
  BY <1>0, SameWire, Parts DEF Greet, TypeRest, InTurn, Unheard
<1>6. Left'
  BY Parts DEF Greet, TypeRest, Quiet, Control, Left, Subscribing, Back
<1>. QED BY <1>0, <1>1, <1>2, <1>3, <1>4, <1>5, <1>6, Parts, SameWire

LEMMA SetReadyInv ==
  ASSUME IInv, SetReady
  PROVE  IInv'
<1>0. UNCHANGED wire
  BY DEF SetReady
<1>1. TypeRest'
  BY Parts DEF SetReady, TypeRest, Control, Back, Extra
<1>2. Control'
  BY Parts DEF SetReady, TypeRest, Control, Back
<1>3. Quiet'
  BY <1>0, Parts DEF SetReady, TypeRest, Quiet, Control, Left, Back, HelloJob
<1>4. HelloNext'
  BY <1>0, Parts DEF SetReady, TypeRest, Quiet, Control, HelloNext, HelloJob, Unheard
<1>5. InTurn'
  BY <1>0, SameWire, Parts DEF SetReady, TypeRest, InTurn, Unheard
<1>6. Left'
  BY Parts DEF SetReady, TypeRest, Quiet, Control, Left, Subscribing, Back
<1>. QED BY <1>0, <1>1, <1>2, <1>3, <1>4, <1>5, <1>6, Parts, SameWire

LEMMA OnRequestDoneOrCloseInv ==
  ASSUME IInv, OnRequestDoneOrClose
  PROVE  IInv'
<1>0. UNCHANGED wire
  BY DEF OnRequestDoneOrClose
<1>1. TypeRest'
  BY Parts DEF OnRequestDoneOrClose, TypeRest, Control, Back, Extra
<1>2. Control'
  BY Parts DEF OnRequestDoneOrClose, TypeRest, Control, Back
<1>3. Quiet'
  BY <1>0, Parts DEF OnRequestDoneOrClose, TypeRest, Quiet, Control, Left, Back, HelloJob
<1>4. HelloNext'
  BY <1>0, Parts DEF OnRequestDoneOrClose, TypeRest, Quiet, Control, HelloNext, HelloJob, Unheard
<1>5. InTurn'
  BY <1>0, SameWire, Parts DEF OnRequestDoneOrClose, TypeRest, InTurn, Unheard
<1>6. Left'
  BY Parts DEF OnRequestDoneOrClose, TypeRest, Quiet, Control, Left, Subscribing, Back
<1>. QED BY <1>0, <1>1, <1>2, <1>3, <1>4, <1>5, <1>6, Parts, SameWire

LEMMA OnGctxDoneInv ==
  ASSUME IInv, OnGctxDone
  PROVE  IInv'
<1>0. UNCHANGED wire
  BY DEF OnGctxDone
<1>1. TypeRest'
  <2>1. pc' \in [Proc -> Place] /\ pc'["main"] \in MainPlace /\ pc'["inline"] \in InlinePlace
        /\ pc'["tracker"] \in {"wait", "counted", "end"} /\ pc'["watcher"] \in WatcherPlace
    BY Parts DEF OnGctxDone, TypeRest, Control, Back
  <2>2. job' \in [Proc -> [event : Event, ok : Place, err : Place]]
    BY Parts DEF OnGctxDone, TypeRest
  <2>3. /\ seq' \in Nat /\ conns' \in {0, 1} /\ extra' \in Nat /\ asked' \in Nat /\ todo' \in 0 .. asked'
        /\ UNCHANGED <<gone, gctxDone, shutdown>>
    BY Parts DEF OnGctxDone, TypeRest
  <2>4. /\ joined' \in BOOLEAN /\ heard' \in BOOLEAN /\ cancelled' \in BOOLEAN /\ ready' \in BOOLEAN
        /\ destroyed' \in BOOLEAN /\ overlapped' \in BOOLEAN /\ cut' \in BOOLEAN
    BY Parts DEF OnGctxDone, TypeRest
  <2>. QED BY <2>1, <2>2, <2>3, <2>4, Parts DEF TypeRest
<1>2. Control'
  BY Parts DEF OnGctxDone, TypeRest, Control, Back
<1>3. Quiet'
  BY <1>0, Parts DEF OnGctxDone, TypeRest, Quiet, Control, Left, Back, HelloJob
<1>4. HelloNext'
  BY <1>0, Parts DEF OnGctxDone, TypeRest, Quiet, Control, HelloNext, HelloJob, Unheard
<1>5. InTurn'
  <2>. SUFFICES ASSUME ~overlapped' PROVE InTurn' BY DEF InTurn
  <2>1. \A q, r \in Proc : Inside(q)' /\ Inside(r)' => q = r
    <3>1. CASE cancelled
      BY <3>1, Parts DEF OnGctxDone, TypeRest, InTurn
    <3>2. CASE ~cancelled
      <4>1. pc' = [pc EXCEPT !["main"] = "push"] /\ \A q \in Proc \ {"main"} : ~Inside(q)
        BY <3>2 DEF OnGctxDone
      <4>. QED BY <4>1, Parts DEF TypeRest
    <3>. QED BY <3>1, <3>2
  <2>2. \A q \in Proc : pc'[q] = "push" => job'[q].event.id = seq'
    BY Parts DEF OnGctxDone, TypeRest, InTurn
  <2>3. ~Unheard' => Len(wire)' = IF \E q \in Proc : pc'[q] = "count" THEN seq' + 1 ELSE seq'
    BY <1>0, SameWire, Parts DEF OnGctxDone, TypeRest, InTurn, Unheard
  <2>. QED BY <2>1, <2>2, <2>3 DEF InTurn
<1>6. Left'
  BY Parts DEF OnGctxDone, TypeRest, Quiet, Control, Left, Subscribing, Back
<1>. QED BY <1>0, <1>1, <1>2, <1>3, <1>4, <1>5, <1>6, Parts, SameWire

LEMMA OnHeartbeatInv ==
  ASSUME IInv, OnHeartbeat
  PROVE  IInv'
<1>0. UNCHANGED wire
  BY DEF OnHeartbeat
<1>1. TypeRest'
  BY Parts DEF OnHeartbeat, TypeRest, Control, Back, Extra
<1>2. Control'
  BY Parts DEF OnHeartbeat, TypeRest, Control, Back
<1>3. Quiet'
  BY <1>0, Parts DEF OnHeartbeat, TypeRest, Quiet, Control, Left, Back, HelloJob
<1>4. HelloNext'
  BY <1>0, Parts DEF OnHeartbeat, TypeRest, Quiet, Control, HelloNext, HelloJob, Unheard
<1>5. InTurn'
  BY <1>0, SameWire, Parts DEF OnHeartbeat, TypeRest, InTurn, Unheard
<1>6. Left'
  BY Parts DEF OnHeartbeat, TypeRest, Quiet, Control, Left, Subscribing, Back
<1>. QED BY <1>0, <1>1, <1>2, <1>3, <1>4, <1>5, <1>6, Parts, SameWire

LEMMA TakeDispatchInv ==
  ASSUME IInv, TakeDispatch
  PROVE  IInv'
<1>0. UNCHANGED wire
  BY DEF TakeDispatch
<1>1. TypeRest'
  BY Parts DEF TakeDispatch, TypeRest, Control, Back, Extra
<1>2. Control'
  BY Parts DEF TakeDispatch, TypeRest, Control, Back
<1>3. Quiet'
  BY <1>0, Parts DEF TakeDispatch, TypeRest, Quiet, Control, Left, Back, HelloJob
<1>4. HelloNext'
  BY <1>0, Parts DEF TakeDispatch, TypeRest, Quiet, Control, HelloNext, HelloJob, Unheard
<1>5. InTurn'
  BY <1>0, SameWire, Parts DEF TakeDispatch, TypeRest, InTurn, Unheard
<1>6. Left'
  BY Parts DEF TakeDispatch, TypeRest, Quiet, Control, Left, Subscribing, Back
<1>. QED BY <1>0, <1>1, <1>2, <1>3, <1>4, <1>5, <1>6, Parts, SameWire

LEMMA OnDispatchInv ==
  ASSUME IInv, OnDispatch
  PROVE  IInv'
<1>0. UNCHANGED wire
  BY DEF OnDispatch
<1>1. TypeRest'
  <2>1. pc' \in [Proc -> Place] /\ pc'["main"] \in MainPlace /\ pc'["inline"] \in InlinePlace
        /\ pc'["tracker"] \in {"wait", "counted", "end"} /\ pc'["watcher"] \in WatcherPlace
    BY Parts DEF OnDispatch, TypeRest, Control, Back
  <2>2. job' \in [Proc -> [event : Event, ok : Place, err : Place]]
    BY Parts DEF OnDispatch, TypeRest
  <2>3. /\ seq' \in Nat /\ conns' \in {0, 1} /\ extra' \in Nat /\ asked' \in Nat /\ todo' \in 0 .. asked'
        /\ UNCHANGED <<gone, gctxDone, shutdown>>
    BY Parts DEF OnDispatch, TypeRest
  <2>4. /\ joined' \in BOOLEAN /\ heard' \in BOOLEAN /\ cancelled' \in BOOLEAN /\ ready' \in BOOLEAN
        /\ destroyed' \in BOOLEAN /\ overlapped' \in BOOLEAN /\ cut' \in BOOLEAN
    BY Parts DEF OnDispatch, TypeRest
  <2>. QED BY <2>1, <2>2, <2>3, <2>4, Parts DEF TypeRest
<1>2. Control'
  BY Parts DEF OnDispatch, TypeRest, Control, Back
<1>3. Quiet'
  BY <1>0, Parts DEF OnDispatch, TypeRest, Quiet, Control, Left, Back, HelloJob
<1>4. HelloNext'
  BY <1>0, Parts DEF OnDispatch, TypeRest, Quiet, Control, HelloNext, HelloJob, Unheard
<1>5. InTurn'
  BY <1>0, SameWire, Parts DEF OnDispatch, TypeRest, InTurn, Unheard
<1>6. Left'
  BY Parts DEF OnDispatch, TypeRest, Quiet, Control, Left, Subscribing, Back
<1>. QED BY <1>0, <1>1, <1>2, <1>3, <1>4, <1>5, <1>6, Parts, SameWire

LEMMA OnReadyInv ==
  ASSUME IInv, OnReady
  PROVE  IInv'
<1>0. UNCHANGED wire
  BY DEF OnReady
<1>1. TypeRest'
  BY Parts DEF OnReady, TypeRest, Control, Back, Extra
<1>2. Control'
  BY Parts DEF OnReady, TypeRest, Control, Back
<1>3. Quiet'
  BY <1>0, Parts DEF OnReady, TypeRest, Quiet, Control, Left, Back, HelloJob
<1>4. HelloNext'
  BY <1>0, Parts DEF OnReady, TypeRest, Quiet, Control, HelloNext, HelloJob, Unheard
<1>5. InTurn'
  BY <1>0, SameWire, Parts DEF OnReady, TypeRest, InTurn, Unheard
<1>6. Left'
  BY Parts DEF OnReady, TypeRest, Quiet, Control, Left, Subscribing, Back
<1>. QED BY <1>0, <1>1, <1>2, <1>3, <1>4, <1>5, <1>6, Parts, SameWire

LEMMA SubscribeInv ==
  ASSUME IInv, Subscribe
  PROVE  IInv'
<1>0. UNCHANGED wire
  BY DEF Subscribe
<1>1. TypeRest'
  <2>1. pc' \in [Proc -> Place] /\ pc'["main"] \in MainPlace /\ pc'["inline"] \in InlinePlace
        /\ pc'["tracker"] \in {"wait", "counted", "end"} /\ pc'["watcher"] \in WatcherPlace
    BY Parts DEF Subscribe, TypeRest, Control, Back
  <2>2. job' \in [Proc -> [event : Event, ok : Place, err : Place]]
    BY Parts DEF Subscribe, TypeRest
  <2>3. /\ seq' \in Nat /\ conns' \in {0, 1} /\ extra' \in Nat /\ asked' \in Nat /\ todo' \in 0 .. asked'
        /\ UNCHANGED <<gone, gctxDone, shutdown>>
    BY Parts DEF Subscribe, TypeRest
  <2>4. /\ joined' \in BOOLEAN /\ heard' \in BOOLEAN /\ cancelled' \in BOOLEAN /\ ready' \in BOOLEAN
        /\ destroyed' \in BOOLEAN /\ overlapped' \in BOOLEAN /\ cut' \in BOOLEAN
    BY Parts DEF Subscribe, TypeRest
  <2>. QED BY <2>1, <2>2, <2>3, <2>4, Parts DEF TypeRest
<1>2. Control'
  BY Parts DEF Subscribe, TypeRest, Control, Back
<1>3. Quiet'
  BY <1>0, Parts DEF Subscribe, TypeRest, Quiet, Control, Left, Back, HelloJob
<1>4. HelloNext'
  BY <1>0, Parts DEF Subscribe, TypeRest, Quiet, Control, HelloNext, HelloJob, Unheard
<1>5. InTurn'
  BY <1>0, SameWire, Parts DEF Subscribe, TypeRest, InTurn, Unheard
<1>6. Left'
  BY Parts DEF Subscribe, TypeRest, Quiet, Control, Left, Subscribing, Back
<1>. QED BY <1>0, <1>1, <1>2, <1>3, <1>4, <1>5, <1>6, Parts, SameWire

LEMMA AckInv ==
  ASSUME IInv, Ack
  PROVE  IInv'
<1>0. UNCHANGED wire
  BY DEF Ack
<1>1. TypeRest'
  BY Parts DEF Ack, TypeRest, Control, Back, Extra
<1>2. Control'
  BY Parts DEF Ack, TypeRest, Control, Back
<1>3. Quiet'
  BY <1>0, Parts DEF Ack, TypeRest, Quiet, Control, Left, Back, HelloJob
<1>4. HelloNext'
  BY <1>0, Parts DEF Ack, TypeRest, Quiet, Control, HelloNext, HelloJob, Unheard
<1>5. InTurn'
  BY <1>0, SameWire, Parts DEF Ack, TypeRest, InTurn, Unheard
<1>6. Left'
  BY Parts DEF Ack, TypeRest, Quiet, Control, Left, Subscribing, Back
<1>. QED BY <1>0, <1>1, <1>2, <1>3, <1>4, <1>5, <1>6, Parts, SameWire

LEMMA SendErrorInv ==
  ASSUME IInv, SendError
  PROVE  IInv'
<1>0. UNCHANGED wire
  BY DEF SendError
<1>1. TypeRest'
  BY Parts DEF SendError, TypeRest, Control, Back, Extra
<1>2. Control'
  BY Parts DEF SendError, TypeRest, Control, Back
<1>3. Quiet'
  BY <1>0, Parts DEF SendError, TypeRest, Quiet, Control, Left, Back, HelloJob
<1>4. HelloNext'
  BY <1>0, Parts DEF SendError, TypeRest, Quiet, Control, HelloNext, HelloJob, Unheard
<1>5. InTurn'
  BY <1>0, SameWire, Parts DEF SendError, TypeRest, InTurn, Unheard
<1>6. Left'
  BY Parts DEF SendError, TypeRest, Quiet, Control, Left, Subscribing, Back
<1>. QED BY <1>0, <1>1, <1>2, <1>3, <1>4, <1>5, <1>6, Parts, SameWire

LEMMA CloseInv ==
  ASSUME IInv, Close
  PROVE  IInv'
<1>0. UNCHANGED wire
  BY DEF Close
<1>1. TypeRest'
  <2>1. pc' \in [Proc -> Place] /\ pc'["main"] \in MainPlace /\ pc'["inline"] \in InlinePlace
        /\ pc'["tracker"] \in {"wait", "counted", "end"} /\ pc'["watcher"] \in WatcherPlace
    BY Parts DEF Close, TypeRest, Control, Back
  <2>2. job' \in [Proc -> [event : Event, ok : Place, err : Place]]
    BY Parts DEF Close, TypeRest
  <2>3. /\ seq' \in Nat /\ conns' \in {0, 1} /\ extra' \in Nat /\ asked' \in Nat /\ todo' \in 0 .. asked'
        /\ UNCHANGED <<gone, gctxDone, shutdown>>
    BY Parts DEF Close, TypeRest
  <2>4. /\ joined' \in BOOLEAN /\ heard' \in BOOLEAN /\ cancelled' \in BOOLEAN /\ ready' \in BOOLEAN
        /\ destroyed' \in BOOLEAN /\ overlapped' \in BOOLEAN /\ cut' \in BOOLEAN
    BY Parts DEF Close, TypeRest
  <2>. QED BY <2>1, <2>2, <2>3, <2>4, Parts DEF TypeRest
<1>2. Control'
  BY Parts DEF Close, TypeRest, Control, Back
<1>3. Quiet'
  BY <1>0, Parts DEF Close, TypeRest, Quiet, Control, Left, Back, HelloJob
<1>4. HelloNext'
  BY <1>0, Parts DEF Close, TypeRest, Quiet, Control, HelloNext, HelloJob, Unheard
<1>5. InTurn'
  <2>. SUFFICES ASSUME ~overlapped' PROVE InTurn' BY DEF InTurn
  <2>1. \A q, r \in Proc : Inside(q)' /\ Inside(r)' => q = r
    <3>1. CASE cancelled
      BY <3>1, Parts DEF Close, TypeRest, InTurn
    <3>2. CASE ~cancelled
      <4>1. pc' = [pc EXCEPT !["inline"] = "push"] /\ \A q \in Proc \ {"inline"} : ~Inside(q)
        BY <3>2 DEF Close
      <4>. QED BY <4>1, Parts DEF TypeRest
    <3>. QED BY <3>1, <3>2
  <2>2. \A q \in Proc : pc'[q] = "push" => job'[q].event.id = seq'
    BY Parts DEF Close, TypeRest, InTurn
  <2>3. ~Unheard' => Len(wire)' = IF \E q \in Proc : pc'[q] = "count" THEN seq' + 1 ELSE seq'
    BY <1>0, SameWire, Parts DEF Close, TypeRest, InTurn, Unheard
  <2>. QED BY <2>1, <2>2, <2>3 DEF InTurn
<1>6. Left'
  BY Parts DEF Close, TypeRest, Quiet, Control, Left, Subscribing, Back
<1>. QED BY <1>0, <1>1, <1>2, <1>3, <1>4, <1>5, <1>6, Parts, SameWire

LEMMA CountedInv ==
  ASSUME IInv, Counted
  PROVE  IInv'
<1>0. UNCHANGED wire
  BY DEF Counted
<1>1. TypeRest'
  BY Parts DEF Counted, TypeRest, Control, Back, Extra
<1>2. Control'
  BY Parts DEF Counted, TypeRest, Control, Back
<1>3. Quiet'
  BY <1>0, Parts DEF Counted, TypeRest, Quiet, Control, Left, Back, HelloJob
<1>4. HelloNext'
  BY <1>0, Parts DEF Counted, TypeRest, Quiet, Control, HelloNext, HelloJob, Unheard
<1>5. InTurn'
  <2>. SUFFICES ASSUME ~overlapped' PROVE InTurn' BY DEF InTurn
  <2>1. \A q, r \in Proc : Inside(q)' /\ Inside(r)' => q = r
    BY Parts DEF Counted, TypeRest, InTurn
  <2>2. \A q \in Proc : pc'[q] = "push" => job'[q].event.id = seq'
    BY Parts DEF Counted, TypeRest, InTurn
  <2>3. ~Unheard' => Len(wire)' = IF \E q \in Proc : pc'[q] = "count" THEN seq' + 1 ELSE seq'
    <3>1. UNCHANGED <<seq, overlapped, gone>> /\ pc'["main"] = pc["main"]
      BY Parts DEF Counted, TypeRest
    <3>2. pc' = [pc EXCEPT !["tracker"] = "counted", !["watcher"] = "watch"]
          /\ pc["tracker"] = "wait" /\ ready
      BY DEF Counted
    <3>3. pc["watcher"] # "count"
      BY <3>2, Parts DEF TypeRest, Control
    <3>4. \A q \in Proc : pc'[q] = "count" <=> pc[q] = "count"
      BY <3>2, <3>3, Parts DEF TypeRest
    <3>. QED BY <3>1, <3>4, <1>0, SameWire, Parts DEF InTurn, Unheard
  <2>. QED BY <2>1, <2>2, <2>3 DEF InTurn
<1>6. Left'
  BY Parts DEF Counted, TypeRest, Quiet, Control, Left, Subscribing, Back
<1>. QED BY <1>0, <1>1, <1>2, <1>3, <1>4, <1>5, <1>6, Parts, SameWire

LEMMA UncountedInv ==
  ASSUME IInv, Uncounted
  PROVE  IInv'
<1>0. UNCHANGED wire
  BY DEF Uncounted
<1>1. TypeRest'
  BY Parts DEF Uncounted, TypeRest, Control, Back, Extra
<1>2. Control'
  BY Parts DEF Uncounted, TypeRest, Control, Back
<1>3. Quiet'
  BY <1>0, Parts DEF Uncounted, TypeRest, Quiet, Control, Left, Back, HelloJob
<1>4. HelloNext'
  BY <1>0, Parts DEF Uncounted, TypeRest, Quiet, Control, HelloNext, HelloJob, Unheard
<1>5. InTurn'
  BY <1>0, SameWire, Parts DEF Uncounted, TypeRest, InTurn, Unheard
<1>6. Left'
  BY Parts DEF Uncounted, TypeRest, Quiet, Control, Left, Subscribing, Back
<1>. QED BY <1>0, <1>1, <1>2, <1>3, <1>4, <1>5, <1>6, Parts, SameWire

LEMMA WatchInv ==
  ASSUME IInv, Watch
  PROVE  IInv'
<1>0. UNCHANGED wire
  BY DEF Watch
<1>1. TypeRest'
  BY Parts DEF Watch, TypeRest, Control, Back, Extra
<1>2. Control'
  BY Parts DEF Watch, TypeRest, Control, Back
<1>3. Quiet'
  BY <1>0, Parts DEF Watch, TypeRest, Quiet, Control, Left, Back, HelloJob
<1>4. HelloNext'
  BY <1>0, Parts DEF Watch, TypeRest, Quiet, Control, HelloNext, HelloJob, Unheard
<1>5. InTurn'
  BY <1>0, SameWire, Parts DEF Watch, TypeRest, InTurn, Unheard
<1>6. Left'
  BY Parts DEF Watch, TypeRest, Quiet, Control, Left, Subscribing, Back
<1>. QED BY <1>0, <1>1, <1>2, <1>3, <1>4, <1>5, <1>6, Parts, SameWire

LEMMA CountInv ==
  ASSUME IInv, NEW p \in Writers, Count(p)
  PROVE  IInv'
<1>0. UNCHANGED wire
  BY DEF Count
<1>1. TypeRest'
  BY Parts DEF Count, TypeRest, Control, Back, Extra
<1>2. Control'
  BY Parts DEF Count, TypeRest, Control, Back
<1>3. Quiet'
  BY <1>0, Parts DEF Count, TypeRest, Quiet, Control, Left, Back, HelloJob
<1>4. HelloNext'
  BY <1>0, Parts DEF Count, TypeRest, Quiet, Control, HelloNext, HelloJob, Unheard
<1>5. InTurn'
  <2>. SUFFICES ASSUME ~overlapped' PROVE InTurn' BY DEF InTurn
  <2>1. \A q, r \in Proc : Inside(q)' /\ Inside(r)' => q = r
    BY Parts DEF Count, TypeRest, InTurn
  <2>a. pc[p] = "count" /\ ~overlapped /\ seq' = seq + 1 /\ UNCHANGED Unheard
        /\ ~Inside(p)' /\ \A q \in Proc : pc'[q] \in Writing => pc[q] = pc'[q]
    BY Parts DEF Count, TypeRest, Back, Control, Unheard
  <2>b. \A q \in Proc : ~Inside(q)'
    BY <2>a, Parts DEF InTurn
  <2>2. \A q \in Proc : pc'[q] = "push" => job'[q].event.id = seq'
    BY <2>b
  <2>3. ~Unheard' => Len(wire)' = IF \E q \in Proc : pc'[q] = "count" THEN seq' + 1 ELSE seq'
    BY <2>a, <2>b, SameWire, <1>0, Parts DEF InTurn
  <2>. QED BY <2>1, <2>2, <2>3 DEF InTurn
<1>6. Left'
  BY Parts DEF Count, TypeRest, Quiet, Control, Left, Subscribing, Back
<1>. QED BY <1>0, <1>1, <1>2, <1>3, <1>4, <1>5, <1>6, Parts, SameWire

LEMMA DestroyInv ==
  ASSUME IInv, NEW p \in Writers, Destroy(p)
  PROVE  IInv'
<1>0. UNCHANGED wire
  BY DEF Destroy
<1>1. TypeRest'
  <2>1. pc' \in [Proc -> Place] /\ pc'["main"] \in MainPlace /\ pc'["inline"] \in InlinePlace
        /\ pc'["tracker"] \in {"wait", "counted", "end"} /\ pc'["watcher"] \in WatcherPlace
    BY Parts DEF Destroy, TypeRest, Control, Back
  <2>2. job' \in [Proc -> [event : Event, ok : Place, err : Place]]
    BY Parts DEF Destroy, TypeRest
  <2>3. /\ seq' \in Nat /\ conns' \in {0, 1} /\ extra' \in Nat /\ asked' \in Nat /\ todo' \in 0 .. asked'
        /\ UNCHANGED <<gone, gctxDone, shutdown>>
    BY Parts DEF Destroy, TypeRest
  <2>4. /\ joined' \in BOOLEAN /\ heard' \in BOOLEAN /\ cancelled' \in BOOLEAN /\ ready' \in BOOLEAN
        /\ destroyed' \in BOOLEAN /\ overlapped' \in BOOLEAN /\ cut' \in BOOLEAN
    BY Parts DEF Destroy, TypeRest
  <2>. QED BY <2>1, <2>2, <2>3, <2>4, Parts DEF TypeRest
<1>2. Control'
  BY Parts DEF Destroy, TypeRest, Control, Back
<1>3. Quiet'
  BY <1>0, Parts DEF Destroy, TypeRest, Quiet, Control, Left, Back, HelloJob
<1>4. HelloNext'
  BY <1>0, Parts DEF Destroy, TypeRest, Quiet, Control, HelloNext, HelloJob, Unheard
<1>5. InTurn'
  BY <1>0, SameWire, Parts DEF Destroy, TypeRest, InTurn, Unheard
<1>6. Left'
  BY Parts DEF Destroy, TypeRest, Quiet, Control, Left, Subscribing, Back
<1>. QED BY <1>0, <1>1, <1>2, <1>3, <1>4, <1>5, <1>6, Parts, SameWire

(* Write's bytes reach the client, or nobody.                              *)
LEMMA PushInv ==
  ASSUME IInv, NEW p \in Writers, Push(p)
  PROVE  IInv'
<1>. DEFINE e == job[p].event
<1>0. /\ pc[p] = "push" /\ e \in Event /\ UNCHANGED <<seq, overlapped, gone, ready, cancelled>>
      /\ wire \in Seq(Event)
  BY Parts DEF Push, TypeRest, Received
<1>a. UNCHANGED wire \/ (~Unheard /\ ~overlapped /\ wire' = Append(wire, e) /\ Goto(p, "count"))
  BY DEF Push
<1>b. ~Unheard /\ ~overlapped => e.id = Len(wire) /\ Len(wire) = seq
  BY <1>0, Parts DEF InTurn, TypeRest
<1>c. wire = <<>> /\ ~Unheard => p = "main" /\ HelloJob /\ ~overlapped
  BY <1>0, Parts DEF HelloNext, Quiet, InTurn, TypeRest, HelloJob
<1>1. TypeRest'
  BY Parts DEF Push, TypeRest, Control, Back
<1>2. Control'
  BY Parts DEF Push, TypeRest, Control, Back
<1>3. Quiet'
  <2>1. CASE p = "main"
    <3>1. \/ pc' = [pc EXCEPT !["main"] = "count"] /\ UNCHANGED job
          \/ pc' = [pc EXCEPT !["main"] = job["main"].err] /\ job' = [job EXCEPT !["main"] = NoJob]
      BY <2>1 DEF Push
    <3>2. \/ pc'["main"] = "count" /\ UNCHANGED job
          \/ pc'["main"] = job["main"].err /\ job["main"].err \in {"select", "cancel"}
      <4>1. job["main"].err \in {"select", "cancel"}
        BY <2>1, <1>0, Parts DEF Control, Back
      <4>. QED BY <4>1, <3>1, Parts DEF TypeRest
    <3>3. pc'["inline"] = pc["inline"] /\ pc'["tracker"] = pc["tracker"] /\ pc'["watcher"] = pc["watcher"]
      BY <3>1, Parts DEF TypeRest
    <3>4. CASE ready
      BY <3>2, <3>4, <2>1, <1>0, Parts DEF Quiet
    <3>5. CASE ~ready
      <4>1. HelloJob /\ ~cancelled
        BY <3>5, <2>1, <1>0, Parts DEF Quiet
      <4>2. (pc'["main"] = "count" /\ HelloJob') \/ pc'["main"] = "cancel"
        BY <4>1, <3>2 DEF HelloJob
      <4>. QED BY <4>1, <4>2, <3>3, <3>5, <2>1, <1>0, Parts DEF Quiet
    <3>. QED BY <3>4, <3>5
  <2>2. CASE p # "main"
    <3>1. ready /\ pc'["main"] = pc["main"] /\ job'["main"] = job["main"]
      BY <2>2, <1>0, Parts DEF Push, TypeRest, Quiet
    <3>. QED BY <3>1, <1>0, Parts DEF Quiet
  <2>. QED BY <2>1, <2>2
<1>4. Left'
  BY Parts DEF Push, TypeRest, Quiet, Control, Left, Subscribing, Back
<1>5. Received' /\ (wire' = <<>> => wire = <<>> /\ UNCHANGED wire)
  <2>1. CASE UNCHANGED wire
    BY <2>1, SameWire
  <2>2. CASE ~Unheard /\ ~overlapped /\ wire' = Append(wire, e)
    <3>1. wire' \in Seq(Event) /\ DOMAIN wire' = 1 .. Len(wire) + 1 /\ wire' # <<>>
          /\ (\A i \in 1 .. Len(wire) : wire'[i] = wire[i]) /\ wire'[Len(wire) + 1] = e
      BY <2>2, <1>0
    <3>2. IdsCount'
      BY <3>1, <1>0, <1>b, <2>2, Parts DEF IdsCount, Received
    <3>3. HelloFirst'
      <4>1. CASE wire = <<>>
        BY <4>1, <3>1, <1>c, <2>2 DEF HelloFirst, HelloJob
      <4>2. CASE wire # <<>>
        BY <4>2, <3>1, <1>0, Parts DEF HelloFirst, Received
      <4>. QED BY <4>1, <4>2
    <3>. QED BY <3>1, <3>2, <3>3 DEF Received
  <2>. QED BY <1>a, <2>1, <2>2
<1>6. HelloNext'
  <2>1. CASE wire # <<>>
    BY <1>5, <2>1 DEF HelloNext
  <2>2. CASE wire = <<>> /\ Unheard
    BY <2>2, <1>0, Parts DEF HelloNext, Unheard, Push, TypeRest, Control, Back
  <2>3. CASE wire = <<>> /\ ~Unheard
    BY <2>3, <1>c, <1>0, <1>5 DEF HelloNext, Push
  <2>. QED BY <2>1, <2>2, <2>3
<1>7. InTurn'
  <2>. SUFFICES ASSUME ~overlapped' PROVE InTurn' BY DEF InTurn
  <2>1. \A q \in Proc : Inside(q) <=> q = p
    BY <1>0, Parts DEF InTurn
  <2>2. \A q \in Proc : Inside(q)' => q = p /\ pc'[q] = "count" /\ Goto(p, "count")
    BY <2>1, Parts DEF Push, TypeRest, Control, Back
  <2>3. Unheard => Unheard'
    BY <1>0, Parts DEF Unheard, Push, TypeRest
  <2>4. ~Unheard' => Len(wire)' = IF \E q \in Proc : pc'[q] = "count" THEN seq' + 1 ELSE seq'
    <3>. SUFFICES ASSUME ~Unheard' PROVE Len(wire)' = seq + 1 /\ pc'[p] = "count"
      BY <1>0
    <3>1. wire' = Append(wire, e) /\ Goto(p, "count")
      BY <2>3, <1>0 DEF Push
    <3>. QED BY <3>1, <1>b, <1>0, <2>3, Parts DEF TypeRest
  <2>. QED BY <2>2, <2>4 DEF InTurn
<1>. QED BY <1>1, <1>2, <1>3, <1>4, <1>5, <1>6, <1>7, Parts

(* The process, the server, the client, and steps that change nothing.     *)
LEMMA EnvInv ==
  ASSUME IInv, GctxDone \/ Shutdown \/ Leave \/ UNCHANGED vars
  PROVE  IInv'
<1>0. UNCHANGED <<wire, pc, job, seq, overlapped, cancelled, ready, destroyed, subs, conns, extra, cut>>
  BY DEF GctxDone, Shutdown, Leave, vars
<1>1. TypeRest'
  <2>1. gone' \in BOOLEAN /\ gctxDone' \in BOOLEAN /\ shutdown' \in BOOLEAN
    BY Parts DEF GctxDone, Shutdown, Leave, vars, TypeRest
  <2>. QED BY <1>0, <2>1, Parts DEF TypeRest
<1>2. Control' /\ Quiet' /\ Left'
  BY <1>0, Parts DEF Control, Quiet, Left, Subscribing, HelloJob, Back
<1>3. gone => gone'
  BY DEF GctxDone, Shutdown, Leave, vars
<1>4. HelloNext' /\ InTurn'
  BY <1>0, <1>3, Parts DEF HelloNext, InTurn, Unheard, HelloJob
<1>. QED BY <1>0, <1>1, <1>2, <1>4, SameWire, Parts
-----------------------------------------------------------------------------
LEMMA InitInv == Init => IInv
<1>. SUFFICES ASSUME Init PROVE IInv OBVIOUS
<1>1. /\ pc \in [Proc -> Place]
      /\ pc["main"] = "greet" /\ pc["watcher"] = "off"
      /\ pc["inline"] = "wait" /\ pc["tracker"] = "wait"
  BY DEF Init
<1>2. TypeRest
  <2>1. job \in [Proc -> [event : Event, ok : Place, err : Place]]
    BY DEF Init
  <2>2. asked \in Nat /\ todo \in 0 .. asked
    BY BoundAssumption DEF Init
  <2>. QED BY <1>1, <2>1, <2>2 DEF Init, TypeRest
<1>3. Control /\ Quiet /\ HelloNext /\ InTurn /\ Left
  BY <1>1 DEF Init, Control, Quiet, HelloNext, InTurn, Left, Unheard, HelloJob
<1>4. Received
  BY DEF Init, Received, HelloFirst, IdsCount
<1>. QED BY <1>2, <1>3, <1>4, Parts

LEMMA NextInv == IInv /\ [Next]_vars => IInv'
<1>. SUFFICES ASSUME IInv, [Next]_vars PROVE IInv' OBVIOUS
<1>1. CASE \E p \in Writers : Common(p)
  BY <1>1, PushInv, CountInv, DestroyInv DEF Common
<1>2. CASE Greet \/ SetReady \/ OnRequestDoneOrClose \/ OnGctxDone \/ OnDispatch
  BY <1>2, GreetInv, SetReadyInv, OnRequestDoneOrCloseInv, OnGctxDoneInv, OnDispatchInv
<1>3. CASE OnHeartbeat \/ TakeDispatch
  BY <1>3, OnHeartbeatInv, TakeDispatchInv
<1>4. CASE OnReady \/ Subscribe \/ Ack \/ SendError \/ Close
  BY <1>4, OnReadyInv, SubscribeInv, AckInv, SendErrorInv, CloseInv
<1>5. CASE Counted \/ Uncounted \/ Watch
  BY <1>5, CountedInv, UncountedInv, WatchInv
<1>6. CASE GctxDone \/ Shutdown \/ Leave \/ UNCHANGED vars
  BY <1>6, EnvInv
<1>. QED BY <1>1, <1>2, <1>3, <1>4, <1>5, <1>6 DEF Next, Main, Inline, Tracker, Watcher

LEMMA Inductive == Spec => []IInv
BY InitInv, NextInv, PTL DEF Spec

(* Every variable keeps its type, each goroutine its places, and the       *)
(* connection counts at most once (connect.go:25-69).                      *)
THEOREM TypeCorrect == Spec => []TypeOK
<1>1. IInv => TypeOK
  BY DEF IInv
<1>. QED BY <1>1, Inductive, PTL

(* The first event is the Hello, whole, though three goroutines write and  *)
(* none takes a lock (v3.go:39, eventstream_read.go:24-28).                *)
THEOREM GreetsFirst == Spec => []HelloFirst
<1>1. IInv => HelloFirst
  BY DEF IInv
<1>. QED BY <1>1, Inductive, PTL

(* The ids have no gap and no repetition before the first overlap of two   *)
(* Writes (eventstream.go:180-210).                                        *)
THEOREM NumbersEvents == Spec => []IdsCount
<1>1. IInv => IdsCount
  BY DEF IInv
<1>. QED BY <1>1, Inductive, PTL

(* Only a goroutine caught while it subscribes leaves the session joined   *)
(* after the map is destroyed (v3.go:39-81, eventstream.go:234-238).       *)
THEOREM LeavesOnlyIfCut == Spec => []LeftBehind
<1>1. IInv => LeftBehind
  BY DEF IInv, Left, LeftBehind
<1>. QED BY <1>1, Inductive, PTL
-----------------------------------------------------------------------------
(* The connection implements Lifecycle, fairness apart.  Only the steps    *)
(* below touch what Lifecycle sees of it.                                  *)
LEMMA SameLife ==
  ASSUME UNCHANGED <<ready, cancelled, conns, shutdown>>, pc'["tracker"] = pc["tracker"]
  PROVE  UNCHANGED L!lvars
BY DEF L!lvars

LEMMA OpenStep ==
  ASSUME IInv, SetReady
  PROVE  L!Open("self")
<1>1. ~cancelled /\ ~ready /\ ready' /\ pc'["tracker"] = pc["tracker"]
      /\ UNCHANGED <<cancelled, conns, shutdown>>
  BY Parts DEF SetReady, TypeRest, Quiet
<1>. QED BY <1>1 DEF L!Open

LEMMA CloseStep ==
  ASSUME IInv, NEW p \in Writers, Destroy(p)
  PROVE  L!Close("self") \/ UNCHANGED L!lvars
<1>1. pc'["tracker"] = pc["tracker"] /\ UNCHANGED <<conns, shutdown>> /\ cancelled' = TRUE
  BY Parts DEF Destroy, TypeRest, Left
<1>2. CASE ~cancelled
  BY <1>1, <1>2 DEF L!Close
<1>3. CASE cancelled
  <2>1. UNCHANGED cancelled
    BY <1>1, <1>3, Parts DEF TypeRest
  <2>. QED BY <1>1, <1>3, <2>1 DEF L!lvars
<1>. QED BY <1>2, <1>3

LEMMA TrackStep ==
  ASSUME IInv, Counted \/ Uncounted
  PROVE  L!Count("self") \/ L!Uncount("self")
<1>1. CASE Counted
  <2>1. /\ pc["tracker"] = "wait" /\ pc'["tracker"] = "counted" /\ conns' = 1 /\ ready
        /\ UNCHANGED <<ready, cancelled, shutdown>>
    BY <1>1, Parts DEF Counted, TypeRest, Control
  <2>. QED BY <2>1 DEF L!Count
<1>2. CASE Uncounted
  <2>1. /\ pc["tracker"] = "counted" /\ pc'["tracker"] = "end" /\ conns = 1 /\ conns' = 0
        /\ cancelled /\ UNCHANGED <<ready, cancelled, shutdown>>
    BY <1>2, Parts DEF Uncounted, TypeRest, Control
  <2>. QED BY <2>1 DEF L!Uncount
<1>. QED BY <1>1, <1>2

LEMMA OtherStep ==
  ASSUME IInv,
         \/ Greet \/ OnRequestDoneOrClose \/ OnGctxDone \/ OnHeartbeat \/ TakeDispatch
         \/ OnDispatch \/ OnReady \/ Subscribe \/ Ack \/ SendError \/ Close \/ Watch
         \/ GctxDone \/ Leave \/ \E p \in Writers : Push(p) \/ Count(p)
  PROVE  UNCHANGED L!lvars
<1>1. UNCHANGED <<ready, cancelled, conns, shutdown>>
  BY DEF Greet, OnRequestDoneOrClose, OnGctxDone, OnHeartbeat, TakeDispatch, OnDispatch,
         OnReady, Subscribe, Ack, SendError, Close, Watch, GctxDone, Leave, Push, Count
<1>2. pc'["tracker"] = pc["tracker"]
  <2>1. CASE \E p \in Writers : Push(p) \/ Count(p)
    BY <2>1, Parts DEF TypeRest, Push, Count
  <2>2. CASE Greet \/ OnRequestDoneOrClose \/ OnGctxDone \/ OnHeartbeat \/ TakeDispatch \/ OnDispatch
    BY <2>2, Parts DEF TypeRest, Greet, OnRequestDoneOrClose, OnGctxDone, OnHeartbeat,
                       TakeDispatch, OnDispatch
  <2>3. CASE OnReady \/ Subscribe \/ Ack \/ SendError \/ Close \/ Watch \/ GctxDone \/ Leave
    BY <2>3, Parts DEF TypeRest, OnReady, Subscribe, Ack, SendError, Close, Watch, GctxDone, Leave
  <2>. QED BY <2>1, <2>2, <2>3
<1>. QED BY <1>1, <1>2, SameLife

LEMMA NextLife == IInv /\ [Next]_vars => [L!Next]_(L!lvars)
<1>. SUFFICES ASSUME IInv, [Next]_vars PROVE L!Next \/ UNCHANGED L!lvars OBVIOUS
<1>1. CASE \E p \in Writers : Common(p)
  BY <1>1, CloseStep, OtherStep DEF Common, L!Next
<1>2. CASE \/ Greet \/ OnRequestDoneOrClose \/ OnGctxDone \/ OnHeartbeat \/ TakeDispatch
           \/ OnDispatch \/ OnReady \/ Subscribe \/ Ack \/ SendError \/ Close \/ Watch
           \/ GctxDone \/ Leave
  BY <1>2, OtherStep
<1>3. CASE SetReady \/ Counted \/ Uncounted
  BY <1>3, OpenStep, TrackStep DEF L!Next
<1>4. CASE Shutdown
  <2>1. L!Shutdown
    BY <1>4 DEF Shutdown, L!Shutdown
  <2>. QED BY <2>1 DEF L!Next
<1>5. CASE UNCHANGED vars
  <2>1. UNCHANGED <<ready, cancelled, conns, shutdown>> /\ pc'["tracker"] = pc["tracker"]
    BY <1>5 DEF vars
  <2>. QED BY <2>1, SameLife
<1>. QED BY <1>1, <1>2, <1>3, <1>4, <1>5 DEF Next, Main, Inline, Tracker, Watcher

(* An EventStream opens and closes once, is counted only after it opened   *)
(* and counted out only after it closed (connect.go:15-79).                *)
THEOREM ImplementsLifecycle == Spec => L!Init /\ [][L!Next]_(L!lvars)
<1>1. Init => L!Init
  BY DEF Init, L!Init
<1>. QED BY <1>1, Inductive, NextLife, PTL DEF Spec
-----------------------------------------------------------------------------
(* What NeverStuck needs: who ended left behind what the others wait for.  *)
Woken ==
  /\ pc["main"] = "end" => cancelled /\ ready /\ destroyed
  /\ pc["inline"] = "end" => ready
  /\ pc["watcher"] = "end" => cancelled
  /\ pc["watcher"] = "off" => pc["tracker"] = "wait"

(* Nothing of what a goroutine waits for is taken back.                    *)
LEMMA Lasting ==
  ASSUME IInv, [Next]_vars
  PROVE  (cancelled => cancelled') /\ (destroyed => destroyed') /\ (ready => ready')
<1>1. ASSUME NEW p \in Writers, Common(p)
      PROVE  (cancelled => cancelled') /\ (destroyed => destroyed') /\ (ready => ready')
  BY <1>1 DEF Common, Push, Count, Destroy
<1>2. CASE SetReady
  BY <1>2 DEF SetReady
<1>5. CASE Greet \/ OnRequestDoneOrClose \/ OnGctxDone \/ OnHeartbeat \/ TakeDispatch \/ OnDispatch
  <2>1. UNCHANGED <<cancelled, ready, destroyed>>
    BY <1>5 DEF Greet, OnRequestDoneOrClose, OnGctxDone, OnHeartbeat, TakeDispatch, OnDispatch
  <2>. QED BY <2>1
<1>3. CASE OnReady \/ Subscribe \/ Ack \/ SendError \/ Close \/ Counted \/ Uncounted \/ Watch
  BY <1>3 DEF OnReady, Subscribe, Ack, SendError, Close, Counted, Uncounted, Watch
<1>4. CASE GctxDone \/ Shutdown \/ Leave \/ UNCHANGED vars
  BY <1>4 DEF GctxDone, Shutdown, Leave, vars
<1>. QED BY <1>1, <1>2, <1>3, <1>4, <1>5 DEF Next, Main, Inline, Tracker, Watcher

LEMMA WokenInit == Init => Woken
BY DEF Init, Woken

(* A goroutine that does not end.                                          *)
LEMMA WokenKept ==
  ASSUME IInv, Woken, [Next]_vars, NEW p \in Writers, pc'[p] \notin {"end", "off"},
         \A q \in Proc \ {p} : pc'[q] = pc[q]
  PROVE  Woken'
BY Parts, Lasting DEF Woken, TypeRest

LEMMA WokenNext == IInv /\ Woken /\ [Next]_vars => Woken'
<1>. SUFFICES ASSUME IInv, Woken, [Next]_vars PROVE Woken' OBVIOUS
<1>0. TypeRest
  BY Parts
<1>1. ASSUME NEW p \in Writers, Push(p) \/ Count(p) PROVE Woken'
  <2>1. job[p].ok \notin {"end", "off"} /\ job[p].err \notin {"end", "off"}
    BY <1>1, Parts DEF Push, Count, Control, Back
  <2>2. \E l \in {"count", job[p].ok, job[p].err} : pc' = [pc EXCEPT ![p] = l]
    BY <1>1 DEF Push, Count
  <2>3. pc'[p] \notin {"end", "off"} /\ \A q \in Proc \ {p} : pc'[q] = pc[q]
    BY <1>0, <2>1, <2>2 DEF TypeRest
  <2>. QED BY <2>3, WokenKept
<1>2. ASSUME NEW p \in Writers, Destroy(p) PROVE Woken'
  <2>1. CASE pc[p] = "cancel"
    <3>1. pc' = [pc EXCEPT ![p] = "rest"]
      BY <1>2, <2>1 DEF Destroy
    <3>2. pc'[p] \notin {"end", "off"} /\ \A q \in Proc \ {p} : pc'[q] = pc[q]
      BY <1>0, <3>1 DEF TypeRest
    <3>. QED BY <3>2, WokenKept
  <2>2. CASE pc[p] = "rest"
    <3>1. pc' = [pc EXCEPT ![p] = "end"] /\ ready' /\ destroyed' /\ cancelled'
      BY <1>2, <2>2, Parts DEF Destroy, Left
    <3>. QED BY <1>0, <3>1 DEF Woken, TypeRest
  <2>. QED BY <1>2, <2>1, <2>2 DEF Destroy
<1>3. CASE Greet \/ SetReady \/ OnRequestDoneOrClose \/ OnGctxDone \/ OnHeartbeat \/ TakeDispatch \/ OnDispatch
  <2>1. \E l \in {"push", "select", "cancel", "effect"} : pc' = [pc EXCEPT !["main"] = l]
    BY <1>3 DEF Greet, SetReady, OnRequestDoneOrClose, OnGctxDone, OnHeartbeat, TakeDispatch, OnDispatch
  <2>2. pc'["main"] \notin {"end", "off"} /\ \A q \in Proc \ {"main"} : pc'[q] = pc[q]
    BY <1>0, <2>1 DEF TypeRest
  <2>. QED BY <2>2, WokenKept
<1>4. CASE OnReady \/ Subscribe \/ Ack \/ SendError \/ Close
  <2>1. pc["inline"] \in {"wait", "next", "ack", "refused", "close"} /\ (pc["inline"] = "wait" => ready)
    BY <1>4 DEF OnReady, Subscribe, Ack, SendError, Close
  <2>2. ready
    BY <2>1, Parts DEF Quiet
  <2>3. \E l : pc' = [pc EXCEPT !["inline"] = l]
    BY <1>4 DEF OnReady, Subscribe, Ack, SendError, Close
  <2>4. \A q \in Proc \ {"inline"} : pc'[q] = pc[q]
    BY <1>0, <2>3 DEF TypeRest
  <2>. QED BY <2>2, <2>4, Lasting DEF Woken
<1>5. CASE Counted \/ Uncounted
  <2>1. \/ pc' = [pc EXCEPT !["tracker"] = "counted", !["watcher"] = "watch"]
        \/ pc["tracker"] = "counted" /\ pc' = [pc EXCEPT !["tracker"] = "end"]
    BY <1>5 DEF Counted, Uncounted
  <2>. QED BY <1>0, <2>1, Lasting DEF Woken, TypeRest
<1>6. CASE Watch
  <2>1. \/ cancelled /\ pc' = [pc EXCEPT !["watcher"] = "end"]
        \/ pc' = [pc EXCEPT !["watcher"] = "push"]
    BY <1>6 DEF Watch
  <2>. QED BY <1>0, <2>1, Lasting DEF Woken, TypeRest
<1>7. CASE GctxDone \/ Shutdown \/ Leave \/ UNCHANGED vars
  <2>1. UNCHANGED pc
    BY <1>7 DEF GctxDone, Shutdown, Leave, vars
  <2>. QED BY <2>1, Lasting DEF Woken
<1>. QED BY <1>1, <1>2, <1>3, <1>4, <1>5, <1>6, <1>7 DEF Next, Main, Inline, Tracker, Watcher, Common

(* A stream that is to end always has a goroutine that can go on, until it *)
(* is gone (eventstream_read.go:18-40, v3.go:38-42, connect.go:20-69).     *)
THEOREM GoesOn == Spec => []NeverStuck
<1>1. IInv /\ Woken => NeverStuck
  <2>. SUFFICES ASSUME IInv, Woken, cancelled \/ gone \/ shutdown \/ gctxDone, \A p \in Proc : Waits(p)
                PROVE  Gone
    BY DEF NeverStuck
  <2>0. TypeRest /\ Quiet /\ Control
    BY Parts
  <2>1. pc["main"] \in {"end", "select"} /\ ready
    BY <2>0 DEF Waits, Woken, TypeRest, Quiet
  <2>2. cancelled
    BY <2>0, <2>1 DEF Waits, Woken, TypeRest
  <2>3. \A p \in Proc : pc[p] = "end"
    BY <2>0, <2>1, <2>2 DEF Waits, Woken, TypeRest
  <2>. QED BY <2>0, <2>3 DEF Gone, Woken, Control
<1>. QED BY <1>1, Inductive, WokenInit, WokenNext, PTL DEF Spec
-----------------------------------------------------------------------------
(* What WindsDown needs: a step moves one goroutine, and that one nearer   *)
(* to its end.                                                             *)
OnlyMoves(p) == \A q \in Proc \ {p} : pc'[q] = pc[q]

LEMMA DistanceType ==
  /\ TypeRest => \A q \in Proc : Distance(q) \in 0 .. 7
  /\ TypeRest' => \A q \in Proc : Distance(q)' \in 0 .. 7
BY DEF TypeRest, Distance

LEMMA Nearer ==
  ASSUME TypeRest, TypeRest', NEW p \in Proc, OnlyMoves(p), UNCHANGED <<todo, gone>>,
         NEW d \in {0, 1}, extra' = extra + d, Distance(p)' < Distance(p) + 5 * d
  PROVE  StepsLeft' < StepsLeft + 5 * (extra' - extra)
<1>1. \A q \in Proc : Distance(q) \in Nat /\ Distance(q)' \in Nat
  BY DistanceType
<1>2. \A q \in Proc \ {p} : Distance(q)' = Distance(q)
  BY DEF OnlyMoves, Distance
<1>3. extra \in Nat /\ todo \in Nat
  BY DEF TypeRest
<1>. DEFINE g == IF gone THEN 0 ELSE 1
<1>4. g \in Nat /\ g' = g
  OBVIOUS
<1>. HIDE DEF TypeRest, g
<1>5. /\ StepsLeft = Distance("main") + Distance("inline") + Distance("tracker") + Distance("watcher") + 8 * todo + g
      /\ StepsLeft' = Distance("main")' + Distance("inline")' + Distance("tracker")' + Distance("watcher")' + 8 * todo + g
  BY <1>4 DEF StepsLeft, g
<1>. QED BY <1>1, <1>2, <1>3, <1>4, <1>5

LEMMA CommonNearer ==
  ASSUME IInv, TypeRest', NEW p \in Writers, Common(p)
  PROVE  StepsLeft' < StepsLeft + 5 * (extra' - extra)
<1>0. TypeRest
  BY Parts
<1>1. /\ UNCHANGED <<todo, gone>> /\ extra' = extra + 0
      /\ \E l \in {"count", "rest", "end", job[p].ok, job[p].err} : pc' = [pc EXCEPT ![p] = l]
  <2>1. UNCHANGED <<todo, gone, extra>>
    BY DEF Common, Push, Count, Destroy
  <2>2. \E l \in {"count", "rest", "end", job[p].ok, job[p].err} : pc' = [pc EXCEPT ![p] = l]
    <3>1. CASE Push(p) \/ Count(p)
      <4>1. \E l \in {"count", job[p].ok, job[p].err} : pc' = [pc EXCEPT ![p] = l]
        BY <3>1 DEF Push, Count
      <4>. QED BY <4>1
    <3>2. CASE Destroy(p)
      <4>1. \E l \in {"rest", "end"} : pc' = [pc EXCEPT ![p] = l]
        BY <3>2 DEF Destroy
      <4>. QED BY <4>1
    <3>. QED BY <3>1, <3>2 DEF Common
  <2>3. extra' = extra + 0
    BY <1>0, <2>1 DEF TypeRest
  <2>. QED BY <2>1, <2>2, <2>3
<1>2. OnlyMoves(p)
  BY <1>0, <1>1 DEF OnlyMoves, TypeRest
<1>3. Distance(p)' < Distance(p) + 0
  <2>1. CASE Push(p) \/ Count(p)
    <3>1. {job[p].ok, job[p].err} \subseteq {"ready", "select", "cancel", "next", "close"}
      BY <2>1, Parts DEF Push, Count, Control, Back
    <3>2. \/ pc[p] = "push" /\ \E l \in {"count", job[p].err} : pc' = [pc EXCEPT ![p] = l]
          \/ pc[p] = "count" /\ pc' = [pc EXCEPT ![p] = job[p].ok]
      BY <2>1 DEF Push, Count
    <3>3. \/ pc[p] = "push" /\ pc'[p] \in {"count", "ready", "select", "cancel", "next", "close"}
          \/ pc[p] = "count" /\ pc'[p] \in {"ready", "select", "cancel", "next", "close"}
      BY <1>0, <3>1, <3>2 DEF TypeRest
    <3>. QED BY <3>3 DEF Distance
  <2>2. CASE Destroy(p)
    <3>1. \/ pc[p] = "cancel" /\ pc'[p] = "rest"
          \/ pc[p] = "rest" /\ pc'[p] = "end"
      BY <1>0, <2>2 DEF Destroy, TypeRest
    <3>. QED BY <3>1 DEF Distance
  <2>. QED BY <2>1, <2>2 DEF Common
<1>. QED BY <1>0, <1>1, <1>2, <1>3, Nearer

LEMMA MainNearer ==
  ASSUME IInv, TypeRest', cancelled,
         Greet \/ SetReady \/ OnRequestDoneOrClose \/ OnGctxDone \/ OnDispatch
  PROVE  StepsLeft' < StepsLeft + 5 * (extra' - extra)
<1>0. TypeRest
  BY Parts
<1>1. UNCHANGED <<todo, gone>> /\ extra' = extra + 0
  <2>1. UNCHANGED <<todo, gone, extra>>
    BY DEF Greet, SetReady, OnRequestDoneOrClose, OnGctxDone, OnDispatch
  <2>. QED BY <1>0, <2>1 DEF TypeRest
<1>2. \/ pc["main"] \in {"greet", "effect"} /\ pc' = [pc EXCEPT !["main"] = "push"]
      \/ pc["main"] = "ready" /\ pc' = [pc EXCEPT !["main"] = "select"]
      \/ pc["main"] = "select" /\ pc' = [pc EXCEPT !["main"] = "cancel"]
  BY DEF Greet, SetReady, OnRequestDoneOrClose, OnGctxDone, OnDispatch
<1>3. OnlyMoves("main")
  BY <1>0, <1>2 DEF OnlyMoves, TypeRest
<1>4. Distance("main")' < Distance("main") + 0
  BY <1>0, <1>2 DEF Distance, TypeRest
<1>. QED BY <1>0, <1>1, <1>3, <1>4, Nearer

LEMMA InlineNearer ==
  ASSUME IInv, TypeRest', cancelled, OnReady \/ Ack \/ SendError \/ Close
  PROVE  StepsLeft' < StepsLeft + 5 * (extra' - extra)
<1>0. TypeRest
  BY Parts
<1>1. UNCHANGED <<todo, gone>> /\ extra' = extra + 0
  <2>1. UNCHANGED <<todo, gone, extra>>
    BY DEF OnReady, Ack, SendError, Close
  <2>. QED BY <1>0, <2>1 DEF TypeRest
<1>2. \/ pc["inline"] \in {"wait", "close"} /\ pc' = [pc EXCEPT !["inline"] = "end"]
      \/ pc["inline"] \in {"ack", "refused"} /\ pc' = [pc EXCEPT !["inline"] = "push"]
  BY DEF OnReady, Ack, SendError, Close
<1>3. OnlyMoves("inline")
  BY <1>0, <1>2 DEF OnlyMoves, TypeRest
<1>4. Distance("inline")' < Distance("inline") + 0
  BY <1>0, <1>2 DEF Distance, TypeRest
<1>. QED BY <1>0, <1>1, <1>3, <1>4, Nearer

(* One subscription less to do outweighs its Ack, or its Error.            *)
LEMMA SubscribeNearer ==
  ASSUME IInv, TypeRest', Subscribe
  PROVE  StepsLeft' < StepsLeft + 5 * (extra' - extra)
<1>0. TypeRest
  BY Parts
<1>1. UNCHANGED <<gone, extra>> /\ pc["inline"] = "next"
  BY DEF Subscribe
<1>2. todo \in Nat /\ extra \in Nat
  BY <1>0 DEF TypeRest
<1>3. \/ UNCHANGED todo /\ pc' = [pc EXCEPT !["inline"] = "end"]
      \/ /\ todo' \in 0 .. todo - 1
         /\ \E l \in {"ack", "refused"} : pc' = [pc EXCEPT !["inline"] = l]
  BY <1>2 DEF Subscribe
<1>4. OnlyMoves("inline")
  BY <1>0, <1>3 DEF OnlyMoves, TypeRest
<1>5. CASE UNCHANGED todo /\ pc' = [pc EXCEPT !["inline"] = "end"]
  <2>1. Distance("inline")' < Distance("inline") + 0
    BY <1>0, <1>1, <1>5 DEF Distance, TypeRest
  <2>2. extra' = extra + 0
    BY <1>1, <1>2
  <2>. QED BY <1>0, <1>1, <1>4, <1>5, <2>1, <2>2, Nearer
<1>6. CASE todo' \in 0 .. todo - 1 /\ \E l \in {"ack", "refused"} : pc' = [pc EXCEPT !["inline"] = l]
  <2>1. Distance("inline") = 4 /\ Distance("inline")' = 7
    BY <1>0, <1>1, <1>6 DEF Distance, TypeRest
  <2>2. \A q \in Proc \ {"inline"} : Distance(q)' = Distance(q) /\ Distance(q) \in Nat
    <3>1. \A q \in Proc \ {"inline"} : Distance(q)' = Distance(q)
      BY <1>4 DEF OnlyMoves, Distance
    <3>. QED BY <1>0, <3>1, DistanceType
  <2>. DEFINE g == IF gone THEN 0 ELSE 1
  <2>3. g \in Nat /\ g' = g
    BY <1>1
  <2>. HIDE DEF g
  <2>4. /\ StepsLeft = Distance("main") + 4 + Distance("tracker") + Distance("watcher") + 8 * todo + g
        /\ StepsLeft' = Distance("main") + 7 + Distance("tracker") + Distance("watcher") + 8 * todo' + g
    BY <2>1, <2>2, <2>3 DEF StepsLeft, g
  <2>5. Distance("main") \in Nat /\ Distance("tracker") \in Nat /\ Distance("watcher") \in Nat
    BY <2>2
  <2>6. todo' \in Nat /\ todo' <= todo - 1 /\ extra' - extra = 0
    BY <1>1, <1>2, <1>6
  <2>. HIDE DEF TypeRest
  <2>. QED BY <1>2, <2>3, <2>4, <2>5, <2>6
<1>. QED BY <1>3, <1>5, <1>6

LEMMA TrackerNearer ==
  ASSUME IInv, TypeRest', cancelled, Counted \/ Uncounted \/ Watch
  PROVE  StepsLeft' < StepsLeft + 5 * (extra' - extra)
<1>0. TypeRest /\ extra \in Nat /\ todo \in Nat
  BY Parts DEF TypeRest
<1>1. UNCHANGED <<todo, gone, extra>>
  BY DEF Counted, Uncounted, Watch
<1>2. CASE Counted
  <2>1. pc["tracker"] = "wait" /\ pc' = [pc EXCEPT !["tracker"] = "counted", !["watcher"] = "watch"]
    BY <1>2 DEF Counted
  <2>2. /\ Distance("tracker") = 7 /\ Distance("tracker")' = 1 /\ Distance("watcher")' = 1
        /\ Distance("main")' = Distance("main") /\ Distance("inline")' = Distance("inline")
    BY <1>0, <2>1 DEF Distance, TypeRest
  <2>3. \A q \in Proc : Distance(q) \in Nat
    BY <1>0, DistanceType
  <2>. DEFINE g == IF gone THEN 0 ELSE 1
  <2>4. g \in Nat /\ g' = g
    BY <1>1
  <2>. HIDE DEF g
  <2>5. /\ StepsLeft = Distance("main") + Distance("inline") + 7 + Distance("watcher") + 8 * todo + g
        /\ StepsLeft' = Distance("main") + Distance("inline") + 1 + 1 + 8 * todo + g
    BY <1>1, <2>2, <2>4 DEF StepsLeft, g
  <2>. QED BY <1>0, <1>1, <2>3, <2>4, <2>5
<1>3. CASE Uncounted
  <2>1. pc["tracker"] = "counted" /\ pc' = [pc EXCEPT !["tracker"] = "end"]
    BY <1>3 DEF Uncounted
  <2>2. OnlyMoves("tracker") /\ Distance("tracker")' < Distance("tracker") + 0 /\ extra' = extra + 0
    BY <1>0, <1>1, <2>1 DEF OnlyMoves, Distance, TypeRest
  <2>. QED BY <1>0, <1>1, <2>2, Nearer
<1>4. CASE Watch
  <2>1. pc["watcher"] = "watch" /\ pc' = [pc EXCEPT !["watcher"] = "end"]
    BY <1>4 DEF Watch
  <2>2. OnlyMoves("watcher") /\ Distance("watcher")' < Distance("watcher") + 0 /\ extra' = extra + 0
    BY <1>0, <1>1, <2>1 DEF OnlyMoves, Distance, TypeRest
  <2>. QED BY <1>0, <1>1, <2>2, Nearer
<1>. QED BY <1>2, <1>3, <1>4

LEMMA ExtraNearer ==
  ASSUME IInv, TypeRest', OnHeartbeat \/ TakeDispatch
  PROVE  StepsLeft' < StepsLeft + 5 * (extra' - extra)
<1>0. TypeRest
  BY Parts
<1>1. /\ UNCHANGED <<todo, gone>> /\ extra' = extra + 1 /\ pc["main"] = "select"
      /\ \E l \in {"push", "effect"} : pc' = [pc EXCEPT !["main"] = l]
  BY DEF OnHeartbeat, TakeDispatch, Extra
<1>2. OnlyMoves("main")
  BY <1>0, <1>1 DEF OnlyMoves, TypeRest
<1>3. Distance("main")' < Distance("main") + 5 * 1
  BY <1>0, <1>1 DEF Distance, TypeRest
<1>. QED BY <1>0, <1>1, <1>2, <1>3, Nearer

LEMMA LeaveNearer ==
  ASSUME IInv, Leave
  PROVE  StepsLeft' < StepsLeft + 5 * (extra' - extra) \/ UNCHANGED vars
<1>0. TypeRest /\ extra \in Nat /\ todo \in Nat
  BY Parts DEF TypeRest
<1>1. gone' = TRUE /\ UNCHANGED <<pc, todo, extra>>
  BY DEF Leave
<1>2. CASE gone
  BY <1>0, <1>1, <1>2 DEF Leave, vars, TypeRest
<1>3. CASE ~gone
  <2>1. \A q \in Proc : Distance(q)' = Distance(q) /\ Distance(q) \in Nat
    <3>1. \A q \in Proc : Distance(q)' = Distance(q)
      BY <1>1 DEF Distance
    <3>. QED BY <1>0, <3>1, DistanceType
  <2>2. /\ StepsLeft = Distance("main") + Distance("inline") + Distance("tracker") + Distance("watcher") + 8 * todo + 1
        /\ StepsLeft' = Distance("main") + Distance("inline") + Distance("tracker") + Distance("watcher") + 8 * todo + 0
    BY <1>1, <1>3, <2>1 DEF StepsLeft
  <2>. QED BY <1>0, <1>1, <2>1, <2>2
<1>. QED BY <1>2, <1>3

(* Once cancelled, a stream has a bounded number of steps left, however    *)
(* many subscriptions its URL asks for and whatever its Writes answer, and *)
(* a heartbeat or dispatch that the select still takes adds at most four   *)
(* (v3.go:41-81, eventstream.go:141-210, eventstream_read.go:31-88).  With *)
(* GoesOn and the goroutines' fairness that is Ends, from there on.        *)
THEOREM StepsRunOut == Spec => WindsDown
<1>1. IInv /\ IInv' /\ [Next]_vars => [cancelled => StepsLeft' < StepsLeft + 5 * (extra' - extra)]_vars
  <2>. SUFFICES ASSUME IInv, TypeRest', Next, cancelled
                PROVE  StepsLeft' < StepsLeft + 5 * (extra' - extra) \/ UNCHANGED vars
    BY Parts
  <2>1. ~GctxDone /\ ~Shutdown
    BY DEF GctxDone, Shutdown
  <2>2. CASE \E p \in Writers : Common(p)
    BY <2>2, CommonNearer
  <2>3. CASE Leave
    BY <2>3, LeaveNearer
  <2>. QED BY <2>1, <2>2, <2>3, MainNearer, InlineNearer, SubscribeNearer, TrackerNearer, ExtraNearer
           DEF Next, Main, Inline, Tracker, Watcher
<1>. QED BY <1>1, Inductive, PTL DEF Spec, WindsDown
=============================================================================
