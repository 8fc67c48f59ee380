--------------------------- MODULE WebSocketProofs --------------------------
(***************************************************************************)
(* WebSocket proved for any number of frames and commands: the variables   *)
(* keep their types, the Hello comes first, every close frame is announced,*)
(* what stays joined was cut off, and a connection that is to end is never *)
(* stuck and winds down.                                                   *)
(*                                                                         *)
(* The third needs that the socket is closed before the context is         *)
(* cancelled (Ordered): a Write that returns without writing then means    *)
(* that the close frame cannot be written either.                          *)
(***************************************************************************)
EXTENDS WebSocket, TLAPS

(* Where each goroutine may go on after a SendClose or a Destroy.          *)
Back(p) ==
  IF p = "main" THEN {"destroy", "rest"}
  ELSE IF p = "reader" THEN {"read", "destroy", "rest"}
  ELSE {"end"}

Control ==
  /\ \A p \in Proc : pc[p] \in SendCloseAt => ret[p] \in Back(p)
  /\ conns = IF pc["tracker"] = "counted" THEN 1 ELSE 0

(* Nobody is up before the Hello; and if it did not go out, nothing will.  *)
Quiet ==
  /\ pc["main"] = "greet" => wire = <<>> /\ ~ready /\ ~closed
  /\ ~ready => pc["reader"] = "wait" /\ pc["tracker"] = "wait" /\ pc["watcher"] = "off"
  /\ pc["main"] # "greet" /\ wire = <<>> => broken

Ordered ==
  /\ cancelled => closed
  /\ \A p \in Proc : /\ pc[p] = "cancel" => closed
                     /\ pc[p] = "rest" => cancelled
                     /\ pc[p] = "frame" => Sent("eos") \/ closed \/ broken

IInv == TypeOK /\ Control /\ Quiet /\ Ordered /\ HelloFirst /\ CloseAnnounced
-----------------------------------------------------------------------------
(* What every step does to the wire.                                       *)
WireStep ==
  /\ wire' \in Seq(Frame) /\ HelloFirst' /\ CloseAnnounced'
  /\ Sent("eos") => Sent("eos")'
  /\ wire' = <<>> => wire = <<>>

LEMMA SameWire ==
  ASSUME IInv, UNCHANGED wire
  PROVE  WireStep /\ (wire = <<>> => wire' = <<>>)
BY DEF IInv, TypeOK, WireStep, HelloFirst, CloseAnnounced, Sent

LEMMA GrowWire ==
  ASSUME IInv, NEW f \in Frame, wire' = Append(wire, f),
         wire = <<>> => f = "hello",
         f = "close" => Sent("eos")
  PROVE  WireStep /\ wire' # <<>>
<1>. DEFINE n == Len(wire)
<1>1. /\ wire \in Seq(Frame) /\ n \in Nat /\ DOMAIN wire = 1..n
      /\ wire = <<>> <=> n = 0
  BY DEF IInv, TypeOK
<1>2. /\ wire' \in Seq(Frame) /\ DOMAIN wire' = 1..(n + 1) /\ wire' # <<>>
      /\ \A i \in 1..n : wire'[i] = wire[i]
      /\ wire'[n + 1] = f
  BY <1>1
<1>. HIDE DEF n
<1>3. HelloFirst'
  BY <1>1, <1>2 DEF IInv, HelloFirst
<1>4. Sent("eos") => Sent("eos")'
  BY <1>1, <1>2 DEF Sent
<1>5. CloseAnnounced'
  <2>. SUFFICES ASSUME NEW i \in 1..(n + 1), wire'[i] = "close"
                PROVE  \E j \in 1..(i - 1) : wire'[j] = "eos"
    BY <1>2 DEF CloseAnnounced
  <2>1. CASE i \in 1..n
    <3>1. PICK j \in 1..(i - 1) : wire[j] = "eos"
      BY <2>1, <1>1, <1>2 DEF IInv, CloseAnnounced
    <3>. QED BY <3>1, <2>1, <1>1, <1>2
  <2>2. CASE i = n + 1
    <3>1. PICK j \in 1..n : wire[j] = "eos"
      BY <2>2, <1>1, <1>2 DEF Sent
    <3>. QED BY <3>1, <2>2, <1>1, <1>2
  <2>. QED BY <2>1, <2>2, <1>1
<1>. QED BY <1>2, <1>3, <1>4, <1>5 DEF WireStep

LEMMA WriteStep ==
  ASSUME IInv, pc["main"] # "greet",
         NEW f \in Frame \ {"close"}, NEW ok \in BOOLEAN, Write(f, ok)
  PROVE  /\ WireStep /\ UNCHANGED <<closed, broken>>
         /\ wire' = <<>> => broken
         /\ ok /\ f = "eos" => Sent("eos")' \/ closed \/ broken
<1>0. UNCHANGED <<closed, broken>> /\ (wire = <<>> => ~CanWrite)
  BY DEF Write, IInv, Quiet, CanWrite
<1>1. CASE UNCHANGED wire
  <2>1. WireStep
    BY <1>1, SameWire
  <2>2. ok /\ f = "eos" /\ ~cancelled /\ ~broken => Sent("eos")'
    <3>1. ok /\ ~cancelled /\ ~broken => wire' = Append(wire, f)
      BY DEF Write
    <3>2. wire' # Append(wire, f)
      BY <1>1 DEF IInv, TypeOK
    <3>. QED BY <3>1, <3>2
  <2>. QED BY <2>1, <2>2, <1>0, <1>1 DEF IInv, Quiet, Ordered
<1>2. CASE CanWrite /\ wire' = Append(wire, f)
  <2>1. WireStep /\ wire' # <<>>
    BY <1>2, <1>0, GrowWire
  <2>2. f = "eos" => Sent("eos")'
    <3>1. wire' = Append(wire, f) /\ wire \in Seq(Frame)
      BY <1>2 DEF IInv, TypeOK
    <3>2. Len(wire) + 1 \in DOMAIN wire' /\ wire'[Len(wire) + 1] = f
      BY <3>1
    <3>. QED BY <3>2 DEF Sent
  <2>. QED BY <2>1, <2>2, <1>0
<1>. QED BY <1>1, <1>2 DEF Write
-----------------------------------------------------------------------------
(* Everything of IInv but what WireStep says.                              *)
TypeRest ==
  /\ pc \in [Proc -> Place]
  /\ pc["main"] \in {"greet", "select", "effect"} \cup SendCloseAt \cup DestroyAt
  /\ pc["reader"] \in {"wait", "whisper", "read", "ack"} \cup SendCloseAt \cup DestroyAt
  /\ pc["tracker"] \in {"wait", "counted", "end"}
  /\ pc["watcher"] \in {"off", "watch", "end"} \cup SendCloseAt
  /\ ret \in [Proc -> {"read", "destroy", "rest", "end"}]
  /\ extra \in Nat
  /\ closed \in BOOLEAN /\ broken \in BOOLEAN
  /\ cancelled \in BOOLEAN /\ ready \in BOOLEAN /\ destroyed \in BOOLEAN
  /\ joined \in BOOLEAN /\ heard \in BOOLEAN /\ cut \in BOOLEAN
  /\ conns \in {0, 1}
  /\ gctxDone \in BOOLEAN /\ shutdown \in BOOLEAN

LEMMA Parts ==
  ASSUME WireStep, TypeRest', Control', Quiet', Ordered'
  PROVE  IInv'
BY DEF WireStep, TypeRest, IInv, TypeOK

LEMMA TypeParts == IInv => TypeRest
BY DEF TypeRest, IInv, TypeOK

(* From here the wire's content stays behind WireStep, and the ways a      *)
(* goroutine changes its place are expanded everywhere.                    *)
USE DEF Goto, Call, Destroy, SendClose, Proc, Place, SendCloseAt, DestroyAt, gvars, svars, cvars, subs, env

LEMMA GreetInv == IInv /\ Greet => IInv'
<1>. SUFFICES ASSUME IInv, Greet PROVE IInv' OBVIOUS
<1>1. PICK ok \in BOOLEAN :
        /\ Write("hello", ok)
        /\ IF ok THEN Goto("main", "select") ELSE Destroy("main")
        /\ ready' = ok
  BY DEF Greet
<1>2. wire = <<>> /\ ~ready /\ ~closed /\ ~cancelled
  BY DEF Greet, IInv, Quiet, Ordered
<1>3. WireStep /\ (wire' = <<>> => broken)
  <2>1. CASE CanWrite /\ wire' = Append(wire, "hello")
    BY <2>1, GrowWire DEF Frame
  <2>2. CASE UNCHANGED wire /\ (broken \/ ~CanWrite)
    <3>1. ~Sent("close") /\ ~Sent("echo")
      BY <1>2 DEF Sent
    <3>. QED BY <2>2, <3>1, <1>2, SameWire DEF CanWrite
  <2>. QED BY <1>1, <1>2, <2>1, <2>2 DEF Write
<1>4. TypeRest'
  BY <1>1, TypeParts DEF Greet, TypeRest, Write
<1>5. Control'
  BY <1>1, TypeParts DEF Greet, TypeRest, Control, IInv, Write, Back
<1>6. Quiet'
  BY <1>1, <1>2, <1>3, TypeParts DEF Greet, TypeRest, Quiet, IInv, Write
<1>7. Ordered'
  BY <1>1, <1>2, <1>3, TypeParts DEF Greet, TypeRest, Ordered, IInv, Write,
                                     WireStep
<1>. QED BY <1>3, <1>4, <1>5, <1>6, <1>7, Parts

LEMMA OnCloseInv ==
  ASSUME IInv, OnClose
  PROVE  IInv'
<1>1. WireStep /\ (wire' = <<>> => wire = <<>>)
  BY SameWire DEF OnClose
<1>2. TypeRest' /\ Control'
  BY <1>1, TypeParts DEF OnClose, TypeRest, Control, IInv, Back
<1>3. Quiet'
  BY <1>1, TypeParts DEF OnClose, TypeRest, Quiet, Ordered, IInv, WireStep
<1>4. Ordered'
  BY <1>1, TypeParts DEF OnClose, TypeRest, Ordered, Quiet, Control, IInv, WireStep, Sent
<1>. QED BY <1>1, <1>2, <1>3, <1>4, Parts

LEMMA OnGctxDoneInv ==
  ASSUME IInv, OnGctxDone
  PROVE  IInv'
<1>1. WireStep /\ (wire' = <<>> => wire = <<>>)
  BY SameWire DEF OnGctxDone
<1>2. TypeRest' /\ Control'
  BY <1>1, TypeParts DEF OnGctxDone, TypeRest, Control, IInv, Back
<1>3. Quiet'
  BY <1>1, TypeParts DEF OnGctxDone, TypeRest, Quiet, Ordered, IInv, WireStep
<1>4. Ordered'
  BY <1>1, TypeParts DEF OnGctxDone, TypeRest, Ordered, Quiet, Control, IInv, WireStep, Sent
<1>. QED BY <1>1, <1>2, <1>3, <1>4, Parts

LEMMA OnTTLInv ==
  ASSUME IInv, OnTTL
  PROVE  IInv'
<1>0. pc["main"] # "greet"
  BY TypeParts DEF OnTTL, IInv, Quiet, TypeRest
<1>1. /\ WireStep /\ UNCHANGED <<closed, broken>>
      /\ wire' = <<>> => broken
  BY <1>0, WriteStep DEF OnTTL, Frame
<1>2. TypeRest' /\ Control'
  BY <1>1, TypeParts DEF OnTTL, TypeRest, Control, IInv, Back
<1>3. Quiet'
  BY <1>1, TypeParts DEF OnTTL, TypeRest, Quiet, Ordered, IInv, WireStep
<1>4. Ordered'
  BY <1>1, TypeParts DEF OnTTL, TypeRest, Ordered, Quiet, Control, IInv, WireStep, Sent
<1>. QED BY <1>1, <1>2, <1>3, <1>4, Parts

LEMMA OnHeartbeatInv ==
  ASSUME IInv, OnHeartbeat
  PROVE  IInv'
<1>0. pc["main"] # "greet"
  BY TypeParts DEF OnHeartbeat, IInv, Quiet, TypeRest
<1>1. /\ WireStep /\ UNCHANGED <<closed, broken>>
      /\ wire' = <<>> => broken
  BY <1>0, WriteStep DEF OnHeartbeat, Frame
<1>2. TypeRest' /\ Control'
  BY <1>1, TypeParts DEF OnHeartbeat, TypeRest, Control, IInv, Back, Extra
<1>3. Quiet'
  BY <1>1, TypeParts DEF OnHeartbeat, TypeRest, Quiet, Ordered, IInv, WireStep, Extra
<1>4. Ordered'
  BY <1>1, TypeParts DEF OnHeartbeat, TypeRest, Ordered, Quiet, Control, IInv, WireStep, Sent, Extra
<1>. QED BY <1>1, <1>2, <1>3, <1>4, Parts

LEMMA TakeDispatchInv ==
  ASSUME IInv, TakeDispatch
  PROVE  IInv'
<1>1. WireStep /\ (wire' = <<>> => wire = <<>>)
  BY SameWire DEF TakeDispatch
<1>2. TypeRest' /\ Control'
  BY <1>1, TypeParts DEF TakeDispatch, TypeRest, Control, IInv, Back, Extra
<1>3. Quiet'
  BY <1>1, TypeParts DEF TakeDispatch, TypeRest, Quiet, Ordered, IInv, WireStep, Extra
<1>4. Ordered'
  BY <1>1, TypeParts DEF TakeDispatch, TypeRest, Ordered, Quiet, Control, IInv, WireStep, Sent, Extra
<1>. QED BY <1>1, <1>2, <1>3, <1>4, Parts

LEMMA OnDispatchInv ==
  ASSUME IInv, OnDispatch
  PROVE  IInv'
<1>0. pc["main"] # "greet"
  BY TypeParts DEF OnDispatch, IInv, Quiet, TypeRest
<1>1. /\ WireStep /\ UNCHANGED <<closed, broken>>
      /\ wire' = <<>> => broken
  BY <1>0, WriteStep DEF OnDispatch, Frame
<1>2. TypeRest' /\ Control'
  <2>1. joined' \in BOOLEAN
    BY TypeParts DEF OnDispatch, TypeRest
  <2>. QED BY <1>1, <2>1, TypeParts DEF OnDispatch, TypeRest, Control, IInv, Back
<1>3. Quiet'
  BY <1>1, TypeParts DEF OnDispatch, TypeRest, Quiet, Ordered, IInv, WireStep
<1>4. Ordered'
  BY <1>1, TypeParts DEF OnDispatch, TypeRest, Ordered, Quiet, Control, IInv, WireStep, Sent
<1>. QED BY <1>1, <1>2, <1>3, <1>4, Parts

LEMMA OnReadyInv ==
  ASSUME IInv, OnReady
  PROVE  IInv'
<1>1. WireStep /\ (wire' = <<>> => wire = <<>>)
  BY SameWire DEF OnReady
<1>2. TypeRest' /\ Control'
  BY <1>1, TypeParts DEF OnReady, TypeRest, Control, IInv, Back
<1>3. Quiet'
  BY <1>1, TypeParts DEF OnReady, TypeRest, Quiet, Ordered, IInv, WireStep
<1>4. Ordered'
  BY <1>1, TypeParts DEF OnReady, TypeRest, Ordered, Quiet, Control, IInv, WireStep, Sent
<1>. QED BY <1>1, <1>2, <1>3, <1>4, Parts

LEMMA WhisperSubscribeInv ==
  ASSUME IInv, WhisperSubscribe
  PROVE  IInv'
<1>1. WireStep /\ (wire' = <<>> => wire = <<>>)
  BY SameWire DEF WhisperSubscribe
<1>2. TypeRest' /\ Control'
  BY <1>1, TypeParts DEF WhisperSubscribe, TypeRest, Control, IInv, Back
<1>3. Quiet'
  BY <1>1, TypeParts DEF WhisperSubscribe, TypeRest, Quiet, Ordered, IInv, WireStep
<1>4. Ordered'
  BY <1>1, TypeParts DEF WhisperSubscribe, TypeRest, Ordered, Quiet, Control, IInv, WireStep, Sent
<1>. QED BY <1>1, <1>2, <1>3, <1>4, Parts

LEMMA CommandInv ==
  ASSUME IInv, Command
  PROVE  IInv'
<1>0. joined' \in BOOLEAN /\ (UNCHANGED gvars \/ Goto("reader", "ack"))
  BY TypeParts DEF Command, TypeRest
<1>1. WireStep /\ (wire' = <<>> => wire = <<>>)
  BY SameWire DEF Command
<1>2. TypeRest' /\ Control'
  BY <1>0, <1>1, TypeParts DEF Command, TypeRest, Control, IInv, Back, Extra
<1>3. Quiet'
  BY <1>1, TypeParts DEF Command, TypeRest, Quiet, Ordered, IInv, WireStep, Extra
<1>4. Ordered'
  <2>1. /\ UNCHANGED <<cancelled, closed, broken>> /\ (Sent("eos") => Sent("eos")')
        /\ \A p \in Proc : pc'[p] = pc[p] \/ pc'[p] = "ack"
    BY <1>0, <1>1, TypeParts DEF Command, TypeRest, WireStep
  <2>. QED BY <2>1 DEF Ordered, IInv
<1>. QED BY <1>1, <1>2, <1>3, <1>4, Parts

LEMMA SendAckInv ==
  ASSUME IInv, SendAck
  PROVE  IInv'
<1>0. pc["main"] # "greet"
  BY TypeParts DEF SendAck, IInv, Quiet, TypeRest
<1>1. /\ WireStep /\ UNCHANGED <<closed, broken>>
      /\ wire' = <<>> => broken
  BY <1>0, WriteStep DEF SendAck, Frame
<1>2. TypeRest' /\ Control'
  BY <1>1, TypeParts DEF SendAck, TypeRest, Control, IInv, Back
<1>3. Quiet'
  BY <1>1, TypeParts DEF SendAck, TypeRest, Quiet, Ordered, IInv, WireStep
<1>4. Ordered'
  BY <1>1, TypeParts DEF SendAck, TypeRest, Ordered, Quiet, Control, IInv, WireStep, Sent
<1>. QED BY <1>1, <1>2, <1>3, <1>4, Parts

LEMMA RefuseInv ==
  ASSUME IInv, Refuse
  PROVE  IInv'
<1>0. pc["main"] # "greet"
  BY TypeParts DEF Refuse, IInv, Quiet, TypeRest
<1>1. /\ WireStep /\ UNCHANGED <<closed, broken>>
      /\ wire' = <<>> => broken
  <2>1. CASE SendError
    BY <2>1, <1>0, WriteStep DEF SendError, Frame
  <2>2. CASE UNCHANGED svars
    BY <2>2, <1>0, SameWire DEF IInv, Quiet
  <2>. QED BY <2>1, <2>2 DEF Refuse
<1>2. TypeRest' /\ Control'
  BY <1>1, TypeParts DEF Refuse, TypeRest, Control, IInv, Back, Extra
<1>3. Quiet'
  BY <1>1, TypeParts DEF Refuse, TypeRest, Quiet, Ordered, IInv, WireStep, Extra
<1>4. Ordered'
  BY <1>1, TypeParts DEF Refuse, TypeRest, Ordered, Quiet, Control, IInv, WireStep, Sent, Extra
<1>. QED BY <1>1, <1>2, <1>3, <1>4, Parts

LEMMA UnconvertibleInv ==
  ASSUME IInv, Unconvertible
  PROVE  IInv'
<1>1. WireStep /\ (wire' = <<>> => wire = <<>>)
  BY SameWire DEF Unconvertible
<1>2. TypeRest' /\ Control'
  BY <1>1, TypeParts DEF Unconvertible, TypeRest, Control, IInv, Back
<1>3. Quiet'
  BY <1>1, TypeParts DEF Unconvertible, TypeRest, Quiet, Ordered, IInv, WireStep
<1>4. Ordered'
  BY <1>1, TypeParts DEF Unconvertible, TypeRest, Ordered, Quiet, Control, IInv, WireStep, Sent
<1>. QED BY <1>1, <1>2, <1>3, <1>4, Parts

LEMMA UnknownOpInv ==
  ASSUME IInv, UnknownOp
  PROVE  IInv'
<1>1. WireStep /\ (wire' = <<>> => wire = <<>>)
  BY SameWire DEF UnknownOp
<1>2. TypeRest' /\ Control'
  BY <1>1, TypeParts DEF UnknownOp, TypeRest, Control, IInv, Back
<1>3. Quiet'
  BY <1>1, TypeParts DEF UnknownOp, TypeRest, Quiet, Ordered, IInv, WireStep
<1>4. Ordered'
  BY <1>1, TypeParts DEF UnknownOp, TypeRest, Ordered, Quiet, Control, IInv, WireStep, Sent
<1>. QED BY <1>1, <1>2, <1>3, <1>4, Parts

LEMMA ReadCloseInv ==
  ASSUME IInv, ReadClose
  PROVE  IInv'
<1>0. pc["main"] # "greet" /\ (wire = <<>> => ~CanWrite)
  BY TypeParts DEF ReadClose, IInv, Quiet, TypeRest, CanWrite
<1>1. WireStep /\ (wire' = <<>> => wire = <<>>)
  BY <1>0, SameWire, GrowWire DEF ReadClose, Frame
<1>2. TypeRest' /\ Control'
  BY <1>1, TypeParts DEF ReadClose, TypeRest, Control, IInv, Back
<1>3. Quiet'
  BY <1>1, TypeParts DEF ReadClose, TypeRest, Quiet, Ordered, IInv, WireStep
<1>4. Ordered'
  BY <1>1, TypeParts DEF ReadClose, TypeRest, Ordered, Quiet, Control, IInv, WireStep, Sent
<1>. QED BY <1>1, <1>2, <1>3, <1>4, Parts

LEMMA ReadErrorInv ==
  ASSUME IInv, ReadError
  PROVE  IInv'
<1>0. pc["main"] # "greet"
  BY TypeParts DEF ReadError, IInv, Quiet, TypeRest
<1>1. /\ WireStep /\ UNCHANGED <<closed, broken>>
      /\ wire' = <<>> => broken
  BY <1>0, WriteStep DEF ReadError, Frame, SendError
<1>2. TypeRest' /\ Control'
  BY <1>1, TypeParts DEF ReadError, TypeRest, Control, IInv, Back, SendError
<1>3. Quiet'
  BY <1>1, TypeParts DEF ReadError, TypeRest, Quiet, Ordered, IInv, WireStep, SendError
<1>4. Ordered'
  BY <1>1, TypeParts DEF ReadError, TypeRest, Ordered, Quiet, Control, IInv, WireStep, Sent, SendError
<1>. QED BY <1>1, <1>2, <1>3, <1>4, Parts

LEMMA CountInv ==
  ASSUME IInv, Count
  PROVE  IInv'
<1>1. WireStep /\ (wire' = <<>> => wire = <<>>)
  BY SameWire DEF Count
<1>2. TypeRest' /\ Control'
  BY <1>1, TypeParts DEF Count, TypeRest, Control, IInv, Back
<1>3. Quiet'
  BY <1>1, TypeParts DEF Count, TypeRest, Quiet, Ordered, IInv, WireStep
<1>4. Ordered'
  BY <1>1, TypeParts DEF Count, TypeRest, Ordered, Quiet, Control, IInv, WireStep, Sent
<1>. QED BY <1>1, <1>2, <1>3, <1>4, Parts

LEMMA UncountInv ==
  ASSUME IInv, Uncount
  PROVE  IInv'
<1>1. WireStep /\ (wire' = <<>> => wire = <<>>)
  BY SameWire DEF Uncount
<1>2. TypeRest' /\ Control'
  BY <1>1, TypeParts DEF Uncount, TypeRest, Control, IInv, Back
<1>3. Quiet'
  BY <1>1, TypeParts DEF Uncount, TypeRest, Quiet, Ordered, IInv, WireStep
<1>4. Ordered'
  BY <1>1, TypeParts DEF Uncount, TypeRest, Ordered, Quiet, Control, IInv, WireStep, Sent
<1>. QED BY <1>1, <1>2, <1>3, <1>4, Parts

LEMMA WatchInv ==
  ASSUME IInv, Watch
  PROVE  IInv'
<1>1. WireStep /\ (wire' = <<>> => wire = <<>>)
  BY SameWire DEF Watch
<1>2. TypeRest' /\ Control'
  BY <1>1, TypeParts DEF Watch, TypeRest, Control, IInv, Back
<1>3. Quiet'
  BY <1>1, TypeParts DEF Watch, TypeRest, Quiet, Ordered, IInv, WireStep
<1>4. Ordered'
  BY <1>1, TypeParts DEF Watch, TypeRest, Ordered, Quiet, Control, IInv, WireStep, Sent
<1>. QED BY <1>1, <1>2, <1>3, <1>4, Parts

LEMMA CloseFrameInv ==
  ASSUME IInv, NEW p \in {"main", "reader", "watcher"}, CloseFrame(p)
  PROVE  IInv'
<1>0. pc["main"] # "greet" /\ (wire = <<>> => ~CanWrite)
  BY TypeParts DEF CloseFrame, IInv, Quiet, TypeRest, CanWrite
<1>1. WireStep /\ (wire' = <<>> => wire = <<>>)
  <2>1. CASE CanWrite
    <3>1. Sent("eos")
      BY <2>1 DEF CloseFrame, IInv, Ordered, CanWrite, Proc
    <3>2. wire' = Append(wire, "close")
      BY <2>1 DEF CloseFrame
    <3>. QED BY <3>1, <3>2, <2>1, <1>0, GrowWire DEF Frame
  <2>2. CASE ~CanWrite
    BY <2>2, SameWire DEF CloseFrame
  <2>. QED BY <2>1, <2>2
<1>2. TypeRest' /\ Control'
  BY <1>1, TypeParts DEF CloseFrame, TypeRest, Control, IInv, Back
<1>3. Quiet'
  BY <1>1, TypeParts DEF CloseFrame, TypeRest, Quiet, Ordered, IInv, WireStep
<1>4. Ordered'
  BY <1>1, TypeParts DEF CloseFrame, TypeRest, Ordered, Quiet, Control, IInv, WireStep, Sent
<1>. QED BY <1>1, <1>2, <1>3, <1>4, Parts

LEMMA ForceCloseInv ==
  ASSUME IInv, NEW p \in {"main", "reader", "watcher"}, ForceClose(p)
  PROVE  IInv'
<1>1. WireStep /\ (wire' = <<>> => wire = <<>>)
  BY SameWire DEF ForceClose
<1>2. pc[p] \in SendCloseAt => ret[p] \in Back(p)
  BY DEF IInv, Control
<1>3. TypeRest'
  <2>1. CASE pc[p] = "force"
    BY <2>1, TypeParts DEF ForceClose, TypeRest
  <2>2. CASE pc[p] = "cancel"
    <3>1. ret[p] \in Back(p)
      BY <2>2, <1>2
    <3>2. CASE ret[p] = "destroy"
      BY <2>2, <3>2, TypeParts DEF ForceClose, TypeRest
    <3>3. CASE ret[p] # "destroy"
      BY <2>2, <3>1, <3>3, TypeParts DEF ForceClose, TypeRest, Back
    <3>. QED BY <3>2, <3>3
  <2>. QED BY <2>1, <2>2 DEF ForceClose
<1>4. Control'
  BY <1>2, TypeParts DEF ForceClose, TypeRest, Control, IInv, Back
<1>5. Quiet'
  BY <1>1, TypeParts DEF ForceClose, TypeRest, Quiet, Ordered, IInv, WireStep
<1>6. Ordered'
  BY <1>1, TypeParts DEF ForceClose, TypeRest, Ordered, Quiet, Control, IInv, WireStep, Sent
<1>. QED BY <1>1, <1>3, <1>4, <1>5, <1>6, Parts

LEMMA DestroyRestInv ==
  ASSUME IInv, NEW p \in {"main", "reader", "watcher"}, DestroyRest(p)
  PROVE  IInv'
<1>1. WireStep /\ (wire' = <<>> => wire = <<>>)
  BY SameWire DEF DestroyRest
<1>2. TypeRest' /\ Control'
  BY <1>1, TypeParts DEF DestroyRest, DestroyMap, TypeRest, Control, IInv, Back
<1>3. Quiet'
  BY <1>1, TypeParts DEF DestroyRest, TypeRest, Quiet, Ordered, IInv, WireStep
<1>4. Ordered'
  BY <1>1, TypeParts DEF DestroyRest, TypeRest, Ordered, Quiet, Control, IInv, WireStep, Sent
<1>. QED BY <1>1, <1>2, <1>3, <1>4, Parts

LEMMA EndOfStreamInv ==
  ASSUME IInv, NEW p \in {"main", "reader", "watcher"}, EndOfStream(p)
  PROVE  IInv'
<1>0. pc["main"] # "greet"
  BY TypeParts DEF EndOfStream, IInv, Quiet, TypeRest
<1>a. PICK ok \in BOOLEAN : Write("eos", ok) /\ Goto(p, IF ok THEN "frame" ELSE "force")
  BY DEF EndOfStream
<1>1. /\ WireStep /\ UNCHANGED <<closed, broken>>
      /\ wire' = <<>> => broken
      /\ ok => Sent("eos")' \/ closed \/ broken
  BY <1>0, <1>a, WriteStep DEF Frame
<1>2. TypeRest' /\ Control'
  BY <1>a, <1>1, TypeParts DEF EndOfStream, TypeRest, Control, IInv, Back
<1>3. Quiet'
  BY <1>a, <1>1, TypeParts DEF EndOfStream, TypeRest, Quiet, Ordered, IInv, WireStep
<1>4. Ordered'
  BY <1>a, <1>1, TypeParts DEF EndOfStream, TypeRest, Ordered, Quiet, Control, IInv, WireStep
<1>. QED BY <1>1, <1>2, <1>3, <1>4, Parts

LEMMA EnvInv ==
  ASSUME IInv, GctxDone \/ Shutdown \/ Break
  PROVE  IInv'
<1>1. WireStep /\ UNCHANGED wire
  BY SameWire DEF GctxDone, Shutdown, Break
<1>2. UNCHANGED <<pc, ret, conns, extra, closed, cancelled, ready, destroyed, joined, heard, cut>>
  BY DEF GctxDone, Shutdown, Break
<1>3. gctxDone' \in BOOLEAN /\ shutdown' \in BOOLEAN /\ broken' \in BOOLEAN
  BY DEF GctxDone, Shutdown, Break, IInv, TypeOK
<1>4. TypeRest'
  BY <1>2, <1>3, TypeParts DEF TypeRest
<1>5. Control'
  BY DEF GctxDone, Shutdown, Break, Control, IInv, Back
<1>6. Quiet' /\ Ordered'
  BY <1>1 DEF GctxDone, Shutdown, Break, IInv, Quiet, Ordered, Sent
<1>. QED BY <1>1, <1>4, <1>5, <1>6, Parts

LEMMA StutterInv ==
  ASSUME IInv, UNCHANGED vars
  PROVE  IInv'
<1>1. WireStep /\ UNCHANGED wire
  BY SameWire DEF vars
<1>2. TypeRest' /\ Control'
  BY TypeParts DEF vars, TypeRest, Control, IInv, Back
<1>3. Quiet' /\ Ordered'
  BY <1>1 DEF vars, IInv, Quiet, Ordered, Sent
<1>. QED BY <1>1, <1>2, <1>3, Parts
-----------------------------------------------------------------------------
LEMMA InitInv == Init => IInv
<1>. SUFFICES ASSUME Init PROVE IInv OBVIOUS
<1>1. /\ pc \in [Proc -> Place]
      /\ pc["main"] = "greet" /\ pc["watcher"] = "off"
      /\ pc["reader"] = "wait" /\ pc["tracker"] = "wait"
  BY DEF Init
<1>2. TypeOK
  <2>1. ret \in [Proc -> {"read", "destroy", "rest", "end"}] /\ wire \in Seq(Frame)
    BY DEF Init
  <2>. QED BY <1>1, <2>1 DEF Init, TypeOK
<1>3. Control /\ Quiet /\ Ordered
  BY <1>1 DEF Init, Control, Quiet, Ordered
<1>4. HelloFirst /\ CloseAnnounced
  BY DEF Init, HelloFirst, CloseAnnounced
<1>. QED BY <1>2, <1>3, <1>4 DEF IInv

LEMMA NextInv == IInv /\ [Next]_vars => IInv'
<1>. SUFFICES ASSUME IInv, [Next]_vars PROVE IInv' OBVIOUS
<1>1. CASE Main
  BY <1>1, GreetInv, OnCloseInv, OnGctxDoneInv, EndOfStreamInv, CloseFrameInv,
     ForceCloseInv, DestroyRestInv, OnDispatchInv DEF Main, Closing
<1>2. CASE OnTTL \/ OnHeartbeat \/ TakeDispatch
  BY <1>2, OnTTLInv, OnHeartbeatInv, TakeDispatchInv
<1>3. CASE Reader
  BY <1>3, OnReadyInv, WhisperSubscribeInv, SendAckInv, ReadErrorInv, ReadCloseInv, EndOfStreamInv,
     CloseFrameInv, ForceCloseInv, DestroyRestInv DEF Reader, ReadFails, Closing
<1>4. CASE Command \/ Refuse \/ Unconvertible \/ UnknownOp \/ ReadError \/ ReadClose
  BY <1>4, CommandInv, RefuseInv, UnconvertibleInv, UnknownOpInv, ReadErrorInv, ReadCloseInv
<1>5. CASE Tracker
  BY <1>5, CountInv, UncountInv DEF Tracker
<1>6. CASE Watcher
  BY <1>6, WatchInv, EndOfStreamInv, CloseFrameInv, ForceCloseInv, DestroyRestInv
     DEF Watcher, Closing
<1>7. CASE GctxDone \/ Shutdown \/ Break
  BY <1>7, EnvInv
<1>8. CASE UNCHANGED vars
  BY <1>8, StutterInv
<1>. QED BY <1>1, <1>2, <1>3, <1>4, <1>5, <1>6, <1>7, <1>8 DEF Next

LEMMA Inductive == Spec => []IInv
BY InitInv, NextInv, PTL DEF Spec

(* Every variable keeps its type; conns never leaves {0, 1}.               *)
THEOREM TypeCorrect == Spec => []TypeOK
<1>1. IInv => TypeOK
  BY DEF IInv
<1>. QED BY <1>1, Inductive, PTL

(* The first frame is the Hello, whichever goroutines write                *)
(* (websocket_read.go:37-43, 127-131).                                     *)
THEOREM GreetsFirst == Spec => []HelloFirst
<1>1. IInv => HelloFirst
  BY DEF IInv
<1>. QED BY <1>1, Inductive, PTL

(* Each close frame has an End of Stream before it (websocket.go:111-144). *)
THEOREM AnnouncesClose == Spec => []CloseAnnounced
<1>1. IInv => CloseAnnounced
  BY DEF IInv
<1>. QED BY <1>1, Inductive, PTL

-----------------------------------------------------------------------------
(* The connection implements Lifecycle, fairness apart.  Only the steps    *)
(* below touch what Lifecycle sees of it.                                  *)
LEMMA SameLife ==
  ASSUME UNCHANGED <<ready, cancelled, conns, shutdown>>, pc'["tracker"] = pc["tracker"]
  PROVE  UNCHANGED L!lvars
BY DEF L!lvars

LEMMA OpenStep ==
  ASSUME IInv, Greet
  PROVE  L!Open("self") \/ UNCHANGED L!lvars
<1>1. ~cancelled /\ ~ready /\ pc'["tracker"] = pc["tracker"]
      /\ UNCHANGED <<cancelled, conns, shutdown>> /\ ready' \in BOOLEAN
  BY TypeParts DEF Greet, IInv, Quiet, Ordered, TypeRest
<1>2. CASE ready'
  BY <1>1, <1>2 DEF L!Open
<1>3. CASE ~ready'
  <2>1. UNCHANGED ready
    BY <1>1, <1>3, TypeParts DEF TypeRest
  <2>. QED BY <1>1, <2>1, SameLife
<1>. QED BY <1>2, <1>3

LEMMA CloseStep ==
  ASSUME IInv, NEW p \in {"main", "reader", "watcher"}, ForceClose(p) \/ DestroyRest(p)
  PROVE  L!Close("self") \/ UNCHANGED L!lvars
<1>1. pc'["tracker"] = pc["tracker"] /\ UNCHANGED <<conns, shutdown>>
  BY TypeParts DEF ForceClose, DestroyRest, TypeRest
<1>2. CASE ~cancelled /\ cancelled'
  BY <1>1, <1>2 DEF L!Close
<1>3. CASE cancelled
  <2>1. cancelled' = TRUE /\ cancelled = TRUE
    BY <1>3, TypeParts DEF ForceClose, DestroyRest, TypeRest
  <2>. QED BY <1>1, <2>1 DEF L!lvars
<1>4. CASE ~cancelled /\ ~cancelled'
  <2>1. ForceClose(p) /\ UNCHANGED <<ready, cancelled>>
    BY <1>4, TypeParts DEF ForceClose, DestroyRest, IInv, Ordered, TypeRest
  <2>. QED BY <1>1, <2>1, SameLife
<1>. QED BY <1>2, <1>3, <1>4

LEMMA TrackStep ==
  ASSUME IInv, Tracker
  PROVE  L!Count("self") \/ L!Uncount("self")
<1>1. CASE Count
  <2>1. /\ pc["tracker"] = "wait" /\ pc'["tracker"] = "counted" /\ conns' = 1 /\ ready
        /\ UNCHANGED <<ready, cancelled, shutdown>>
    BY <1>1, TypeParts DEF Count, TypeRest, IInv, Control
  <2>. QED BY <2>1 DEF L!Count
<1>2. CASE Uncount
  <2>1. /\ pc["tracker"] = "counted" /\ pc'["tracker"] = "end" /\ conns = 1 /\ conns' = 0
        /\ cancelled /\ UNCHANGED <<ready, cancelled, shutdown>>
    BY <1>2, TypeParts DEF Uncount, TypeRest, IInv, Control
  <2>. QED BY <2>1 DEF L!Uncount
<1>. QED BY <1>1, <1>2 DEF Tracker

LEMMA OtherStep ==
  ASSUME IInv,
         \/ OnClose \/ OnGctxDone \/ OnTTL \/ OnHeartbeat \/ TakeDispatch \/ OnDispatch
         \/ OnReady \/ WhisperSubscribe \/ Command \/ SendAck \/ Refuse \/ Unconvertible
         \/ UnknownOp \/ ReadError \/ ReadClose \/ Watch \/ GctxDone \/ Break
         \/ \E p \in {"main", "reader", "watcher"} : EndOfStream(p) \/ CloseFrame(p)
  PROVE  UNCHANGED L!lvars
<1>1. UNCHANGED <<ready, cancelled, conns, shutdown>>
  BY DEF OnClose, OnGctxDone, OnTTL, OnHeartbeat, TakeDispatch, OnDispatch, OnReady, WhisperSubscribe,
         Command, SendAck, Refuse, Unconvertible, UnknownOp, ReadError, ReadClose, Watch, GctxDone,
         Break, EndOfStream, CloseFrame
<1>2. pc'["tracker"] = pc["tracker"]
  BY TypeParts DEF TypeRest, OnClose, OnGctxDone, OnTTL, OnHeartbeat, TakeDispatch, OnDispatch, OnReady,
         WhisperSubscribe, Command, SendAck, Extra, Refuse, Unconvertible, UnknownOp, ReadError, ReadClose,
         Watch, GctxDone, Break, EndOfStream, CloseFrame
<1>. QED BY <1>1, <1>2, SameLife

LEMMA NextLife == IInv /\ [Next]_vars => [L!Next]_(L!lvars)
<1>. SUFFICES ASSUME IInv, [Next]_vars PROVE L!Next \/ UNCHANGED L!lvars OBVIOUS
<1>1. CASE Main \/ Reader \/ Watcher
  BY <1>1, OpenStep, CloseStep, OtherStep
     DEF Main, Reader, ReadFails, Watcher, Closing, L!Next
<1>2. CASE OnTTL \/ OnHeartbeat \/ TakeDispatch \/ Command \/ Refuse \/ Unconvertible
           \/ UnknownOp \/ ReadError \/ ReadClose \/ GctxDone \/ Break
  BY <1>2, OtherStep
<1>3. CASE Tracker
  BY <1>3, TrackStep DEF L!Next
<1>4. CASE Shutdown
  <2>1. L!Shutdown
    BY <1>4 DEF Shutdown, L!Shutdown
  <2>. QED BY <2>1 DEF L!Next
<1>5. CASE UNCHANGED vars
  <2>1. UNCHANGED <<ready, cancelled, conns, shutdown>> /\ pc'["tracker"] = pc["tracker"]
    BY <1>5 DEF vars
  <2>. QED BY <2>1, SameLife
<1>. QED BY <1>1, <1>2, <1>3, <1>4, <1>5 DEF Next

(* A connection opens and closes once, is counted only after it opened and *)
(* counted out only after it closed (connect.go:15-79).                    *)
THEOREM ImplementsLifecycle == Spec => L!Init /\ [][L!Next]_(L!lvars)
<1>1. Init => L!Init
  BY DEF Init, L!Init
<1>. QED BY <1>1, Inductive, NextLife, PTL DEF Spec
-----------------------------------------------------------------------------
(* What LeftBehind needs: once the map was destroyed with no other         *)
(* goroutine past its look at the context, nobody subscribes any more.     *)
Left == destroyed => cancelled /\ (cut \/ (~joined /\ \A p \in Proc : ~CanJoin(p)))

LEMMA LeftInit == Init => Left
BY DEF Init, Left

(* A step that destroys nothing, and after which nobody can subscribe who  *)
(* could not before.                                                       *)
LEMMA LeftKept ==
  ASSUME Left, UNCHANGED <<destroyed, cut>>, cancelled => cancelled',
         destroyed => \A p \in Proc : CanJoin(p)' => CanJoin(p),
         destroyed /\ joined' => joined \/ \E p \in Proc : CanJoin(p)
  PROVE  Left'
BY DEF Left

LEMMA LeftMain ==
  ASSUME IInv, Left,
         Greet \/ OnClose \/ OnGctxDone \/ OnTTL \/ OnHeartbeat \/ TakeDispatch \/ OnDispatch
  PROVE  Left'
<1>1. /\ UNCHANGED <<destroyed, cut, cancelled, heard>> /\ (joined' => joined \/ CanJoin("main"))
      /\ pc'["reader"] = pc["reader"] /\ ret'["reader"] = ret["reader"]
  <2>1. CASE Greet \/ OnClose \/ OnGctxDone \/ OnTTL \/ OnHeartbeat \/ TakeDispatch
    BY <2>1, TypeParts DEF Greet, OnClose, OnGctxDone, OnTTL, OnHeartbeat, TakeDispatch, TypeRest
  <2>2. CASE OnDispatch
    BY <2>2, TypeParts DEF OnDispatch, TypeRest, CanJoin
  <2>. QED BY <2>1, <2>2
<1>2. destroyed /\ CanJoin("main")' => CanJoin("main")
  <2>1. CASE Greet
    BY <2>1 DEF Greet, IInv, Quiet, Ordered, Left
  <2>2. CASE OnClose \/ OnGctxDone \/ OnTTL \/ OnHeartbeat
    BY <2>2, TypeParts DEF OnClose, OnGctxDone, OnTTL, OnHeartbeat, TypeRest, CanJoin
  <2>3. CASE TakeDispatch \/ OnDispatch
    BY <2>3 DEF TakeDispatch, OnDispatch, CanJoin
  <2>. QED BY <2>1, <2>2, <2>3
<1>3. \A p \in Proc \ {"main"} : CanJoin(p)' = CanJoin(p)
  BY <1>1 DEF CanJoin
<1>. QED BY <1>1, <1>2, <1>3, LeftKept

LEMMA LeftReader ==
  ASSUME IInv, Left,
         \/ OnReady \/ WhisperSubscribe \/ Command \/ SendAck \/ Refuse
         \/ Unconvertible \/ UnknownOp \/ ReadError \/ ReadClose
  PROVE  Left'
<1>1. /\ UNCHANGED <<destroyed, cut, cancelled>> /\ pc'["main"] = pc["main"]
      /\ joined' => joined \/ CanJoin("reader")
      /\ heard' => heard \/ CanJoin("reader")
  <2>1. CASE WhisperSubscribe \/ Command
    BY <2>1, TypeParts DEF WhisperSubscribe, Command, TypeRest, CanJoin
  <2>2. CASE OnReady \/ SendAck \/ Refuse \/ Unconvertible \/ UnknownOp \/ ReadError \/ ReadClose
    BY <2>2, TypeParts DEF OnReady, SendAck, Refuse, Unconvertible, UnknownOp, ReadError, ReadClose, TypeRest
  <2>. QED BY <2>1, <2>2
<1>2. destroyed /\ CanJoin("reader")' => CanJoin("reader")
  <2>1. CASE OnReady
    BY <2>1, TypeParts DEF OnReady, TypeRest, Left, CanJoin
  <2>2. CASE ~OnReady
    BY <2>2 DEF WhisperSubscribe, Command, SendAck, Refuse, Unconvertible, UnknownOp, ReadError,
                ReadClose, CanJoin
  <2>. QED BY <2>1, <2>2
<1>3. CASE CanJoin("reader") /\ destroyed
  BY <1>1, <1>3 DEF Left
<1>4. CASE ~CanJoin("reader") \/ ~destroyed
  <2>1. destroyed => \A p \in Proc : CanJoin(p)' => CanJoin(p)
    BY <1>1, <1>2, <1>4 DEF CanJoin
  <2>. QED BY <1>1, <1>4, <2>1, LeftKept
<1>. QED BY <1>3, <1>4

(* SendClose and Destroy, step by step.                                    *)
LEMMA LeftClosing ==
  ASSUME IInv, Left, NEW p \in {"main", "reader", "watcher"}, Closing(p)
  PROVE  Left'
<1>1. /\ cancelled => cancelled'
      /\ \A q \in Proc \ {p} : pc'[q] = pc[q] /\ ret'[q] = ret[q]
      /\ UNCHANGED heard /\ pc'[p] # "select"
  BY TypeParts DEF Closing, EndOfStream, CloseFrame, ForceClose, DestroyRest, DestroyMap, TypeRest, IInv,
                   Control, Back
<1>2. \A q \in Proc : CanJoin(q)' => CanJoin(q)
  <2>1. \A q \in Proc \ {p} : CanJoin(q)' => CanJoin(q)
    BY <1>1 DEF CanJoin
  <2>2. CASE p = "reader"
    <3>1. \/ pc[p] \in SendCloseAt /\ ret[p] = "read"
          \/ pc'[p] \in {"rest", "end"}
          \/ pc'[p] \in SendCloseAt /\ (ret'[p] = ret[p] \/ ret'[p] = "rest") /\ pc[p] \in SendCloseAt
      BY <2>2, TypeParts DEF Closing, EndOfStream, CloseFrame, ForceClose, DestroyRest, TypeRest, IInv,
                             Control, Back
    <3>. QED BY <2>1, <2>2, <3>1 DEF CanJoin
  <2>3. CASE p # "reader"
    <3>1. pc'[p] # "effect"
      BY <2>3, TypeParts DEF Closing, EndOfStream, CloseFrame, ForceClose, DestroyRest, TypeRest, IInv,
                             Control, Back
    <3>. QED BY <1>1, <2>1, <2>3, <3>1 DEF CanJoin
  <2>. QED BY <2>2, <2>3
<1>3. CASE UNCHANGED <<destroyed, cut, joined>>
  BY <1>1, <1>2, <1>3, LeftKept
<1>4. CASE DestroyRest(p)
  <2>1. cancelled /\ pc[p] = "rest"
    BY <1>4 DEF DestroyRest, IInv, Ordered
  <2>2. joined' = (joined /\ destroyed) /\ cut' = (cut \/ (~destroyed /\ \E q \in Proc : CanJoin(q)))
    BY <1>4 DEF DestroyRest, DestroyMap
  <2>. QED BY <1>1, <1>2, <2>1, <2>2 DEF Left
<1>. QED BY <1>3, <1>4 DEF Closing, EndOfStream, CloseFrame, ForceClose

LEMMA LeftOthers ==
  ASSUME IInv, Left, Count \/ Uncount \/ Watch \/ GctxDone \/ Shutdown \/ Break \/ UNCHANGED vars
  PROVE  Left'
<1>1. UNCHANGED <<destroyed, cancelled, joined, heard, cut>>
  BY DEF Count, Uncount, Watch, GctxDone, Shutdown, Break, vars
<1>2. \A p \in {"main", "reader"} : pc'[p] = pc[p] /\ ret'[p] = ret[p]
  BY TypeParts DEF Count, Uncount, Watch, GctxDone, Shutdown, Break, vars, TypeRest
<1>3. \A p \in Proc : CanJoin(p)' = CanJoin(p)
  BY <1>1, <1>2 DEF CanJoin
<1>. QED BY <1>1, <1>3, LeftKept

LEMMA LeftNext == IInv /\ Left /\ [Next]_vars => Left'
BY LeftMain, LeftReader, LeftClosing, LeftOthers
   DEF Next, Main, Reader, ReadFails, Tracker, Watcher

(* Whatever stays joined after the map was destroyed is of a goroutine     *)
(* that was past its look at the context at that moment, for any number of *)
(* commands and dispatches: with none such, nobody subscribes afterwards   *)
(* (websocket_read.go:37-52, 71-124, 155-175, handle.go:70-101, 228,       *)
(* connection.go:271-283).                                                 *)
THEOREM LeavesOnlyIfCut == Spec => []LeftBehind
<1>1. Left => LeftBehind
  BY DEF Left, LeftBehind
<1>. QED BY <1>1, Inductive, LeftInit, LeftNext, PTL DEF Spec
-----------------------------------------------------------------------------
(* What NeverStuck needs: who ended left behind what the others wait for.  *)
Woken ==
  /\ pc["main"] \in {"select", "effect"} => ready
  /\ pc["main"] = "end" => cancelled /\ ready /\ destroyed
  /\ pc["reader"] = "end" => cancelled
  /\ pc["watcher"] = "end" => cancelled
  /\ pc["watcher"] = "off" => pc["tracker"] = "wait"

(* Nothing of what a goroutine waits for is taken back.                    *)
LEMMA Lasting ==
  ASSUME IInv, [Next]_vars
  PROVE  (cancelled => cancelled') /\ (destroyed => destroyed') /\ (ready /\ pc["main"] # "greet" => ready')
<1>1. CASE Greet
  BY <1>1, TypeParts DEF Greet, TypeRest, IInv, Quiet, Ordered
<1>2. ASSUME NEW p \in Proc, Closing(p)
      PROVE  (cancelled => cancelled') /\ (destroyed => destroyed') /\ (ready => ready')
  BY <1>2, TypeParts DEF Closing, EndOfStream, CloseFrame, ForceClose, DestroyRest, DestroyMap, TypeRest
<1>3. CASE OnClose \/ OnGctxDone \/ OnTTL \/ OnHeartbeat \/ TakeDispatch \/ OnDispatch
  <2>1. UNCHANGED <<cancelled, destroyed, ready>>
    BY <1>3 DEF OnClose, OnGctxDone, OnTTL, OnHeartbeat, TakeDispatch, OnDispatch
  <2>. QED BY <2>1
<1>4. CASE \/ OnReady \/ WhisperSubscribe \/ Command \/ SendAck \/ Refuse
           \/ Unconvertible \/ UnknownOp \/ ReadError \/ ReadClose
  <2>1. CASE OnReady \/ WhisperSubscribe \/ Command \/ SendAck
    <3>1. UNCHANGED <<cancelled, destroyed, ready>>
      BY <2>1 DEF OnReady, WhisperSubscribe, Command, SendAck
    <3>. QED BY <3>1
  <2>2. CASE Refuse \/ Unconvertible \/ UnknownOp \/ ReadError \/ ReadClose
    BY <2>2 DEF Refuse, Unconvertible, UnknownOp, ReadError, ReadClose
  <2>. QED BY <1>4, <2>1, <2>2
<1>5. CASE Tracker \/ Watch \/ GctxDone \/ Shutdown \/ Break \/ UNCHANGED vars
  BY <1>5 DEF Tracker, Count, Uncount, Watch, GctxDone, Shutdown, Break, vars
<1>. QED BY <1>1, <1>2, <1>3, <1>4, <1>5 DEF Next, Main, Reader, ReadFails, Watcher

LEMMA WokenInit == Init => Woken
BY DEF Init, Woken

LEMMA WokenNext == IInv /\ Woken /\ [Next]_vars => Woken'
<1>. SUFFICES ASSUME IInv, Woken, [Next]_vars PROVE Woken' OBVIOUS
<1>. USE TypeParts, Lasting DEF TypeRest, Woken
<1>1. CASE Greet
  BY <1>1 DEF Greet
<1>2. CASE Main /\ ~Greet
  <2>1. CASE OnClose \/ OnGctxDone \/ OnDispatch
    BY <2>1 DEF OnClose, OnGctxDone, OnDispatch
  <2>2. CASE EndOfStream("main") \/ CloseFrame("main")
    BY <2>2 DEF EndOfStream, CloseFrame
  <2>3. CASE ForceClose("main")
    BY <2>3 DEF ForceClose, IInv, Control, Back
  <2>4. CASE DestroyRest("main")
    BY <2>4 DEF DestroyRest, DestroyMap, IInv, Ordered
  <2>. QED BY <1>2, <2>1, <2>2, <2>3, <2>4 DEF Main, Closing
<1>3. CASE OnTTL \/ OnHeartbeat \/ TakeDispatch
  BY <1>3 DEF OnTTL, OnHeartbeat, TakeDispatch
<1>4. CASE \/ OnReady \/ WhisperSubscribe \/ Command \/ SendAck \/ Refuse
           \/ Unconvertible \/ UnknownOp \/ ReadError \/ ReadClose
  <2>1. CASE OnReady \/ WhisperSubscribe \/ SendAck
    BY <2>1 DEF OnReady, WhisperSubscribe, SendAck
  <2>2. CASE Command
    BY <2>2 DEF Command
  <2>3. CASE Refuse \/ Unconvertible \/ UnknownOp \/ ReadError \/ ReadClose
    BY <2>3 DEF Refuse, Unconvertible, UnknownOp, ReadError, ReadClose
  <2>. QED BY <1>4, <2>1, <2>2, <2>3
<1>5. CASE Closing("reader")
  <2>1. CASE EndOfStream("reader") \/ CloseFrame("reader")
    BY <2>1 DEF EndOfStream, CloseFrame
  <2>2. CASE ForceClose("reader")
    BY <2>2 DEF ForceClose, IInv, Control, Back
  <2>3. CASE DestroyRest("reader")
    BY <2>3 DEF DestroyRest, DestroyMap, IInv, Ordered
  <2>. QED BY <1>5, <2>1, <2>2, <2>3 DEF Closing
<1>6. CASE Tracker
  BY <1>6 DEF Tracker, Count, Uncount
<1>7. CASE Watcher
  <2>1. CASE Watch
    BY <2>1 DEF Watch
  <2>2. CASE EndOfStream("watcher") \/ CloseFrame("watcher")
    BY <2>2 DEF EndOfStream, CloseFrame
  <2>3. CASE ForceClose("watcher")
    BY <2>3 DEF ForceClose, IInv, Control, Back
  <2>. QED BY <1>7, <2>1, <2>2, <2>3 DEF Watcher, Closing, DestroyRest
<1>8. CASE GctxDone \/ Shutdown \/ Break \/ UNCHANGED vars
  BY <1>8 DEF GctxDone, Shutdown, Break, vars
<1>. QED BY <1>1, <1>2, <1>3, <1>4, <1>5, <1>6, <1>7, <1>8 DEF Next, Reader, ReadFails

(* A connection that is to end always has a goroutine that can go on,      *)
(* until it is gone (websocket_read.go:31-63, 133-139, connect.go:20-69).  *)
THEOREM GoesOn == Spec => []NeverStuck
<1>1. IInv /\ Woken => NeverStuck
  <2>. SUFFICES ASSUME IInv, Woken, cancelled \/ shutdown \/ gctxDone, \A p \in Proc : Waits(p)
                PROVE  Gone
    BY DEF NeverStuck
  <2>1. cancelled
    BY TypeParts DEF Waits, Woken, TypeRest, IInv, Quiet
  <2>2. \A p \in Proc : pc[p] = "end"
    BY <2>1, TypeParts DEF Waits, Woken, TypeRest, IInv, Ordered
  <2>. QED BY <2>2 DEF Gone, Woken, IInv, Control
<1>. QED BY <1>1, Inductive, WokenInit, WokenNext, PTL DEF Spec
-----------------------------------------------------------------------------
(* What WindsDown needs: a step moves one goroutine, and that one nearer   *)
(* to its end.                                                             *)
OnlyMoves(p) == \A q \in Proc \ {p} : pc'[q] = pc[q] /\ ret'[q] = ret[q]

LEMMA DistanceType ==
  ASSUME TypeRest, NEW p \in Proc
  PROVE  Distance(p) \in Nat
BY DEF TypeRest, Distance

LEMMA StepTypes ==
  ASSUME IInv, IInv', NEW p \in Proc
  PROVE  Distance(p) \in Nat /\ Distance(p)' \in Nat
<1>1. TypeRest'
  BY DEF TypeRest, IInv, TypeOK
<1>. QED BY <1>1, TypeParts, DistanceType DEF TypeRest, Distance

LEMMA Moved ==
  ASSUME IInv, IInv', NEW p \in Proc, OnlyMoves(p)
  PROVE  StepsLeft' - StepsLeft = Distance(p)' - Distance(p)
<1>1. \A q \in Proc : Distance(q) \in Nat /\ Distance(q)' \in Nat
  BY StepTypes
<1>2. \A q \in Proc \ {p} : Distance(q)' = Distance(q)
  BY DEF OnlyMoves, Distance
<1>. HIDE DEF IInv
<1>. QED BY <1>1, <1>2 DEF StepsLeft, Proc

LEMMA StepsLeftType ==
  ASSUME IInv, IInv'
  PROVE  StepsLeft \in Nat /\ StepsLeft' \in Nat /\ extra \in Nat
<1>1. \A q \in Proc : Distance(q) \in Nat /\ Distance(q)' \in Nat
  BY StepTypes
<1>2. extra \in Nat
  BY TypeParts DEF TypeRest
<1>. HIDE DEF IInv
<1>. QED BY <1>1, <1>2 DEF StepsLeft, Proc

LEMMA Nearer ==
  ASSUME IInv, IInv', NEW p \in Proc, OnlyMoves(p), extra' = extra, Distance(p)' < Distance(p)
  PROVE  StepsLeft' < StepsLeft + 2 * (extra' - extra)
<1>1. Distance(p) \in Nat /\ Distance(p)' \in Nat
  BY StepTypes
<1>. HIDE DEF IInv
<1>. QED BY <1>1, StepsLeftType, Moved

LEMMA AddsOne ==
  ASSUME IInv, IInv', NEW p \in Proc, OnlyMoves(p), extra' = extra + 1, Distance(p)' <= Distance(p) + 1
  PROVE  StepsLeft' < StepsLeft + 2 * (extra' - extra)
<1>1. Distance(p) \in Nat /\ Distance(p)' \in Nat
  BY StepTypes
<1>. HIDE DEF IInv
<1>. QED BY <1>1, StepsLeftType, Moved

LEMMA ClosingNearer ==
  ASSUME IInv, IInv', NEW p \in Proc \ {"tracker"}, Closing(p)
  PROVE  StepsLeft' < StepsLeft + 2 * (extra' - extra)
<1>1. OnlyMoves(p) /\ extra' = extra
  BY TypeParts DEF Closing, EndOfStream, CloseFrame, ForceClose, DestroyRest, OnlyMoves, TypeRest
<1>2. Distance(p)' < Distance(p)
  <2>1. CASE EndOfStream(p) \/ CloseFrame(p)
    BY <2>1, TypeParts DEF EndOfStream, CloseFrame, TypeRest, Distance
  <2>2. CASE ForceClose(p)
    BY <2>2, TypeParts DEF ForceClose, TypeRest, Distance, IInv, Control, Back
  <2>3. CASE DestroyRest(p)
    BY <2>3, TypeParts DEF DestroyRest, TypeRest, Distance
  <2>. QED BY <2>1, <2>2, <2>3 DEF Closing
<1>. QED BY <1>1, <1>2, Nearer

LEMMA MainNearer ==
  ASSUME IInv, IInv', cancelled, Greet \/ OnClose \/ OnGctxDone \/ OnTTL \/ OnDispatch
  PROVE  StepsLeft' < StepsLeft + 2 * (extra' - extra)
<1>0. TypeRest /\ UNCHANGED extra
  BY TypeParts DEF Greet, OnClose, OnGctxDone, OnTTL, OnDispatch, IInv, Quiet, Ordered
<1>1. \/ pc["main"] = "select" /\ Call("main", "force", "rest")
      \/ pc["main"] = "effect" /\ Goto("main", "select")
  BY DEF Greet, OnClose, OnGctxDone, OnTTL, OnDispatch, SendClose, Destroy, IInv, Quiet, Ordered
<1>2. OnlyMoves("main") /\ extra' = extra
  BY <1>0, <1>1 DEF OnlyMoves, TypeRest
<1>3. Distance("main")' < Distance("main")
  BY <1>0, <1>1 DEF Distance, TypeRest
<1>. QED BY <1>2, <1>3, Nearer

LEMMA ReaderNearer ==
  ASSUME IInv, IInv', cancelled,
         \/ OnReady \/ WhisperSubscribe \/ SendAck
         \/ Unconvertible \/ UnknownOp \/ ReadError \/ ReadClose
  PROVE  StepsLeft' < StepsLeft + 2 * (extra' - extra)
<1>0. TypeRest /\ UNCHANGED extra
  BY TypeParts DEF OnReady, WhisperSubscribe, SendAck, Unconvertible, UnknownOp, ReadError, ReadClose
<1>1. CASE OnReady \/ WhisperSubscribe \/ SendAck
  <2>1. \/ pc["reader"] = "wait" /\ Goto("reader", "end")
        \/ pc["reader"] \in {"whisper", "ack"} /\ Goto("reader", "read")
    BY <1>1 DEF OnReady, WhisperSubscribe, SendAck
  <2>2. OnlyMoves("reader") /\ extra' = extra
    BY <1>0, <2>1 DEF OnlyMoves, TypeRest
  <2>3. Distance("reader")' < Distance("reader")
    BY <1>0, <2>1 DEF Distance, TypeRest
  <2>. QED BY <2>2, <2>3, Nearer
<1>2. CASE Unconvertible \/ UnknownOp \/ ReadError \/ ReadClose
  <2>1. pc["reader"] = "read" /\ Call("reader", "force", "rest")
    BY <1>2 DEF Unconvertible, UnknownOp, ReadError, ReadClose
  <2>2. OnlyMoves("reader") /\ extra' = extra
    BY <1>0, <2>1 DEF OnlyMoves, TypeRest
  <2>3. Distance("reader")' < Distance("reader")
    BY <1>0, <2>1 DEF Distance, TypeRest
  <2>. QED BY <2>2, <2>3, Nearer
<1>. QED BY <1>1, <1>2

(* Heartbeats, dispatches and commands, which add at most a step each.     *)
LEMMA ExtraAddsOne ==
  ASSUME IInv, IInv', cancelled, OnHeartbeat \/ TakeDispatch \/ Command \/ Refuse
  PROVE  StepsLeft' < StepsLeft + 2 * (extra' - extra)
<1>1. PICK p \in {"main", "reader"} : OnlyMoves(p) /\ Distance(p)' <= Distance(p) + 1
  <2>1. CASE OnHeartbeat \/ TakeDispatch
    <3>1. /\ TypeRest /\ pc["main"] = "select"
          /\ UNCHANGED <<pc, ret>> \/ Call("main", "force", "rest") \/ Goto("main", "effect")
      BY <2>1, TypeParts DEF OnHeartbeat, TakeDispatch, gvars, Destroy
    <3>2. OnlyMoves("main")
      BY <3>1 DEF OnlyMoves, TypeRest
    <3>3. Distance("main")' <= Distance("main") + 1
      BY <3>1 DEF Distance, TypeRest
    <3>. QED BY <3>2, <3>3
  <2>2. CASE Command \/ Refuse
    <3>1. /\ TypeRest /\ pc["reader"] = "read"
          /\ UNCHANGED <<pc, ret>> \/ Goto("reader", "read") \/ Goto("reader", "ack")
      BY <2>2, TypeParts DEF Command, Refuse, SendClose, gvars
    <3>2. OnlyMoves("reader")
      BY <3>1 DEF OnlyMoves, TypeRest
    <3>3. Distance("reader")' <= Distance("reader") + 1
      BY <3>1 DEF Distance, TypeRest
    <3>. QED BY <3>2, <3>3
  <2>. QED BY <2>1, <2>2
<1>2. extra' = extra + 1
  BY DEF OnHeartbeat, TakeDispatch, Command, Refuse, Extra
<1>. QED BY <1>1, <1>2, AddsOne

LEMMA TrackerNearer ==
  ASSUME IInv, IInv', Tracker
  PROVE  StepsLeft' < StepsLeft + 2 * (extra' - extra)
<1>1. CASE Count
  <2>1. /\ pc["tracker"] = "wait" /\ extra \in Nat /\ UNCHANGED <<ret, extra>>
        /\ pc' = [pc EXCEPT !["tracker"] = "counted", !["watcher"] = "watch"]
    BY <1>1, TypeParts DEF Count, TypeRest
  <2>2. /\ pc'["tracker"] = "counted" /\ pc'["watcher"] = "watch"
        /\ pc'["main"] = pc["main"] /\ pc'["reader"] = pc["reader"]
    BY <2>1, TypeParts DEF TypeRest
  <2>3. /\ Distance("tracker") = 6 /\ Distance("tracker")' = 1 /\ Distance("watcher")' = 1
        /\ Distance("main")' = Distance("main") /\ Distance("reader")' = Distance("reader")
    BY <2>1, <2>2 DEF Distance
  <2>4. \A q \in Proc : Distance(q) \in Nat
    BY TypeParts, DistanceType
  <2>. HIDE DEF IInv
  <2>. QED BY <2>1, <2>3, <2>4 DEF StepsLeft
<1>2. CASE Uncount
  <2>1. OnlyMoves("tracker") /\ extra' = extra /\ Distance("tracker")' < Distance("tracker")
    BY <1>2, TypeParts DEF Uncount, OnlyMoves, TypeRest, Distance
  <2>. QED BY <2>1, Nearer
<1>. QED BY <1>1, <1>2 DEF Tracker

LEMMA WatchNearer ==
  ASSUME IInv, IInv', cancelled, Watch
  PROVE  StepsLeft' < StepsLeft + 2 * (extra' - extra)
<1>1. OnlyMoves("watcher") /\ extra' = extra /\ Distance("watcher")' < Distance("watcher")
  BY TypeParts DEF Watch, OnlyMoves, TypeRest, Distance
<1>. QED BY <1>1, Nearer

(* Once cancelled, a connection has a bounded number of steps left, to     *)
(* which a heartbeat, dispatch or command adds at most one of its own      *)
(* (websocket.go:111-160, websocket_read.go:31-139).  With GoesOn and the  *)
(* goroutines' fairness that is Ends, from there on.                       *)
THEOREM StepsRunOut == Spec => WindsDown
<1>1. IInv /\ IInv' /\ [Next]_vars => [cancelled => StepsLeft' < StepsLeft + 2 * (extra' - extra)]_vars
  <2>. SUFFICES ASSUME IInv, IInv', Next, cancelled
                PROVE  StepsLeft' < StepsLeft + 2 * (extra' - extra)
    OBVIOUS
  <2>1. ~GctxDone /\ ~Shutdown /\ ~Break
    BY DEF GctxDone, Shutdown, Break, IInv, Ordered
  <2>2. CASE Main \/ Reader \/ Watcher
    BY <2>2, ClosingNearer, MainNearer, ReaderNearer, WatchNearer DEF Main, Reader, ReadFails, Watcher
  <2>. QED BY <2>1, <2>2, MainNearer, ReaderNearer, ExtraAddsOne, TrackerNearer DEF Next
<1>. QED BY <1>1, Inductive, PTL DEF Spec, WindsDown
=============================================================================
