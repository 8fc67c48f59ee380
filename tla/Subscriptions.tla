--------------------------- MODULE Subscriptions ----------------------------
(***************************************************************************)
(* The callers of one connection's EventMap: the client's commands         *)
(* (handle.go Subscribe and Unsubscribe, after validation), the effects of *)
(* dispatches and their TTL goroutines (handle.go OnDispatch), and the     *)
(* goroutines that destroy the map on their way out.  They run in          *)
(* different goroutines and take e.mx per call, in any order.              *)
(*                                                                         *)
(*   open      the connection's context is not cancelled                   *)
(*   timers    the subscription IDs that TTL goroutines wait to remove     *)
(*   reader    whether the client's last command still has to be answered: *)
(*             with an Ack or with a SendClose                             *)
(*   asked     the key of the SUBSCRIBE about to be acknowledged           *)
(* History of what the client was told:                                    *)
(*   acked     keys whose last acknowledged command was a Subscribe        *)
(*   own       keys for which a client's Subscribe stored an entry, until  *)
(*             an Unsubscribe that may have removed it                     *)
(*   refused   the key of a Subscribe answered with Already Subscribed     *)
(*   undone    since asked was subscribed, a dispatch or an expiry has     *)
(*             removed an entry that matches it                            *)
(*   aged      event types a TTL expiry has touched                        *)
(*   crossed   event types of which an Unsubscribe removed the entry of    *)
(*             another condition, one that also matches what was asked for *)
(***************************************************************************)
EXTENDS EventMap

CONSTANT MaxTimer   \* bound: TTL goroutines alive at once

VARIABLES open, timers, reader, asked, acked, own, refused, undone, aged, crossed

answering == <<reader, asked>>
told == <<acked, own, refused>>

vars == <<emvars, open, timers, answering, told, undone, aged, crossed>>

NoKey == <<>>

(* Types; the reader has a key to acknowledge exactly while it is to.      *)
TypeOK ==
  /\ EventMapType
  /\ open \in BOOLEAN
  /\ timers \subseteq Id
  /\ reader \in {"read", "ack", "close"}
  /\ asked \in IF reader = "ack" THEN Key ELSE {NoKey}
  /\ acked \subseteq Key /\ own \subseteq Key
  /\ refused \in Key \cup {NoKey}
  /\ undone \in BOOLEAN
  /\ aged \subseteq Type /\ crossed \subseteq Type

Init ==
  /\ EventMapInit
  /\ open = TRUE /\ timers = {}
  /\ reader = "read" /\ asked = NoKey
  /\ acked = {} /\ own = {} /\ refused = NoKey
  /\ undone = FALSE /\ aged = {} /\ crossed = {}
-----------------------------------------------------------------------------
(* rand.Uint32(): the model leaves a collision out.                        *)
FreshId == Id \ (LiveIds \cup timers)

(* What an Unsubscribe names, and what its loop may stop at instead.       *)
Named(t, c) == {t} \X (IF c = NoCond THEN Cond ELSE {c})
Touched(t, c) == {t} \X (IF c = NoCond THEN Cond ELSE {d \in Cond : <<d, c>> \in Match})

(* An Unsubscribe, from a command or an effect, as the history sees it.    *)
Forget(t, c) ==
  /\ acked' = acked \ Named(t, c)
  /\ own' = own \ Touched(t, c)
  /\ undone' = (undone \/ /\ reader = "ack" /\ asked[1] = t /\ IsSubscribed(t, c)
                          /\ c = NoCond \/ <<m[t][FirstMatch(t, c)].cond, asked[2]>> \in Match)
  /\ crossed' = IF c # NoCond /\ IsSubscribed(t, c) /\ m[t][FirstMatch(t, c)].cond # c
                THEN crossed \cup {t} ELSE crossed

(* The reader runs the commands it has read, after the context was         *)
(* cancelled too.  e.mx is released before the answer is sent, and the     *)
(* main loop's dispatches run in between.  A client's SUBSCRIBE without a  *)
(* condition is refused before it gets here, because Actor() is always nil.*)
ClientSubscribe(t, c) ==
  /\ reader = "read" /\ c # NoCond
  /\ \E id \in FreshId : Subscribe(t, [id |-> id, cond |-> c, auto |-> FALSE, ttl |-> FALSE])
  /\ own' = IF IsNew(t, c) THEN own \cup {<<t, c>>} ELSE own
  /\ IF IsAlreadySubscribed(t, c)
     THEN /\ reader' = "close" /\ UNCHANGED asked
          /\ refused' = IF open THEN <<t, c>> ELSE refused
     ELSE /\ reader' = "ack" /\ asked' = <<t, c>>
          /\ UNCHANGED refused
  /\ undone' = FALSE
  /\ UNCHANGED <<open, timers, acked, aged, crossed>>

(* Its Ack is a frame and changes nothing here.                            *)
ClientUnsubscribe(t, c) ==
  /\ reader = "read"
  /\ Unsubscribe(t, c)
  /\ IF IsSubscribed(t, c)
     THEN Forget(t, c) /\ UNCHANGED reader
     ELSE reader' = "close" /\ UNCHANGED <<acked, own, undone, crossed>>
  /\ UNCHANGED <<open, timers, asked, refused, aged>>

(* Write is silent once the context is cancelled.                          *)
SendAck ==
  /\ reader = "ack" /\ reader' = "read"
  /\ asked' = NoKey
  /\ acked' = IF open THEN acked \cup {asked} ELSE acked
  /\ UNCHANGED <<emvars, open, timers, own, refused, undone, aged, crossed>>

SendClose ==
  /\ reader = "close" /\ reader' = "read"
  /\ open' = FALSE
  /\ UNCHANGED <<emvars, timers, asked, told, undone, aged, crossed>>

(* AddSubscriptions of a dispatch.  The TTL goroutine starts whether or    *)
(* not Subscribe stored an entry under the ID it returned.                 *)
EffectAdd(t, c, ttl) ==
  /\ ttl => Cardinality(timers) < MaxTimer
  /\ \E id \in FreshId :
       /\ Subscribe(t, [id |-> id, cond |-> c, auto |-> TRUE, ttl |-> ttl])
       /\ timers' = IF ttl THEN timers \cup {id} ELSE timers
  /\ UNCHANGED <<open, answering, told, undone, aged, crossed>>

(* RemoveSubscriptions of a dispatch.                                      *)
EffectRemove(t, c) ==
  /\ Unsubscribe(t, c)
  /\ Forget(t, c)
  /\ UNCHANGED <<open, timers, answering, refused, aged>>

(* The TTL goroutine's select sees its timer, or the context done.         *)
Expire(id) ==
  /\ id \in timers
  /\ timers' = timers \ {id}
  /\ UnsubscribeWithID(id)
  /\ aged' = aged \cup {t \in DOMAIN m : id \in IdsOf(t)}
  /\ undone' = (undone \/ /\ reader = "ack" /\ asked[1] \in DOMAIN m /\ id \in IdsOf(asked[1])
                          /\ <<m[asked[1]][IndexOf(asked[1], id)].cond, asked[2]>> \in Match)
  /\ UNCHANGED <<open, answering, told, crossed>>

Cancelled(id) ==
  /\ id \in timers /\ ~open
  /\ timers' = timers \ {id}
  /\ UNCHANGED <<emvars, open, answering, told, undone, aged, crossed>>

(* The context ends for a reason of its own.                               *)
Cancel ==
  /\ open /\ open' = FALSE
  /\ UNCHANGED <<emvars, timers, answering, told, undone, aged, crossed>>

(* Each goroutine that serves the connection destroys the map as it ends.  *)
Leave == ~open /\ Destroy /\ UNCHANGED <<open, timers, answering, told, undone, aged, crossed>>

Next ==
  \/ \E t \in Type, c \in Cond :
       \/ ClientSubscribe(t, c) \/ ClientUnsubscribe(t, c)
       \/ EffectRemove(t, c)
       \/ \E ttl \in BOOLEAN : EffectAdd(t, c, ttl)
  \/ SendAck \/ SendClose
  \/ \E id \in Id : Expire(id) \/ Cancelled(id)
  \/ Cancel \/ Leave

Spec == Init /\ [][Next]_vars
-----------------------------------------------------------------------------
(* Where no TTL has expired, the entries of a type have different          *)
(* conditions and each one's key is joined in NATS: the map never claims a *)
(* subscription that receives nothing (connection.go:131-148, 176-200).    *)
MapAgrees ==
  \A t \in DOMAIN m \ aged :
    /\ \A i, j \in DOMAIN m[t] : m[t][i].cond = m[t][j].cond => i = j
    /\ \A c \in Conds(t) : CreateDispatchKey(t, c) \in joined

(* A subscription the client made, and neither it nor a dispatch has       *)
(* removed, stays joined whatever automatic subscriptions of the same type *)
(* come, expire and go (UnsubscribeWithID, connection.go:205-233).         *)
OwnStaysJoined == open => own \subseteq joined

(* A Subscribe the client gets an Ack for receives something when the Ack  *)
(* is sent, unless a dispatch or an expiry unsubscribed it after Subscribe *)
(* had returned (handle.go:227-249).                                       *)
Receives(k) == \E c \in Conds(k[1]) : <<c, k[2]>> \in Match /\ CreateDispatchKey(k[1], c) \in joined
AckMeansJoined == [][\A k \in acked' \ acked : ~undone => Receives(k)']_vars

(* So it does, of every type that no TTL expiry has touched: whatever the  *)
(* dispatches and the TTL goroutines did before Subscribe and between it   *)
(* and the Ack, only an Unsubscribe in between that hit a matching entry   *)
(* can have made the Ack untrue (handle.go:103-104, 227-249,               *)
(* connection.go:131-150).                                                 *)
AckMeansJoinedUnaged ==
  [][\A k \in acked' \ acked : k[1] \notin aged /\ ~undone => Receives(k)']_vars

(* Already Subscribed answers only a Subscribe of what the client had an   *)
(* Ack for and did not unsubscribe, unless an expiry left a copy behind or *)
(* an Unsubscribe took the entry of another condition instead of its own   *)
(* (handle.go:229-235, connection.go:176-193).                             *)
RefusedOnlyTwice ==
  [][refused' # refused /\ refused'[1] \notin aged \cup crossed =>
       \E k \in acked : k[1] = refused'[1] /\ <<k[2], refused'[2]>> \in Match]_vars

(* Once the goroutine that was to remove a subscription after its TTL has  *)
(* ended, the subscription is not joined any more, on an open connection   *)
(* or after its destruction (handle.go:81-99).                             *)
TTLRemoves ==
  open \/ destroyed =>
    \A t \in DOMAIN m : \A i \in DOMAIN m[t] :
      m[t][i].ttl /\ m[t][i].id \notin timers
        => CreateDispatchKey(t, m[t][i].cond) \notin joined
=============================================================================
