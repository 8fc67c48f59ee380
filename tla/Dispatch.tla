------------------------------ MODULE Dispatch ------------------------------
(***************************************************************************)
(* How a dispatch reaches one WebSocket client: published to NATS, queued  *)
(* in the Subscription's channel, taken by the connection's main loop and  *)
(* passed through OnDispatch, which filters, dedupes, applies effects and  *)
(* writes.  The reader goroutine runs at the same time: it executes the    *)
(* client's commands and, for BRIDGE, runs OnDispatch itself on what the   *)
(* API answered.  A goroutine per subscription that a dispatch adds with a *)
(* TTL waits to take it out of the EventMap again.                         *)
(*                                                                         *)
(* OnDispatch takes no lock of its own, so it is one step per access to    *)
(* shared state: the EventMap, the dispatch cache (a Go map without a      *)
(* mutex) and the socket.  The NATS side is Fanout, which NatsRegistry is  *)
(* proved to implement.                                                    *)
(***************************************************************************)
EXTENDS EventMap

CONSTANTS
  Self,        \* this connection's session
  Wild,        \* event type -> the type "object.*" that covers it
  WhisperKey,  \* the key the reader subscribed to when it started
  Hash, NoHash,
  Msg,         \* dispatches (see MsgType)
  Garbage,     \* a payload that is none
  Bridged,     \* what the API may answer to BRIDGE: sequences of dispatches
  ChCap,       \* capacity of the NATS channel (10 in the code)
  MaxPublish,  \* bound: messages published
  MaxBridge,   \* bound: BRIDGE commands
  MaxCommand   \* bound: SUBSCRIBE and UNSUBSCRIBE commands

(* whisper: "" for an event, else whether it names this session.  effects  *)
(* in the order OnDispatch applies them; an added subscription may have a  *)
(* TTL.                                                                    *)
Effect == [op : {"add"}, key : Key, ttl : BOOLEAN] \cup [op : {"remove"}, key : Key]
          \cup [op : {"expire"}, hash : Hash]
MsgType == [type : Type, conds : SUBSET Cond, whisper : {"", "mine", "other"},
            hash : Hash \cup {NoHash}, effects : Seq(Effect)]

ASSUME MsgAssumption == Msg \subseteq MsgType /\ Garbage \notin Msg /\ Bridged \subseteq Seq(Msg)
ASSUME WildAssumption == Wild \in [Type -> Type]
ASSUME DispatchAssumption ==
  Id # {} /\ NoHash \notin Hash /\ WhisperKey \in Type \X Cond /\ ChCap \in Nat

(* An event whose effect expires its own hash asks to be repeated.         *)
Expires(d, h) == [op |-> "expire", hash |-> h] \in Range(d.effects)
ASSUME HashAssumption == \A d \in Msg : d.hash # NoHash => ~Expires(d, d.hash)

Proc == {"loop", "reader"}
Nothing == <<>>

VARIABLES
  Ch,        \* the Subscription's channel, per session as in Fanout
  open,      \* the connection's context is not cancelled
  pc,        \* where each goroutine is
  cur,       \* the dispatch it works on
  matches,   \* the subscriptions it matched when it was filtered
  had,       \* what AddDispatch found in the cache
  rest,      \* reader: bridged dispatches still to do
  ack,       \* reader: the command it is about to acknowledge, with the keys it
             \* ended that no effect has added again
  cache,     \* hashes dispatched before
  timers,    \* the subscription IDs that TTL goroutines wait to remove
  published, bridged, commands

(* What the client has seen.                                               *)
VARIABLES
  sent,      \* dispatches written per hash, since the hash last expired
  left,      \* keys the client unsubscribed, with an Ack, not added again since
  late,      \* dispatches written, since that Ack, that only they had matched
  aged,      \* event types a TTL expiry has touched
  raced      \* hashes that both goroutines were concerned with at once

dvars == <<Ch, open, pc, cur, matches, had, rest, ack, cache, timers, published, bridged, commands>>
seen == <<sent, left, late, aged>>
vars == <<emvars, dvars, seen, raced>>

N == INSTANCE Fanout WITH Session <- {Self}, Msg <- Msg \cup {Garbage},
                          member <- {Self} \X joined, queue <- Ch

(* Types; each goroutine holds a dispatch exactly while it is inside       *)
(* OnDispatch, and the channel keeps to its capacity.                      *)
TypeOK ==
  /\ EventMapType
  /\ Ch[Self] \in Seq(Msg \cup {Garbage}) /\ Len(Ch[Self]) <= ChCap
  /\ open \in BOOLEAN
  /\ pc["loop"] \in {"select", "filter", "has", "add", "effect", "write", "gone"}
  /\ pc["reader"] \in {"read", "post", "ack", "close", "filter", "has", "add", "effect", "write", "gone"}
  /\ \A p \in Proc : cur[p] = Nothing <=> pc[p] \in {"select", "read", "post", "ack", "close", "gone"}
  /\ matches \in [Proc -> SUBSET Key] /\ had \in [Proc -> BOOLEAN]
  /\ rest \in Seq(Msg)
  /\ cache \subseteq Hash /\ timers \subseteq Id
  /\ sent \in [Hash -> Nat] /\ left \subseteq Key /\ late \in Nat
  /\ aged \subseteq Type /\ raced \subseteq Hash

Init ==
  /\ m = Put(EmptyMap, WhisperKey[1],
             <<[id |-> CHOOSE i \in Id : TRUE, cond |-> WhisperKey[2], auto |-> TRUE, ttl |-> FALSE]>>)
  /\ joined = {WhisperKey} /\ destroyed = FALSE
  /\ Ch = [s \in {Self} |-> <<>>] /\ open = TRUE
  /\ pc = [p \in Proc |-> IF p = "loop" THEN "select" ELSE "read"]
  /\ cur = [p \in Proc |-> Nothing]
  /\ matches = [p \in Proc |-> {}] /\ had = [p \in Proc |-> FALSE]
  /\ rest = <<>> /\ ack = Nothing
  /\ cache = {} /\ timers = {} /\ published = 0 /\ bridged = 0 /\ commands = 0
  /\ sent = [h \in Hash |-> 0] /\ left = {} /\ late = 0
  /\ aged = {} /\ raced = {}
-----------------------------------------------------------------------------
(* OnDispatch.                                                             *)

(* The API publishes an event under every key a subscriber may have joined *)
(* for it, so one connection can get several copies of it.                 *)
KeysOf(d) == IF d.whisper = "" THEN {d.type, Wild[d.type]} \X d.conds ELSE {WhisperKey}

(* EventMap.Get: the subscriptions of the type and of its wildcard, copied *)
(* under e.mx.                                                             *)
Get(t) == {k \in {t, Wild[t]} \X Cond : k[2] \in Conds(k[1])}

(* EventChannel.Match: those whose condition matches one of the dispatch's.*)
MatchedBy(d) == {k \in Get(d.type) : \E c \in d.conds : <<k[2], c>> \in Match}

(* OnDispatch returns: the loop selects again, the reader goes on with the *)
(* next bridged dispatch or reads the next command.                        *)
Return(p) ==
  IF p = "reader" /\ rest # <<>>
  THEN /\ pc' = [pc EXCEPT ![p] = "filter"]
       /\ cur' = [cur EXCEPT ![p] = Head(rest)]
       /\ rest' = Tail(rest)
  ELSE /\ pc' = [pc EXCEPT ![p] = IF p = "loop" THEN "select" ELSE "read"]
       /\ cur' = [cur EXCEPT ![p] = Nothing]
       /\ UNCHANGED rest

Goto(p, l) == pc' = [pc EXCEPT ![p] = l] /\ UNCHANGED <<cur, rest>>

\* mutant: the hash is recorded before the dispatch is filtered
FilterAfterDedupe(p) ==
  /\ pc[p] = "filter"
  /\ matches' = [matches EXCEPT ![p] = IF cur[p].whisper = "" THEN MatchedBy(cur[p]) ELSE {}]
  /\ IF cur[p].whisper = "other" \/ (cur[p].whisper = "" /\ MatchedBy(cur[p]) = {})
     THEN Return(p) /\ cache' = cache \cup ({cur[p].hash} \ {NoHash})
     ELSE Goto(p, IF cur[p].hash = NoHash THEN "effect" ELSE "has") /\ UNCHANGED cache
  /\ UNCHANGED <<emvars, Ch, open, had, ack, timers, published, bridged, commands, seen>>

Filter(p) ==
  /\ pc[p] = "filter"
  /\ matches' = [matches EXCEPT ![p] = IF cur[p].whisper = "" THEN MatchedBy(cur[p]) ELSE {}]
  /\ IF \/ cur[p].whisper = "other"
        \/ cur[p].whisper = "" /\ MatchedBy(cur[p]) = {}
     THEN Return(p)
     ELSE Goto(p, IF cur[p].hash = NoHash THEN "effect" ELSE "has")
  /\ UNCHANGED <<emvars, Ch, open, had, ack, cache, timers, published, bridged, commands, seen>>

(* AddDispatch looks the hash up, then adds it.                            *)
HasHash(p) ==
  /\ pc[p] = "has"
  /\ had' = [had EXCEPT ![p] = cur[p].hash \in cache]
  /\ Goto(p, "add")
  /\ UNCHANGED <<emvars, Ch, open, matches, ack, cache, timers, published, bridged, commands, seen>>

\* mutant: the answer of the lookup is not used
AddHashAlways(p) ==
  /\ pc[p] = "add"
  /\ cache' = cache \cup {cur[p].hash}
  /\ Goto(p, "effect")
  /\ UNCHANGED <<emvars, Ch, open, matches, had, ack, timers, published, bridged, commands, seen>>

AddHash(p) ==
  /\ pc[p] = "add"
  /\ cache' = cache \cup {cur[p].hash}
  /\ IF had[p] THEN Return(p) ELSE Goto(p, "effect")
  /\ UNCHANGED <<emvars, Ch, open, matches, had, ack, timers, published, bridged, commands, seen>>

(* rand.Uint32(): the model leaves a collision out.                        *)
FreshId == Id \ (LiveIds \cup timers)
NewEntry(c, auto, ttl) == [id |-> CHOOSE i \in FreshId : TRUE, cond |-> c, auto |-> auto, ttl |-> ttl]

(* One effect at a time; errors are logged and the rest still applies.     *)
ApplyEffect(p) ==
  /\ pc[p] = "effect" /\ cur[p].effects # <<>>
  /\ LET e == Head(cur[p].effects)
     IN \/ /\ e.op = "add" /\ FreshId # {}
           /\ Subscribe(e.key[1], NewEntry(e.key[2], TRUE, e.ttl))
           /\ timers' = IF e.ttl THEN timers \cup {NewEntry(e.key[2], TRUE, e.ttl).id} ELSE timers
           /\ left' = left \ {e.key}
           /\ ack' = IF ack = Nothing THEN ack ELSE <<ack[1], ack[2] \ {e.key}>>
           /\ UNCHANGED <<cache, sent>>
        \/ /\ e.op = "remove"
           /\ Unsubscribe(e.key[1], e.key[2])
           /\ UNCHANGED <<ack, cache, timers, sent, left>>
        \/ /\ e.op = "expire"
           /\ cache' = cache \ {e.hash} /\ sent' = [sent EXCEPT ![e.hash] = 0]
           /\ UNCHANGED <<emvars, ack, timers, left>>
  /\ cur' = [cur EXCEPT ![p].effects = Tail(@)]
  /\ UNCHANGED <<Ch, open, pc, matches, had, rest, published, bridged, commands, late, aged>>

(* The select of a TTL goroutine sees its timer, or the context done.      *)
Expire(id) ==
  /\ id \in timers /\ timers' = timers \ {id}
  /\ UnsubscribeWithID(id)
  /\ aged' = aged \cup {t \in DOMAIN m : id \in IdsOf(t)}
  /\ UNCHANGED <<Ch, open, pc, cur, matches, had, rest, ack, cache, published, bridged, commands,
                 sent, left, late>>

Cancelled(id) ==
  /\ id \in timers /\ timers' = timers \ {id}
  /\ ~open
  /\ UNCHANGED <<emvars, Ch, open, pc, cur, matches, had, rest, ack, cache, published, bridged,
                 commands, seen>>

EffectsDone(p) ==
  /\ pc[p] = "effect" /\ cur[p].effects = <<>>
  /\ Goto(p, "write")
  /\ UNCHANGED <<emvars, Ch, open, matches, had, ack, cache, timers, published, bridged, commands, seen>>

(* Write is silent on a closed connection.                                 *)
Write(p) ==
  /\ pc[p] = "write"
  /\ IF open
     THEN /\ sent' = IF cur[p].hash = NoHash THEN sent ELSE [sent EXCEPT ![cur[p].hash] = @ + 1]
          /\ late' = IF matches[p] # {} /\ matches[p] \subseteq left \ (aged \X Cond)
                     THEN late + 1 ELSE late
     ELSE UNCHANGED <<sent, late>>
  /\ Return(p)
  /\ UNCHANGED <<emvars, Ch, open, matches, had, ack, cache, timers, published, bridged, commands,
                 left, aged>>

OnDispatch(p) ==
  Filter(p) \/ HasHash(p) \/ AddHash(p) \/ ApplyEffect(p) \/ EffectsDone(p) \/ Write(p)
-----------------------------------------------------------------------------
(* NATS and the main loop.                                                 *)

Publish ==
  /\ published < MaxPublish /\ published' = published + 1
  /\ UNCHANGED <<emvars, open, pc, cur, matches, had, rest, ack, cache, timers, bridged, commands, seen>>
  /\ \/ \E d \in Msg : \E k \in KeysOf(d) : N!Publish(k, d)
     \/ \E k \in Key : N!Publish(k, Garbage)

\* mutant: a payload that cannot be decoded ends the loop
TakeOrGiveUp ==
  /\ pc["loop"] = "select"
  /\ UNCHANGED emvars
  /\ N!Take(Self)
  /\ IF Head(Ch[Self]) = Garbage
     THEN pc' = [pc EXCEPT !["loop"] = "gone"] /\ UNCHANGED cur
     ELSE /\ pc' = [pc EXCEPT !["loop"] = "filter"]
          /\ cur' = [cur EXCEPT !["loop"] = Head(Ch[Self])]
  /\ UNCHANGED <<open, matches, had, rest, ack, cache, timers, published, bridged, commands, seen>>

\* mutant: the loop catches up: only the newest message counts
TakeNewest ==
  /\ pc["loop"] = "select" /\ Ch[Self] # <<>>
  /\ Ch' = [Ch EXCEPT ![Self] = <<>>]
  /\ LET d == Ch[Self][Len(Ch[Self])]
     IN IF d = Garbage THEN UNCHANGED <<pc, cur>>
        ELSE /\ pc' = [pc EXCEPT !["loop"] = "filter"]
             /\ cur' = [cur EXCEPT !["loop"] = d]
  /\ UNCHANGED <<emvars, open, matches, had, rest, ack, cache, timers, published, bridged, commands, seen>>

Take ==
  /\ pc["loop"] = "select"
  /\ UNCHANGED emvars
  /\ N!Take(Self)
  /\ IF Head(Ch[Self]) = Garbage THEN UNCHANGED <<pc, cur>>
     ELSE /\ pc' = [pc EXCEPT !["loop"] = "filter"]
          /\ cur' = [cur EXCEPT !["loop"] = Head(Ch[Self])]
  /\ UNCHANGED <<open, matches, had, rest, ack, cache, timers, published, bridged, commands, seen>>

(* Any other case of the select that ends the loop, and its deferred       *)
(* Destroy; the reader ends likewise when its next read fails.             *)
End(p) ==
  /\ pc[p] = IF p = "loop" THEN "select" ELSE "read"
  /\ pc' = [pc EXCEPT ![p] = "gone"]
  /\ open' = FALSE /\ Destroy
  /\ UNCHANGED <<Ch, cur, matches, had, rest, ack, cache, timers, published, bridged, commands, seen>>
-----------------------------------------------------------------------------
(* The reader.                                                             *)

(* The reader runs the commands it has read, after the context was         *)
(* cancelled too.  One that EventMap refuses is answered with SendClose.   *)
Answer(ok, op, ended) ==
  /\ IF ok
     THEN pc' = [pc EXCEPT !["reader"] = "ack"] /\ ack' = <<op, ended>>
     ELSE pc' = [pc EXCEPT !["reader"] = "close"] /\ UNCHANGED ack
  /\ commands < MaxCommand /\ commands' = commands + 1
  /\ UNCHANGED <<Ch, open, cur, matches, had, rest, cache, timers, published, bridged, sent, late, aged>>

ClientSubscribe(t, c) ==
  /\ pc["reader"] = "read" /\ c # NoCond /\ FreshId # {}
  /\ Subscribe(t, NewEntry(c, FALSE, FALSE))
  /\ Answer(~IsAlreadySubscribed(t, c), "subscribe", {})
  /\ left' = left \ {<<t, c>>}

ClientUnsubscribe(t, c) ==
  /\ pc["reader"] = "read"
  /\ Unsubscribe(t, c)
  /\ Answer(IsSubscribed(t, c), "unsubscribe", {k \in {t} \X Cond : c \in {k[2], NoCond}})
  /\ UNCHANGED left

SendAck ==
  /\ pc["reader"] = "ack"
  /\ pc' = [pc EXCEPT !["reader"] = "read"] /\ ack' = Nothing
  /\ IF open /\ ack[1] = "unsubscribe"
     THEN left' = left \cup ack[2] /\ late' = 0
     ELSE UNCHANGED <<left, late>>
  /\ UNCHANGED <<emvars, Ch, open, cur, matches, had, rest, cache, timers, published, bridged, commands,
                 sent, aged>>

SendClose ==
  /\ pc["reader"] = "close"
  /\ Goto("reader", "read")
  /\ open' = FALSE
  /\ UNCHANGED <<emvars, Ch, matches, had, ack, cache, timers, published, bridged, commands, seen>>

BridgePost ==
  /\ pc["reader"] = "read"
  /\ bridged < MaxBridge /\ bridged' = bridged + 1
  /\ Goto("reader", "post")
  /\ UNCHANGED <<emvars, Ch, open, matches, had, ack, cache, timers, published, commands, seen>>

(* No timeout: the connection may be closed and destroyed meanwhile.  An   *)
(* error is the empty answer.                                              *)
BridgeAnswer ==
  /\ pc["reader"] = "post"
  /\ \E ds \in Bridged :
       IF ds = <<>>
       THEN Goto("reader", "read")
       ELSE /\ pc' = [pc EXCEPT !["reader"] = "filter"]
            /\ cur' = [cur EXCEPT !["reader"] = Head(ds)]
            /\ rest' = Tail(ds)
  /\ UNCHANGED <<emvars, Ch, open, matches, had, ack, cache, timers, published, bridged, commands, seen>>

(* Two goroutines inside the cache's map, one of them writing: the Go      *)
(* runtime may notice and abort the process.                               *)
InCache(p) ==
  \/ pc[p] \in {"has", "add"}
  \/ pc[p] = "effect" /\ cur[p].effects # <<>> /\ Head(cur[p].effects).op = "expire"

Abort ==
  /\ \A p \in Proc : InCache(p)
  /\ \E p \in Proc : pc[p] # "has"
  /\ pc' = [p \in Proc |-> "gone"] /\ cur' = [p \in Proc |-> Nothing]
  /\ open' = FALSE /\ Destroy
  /\ UNCHANGED <<Ch, matches, had, rest, ack, cache, timers, published, bridged, commands, seen>>
-----------------------------------------------------------------------------
Commands ==
  \/ \E t \in Type, c \in Cond : ClientSubscribe(t, c) \/ ClientUnsubscribe(t, c)
  \/ SendAck \/ SendClose \/ BridgePost \/ BridgeAnswer

(* A goroutine is concerned with a hash if it works on a dispatch that     *)
(* carries it, or one of whose effects expires it.                         *)
Concerns(p, h) ==
  /\ cur[p] # Nothing
  /\ cur[p].hash = h \/ Expires(cur[p], h)

Observe == raced' = raced \cup {h \in Hash : \A p \in Proc : Concerns(p, h)}

Next ==
  /\ \/ Publish \/ Take \/ Commands \/ Abort
     \/ \E p \in Proc : OnDispatch(p) \/ End(p)
     \/ \E id \in Id : Expire(id) \/ Cancelled(id)
  /\ Observe

(* The main loop is a goroutine with work to do: whatever the reader does, *)
(* it goes on, and select picks among its ready cases at random.           *)
Spec == Init /\ [][Next]_vars
        /\ WF_vars(Take /\ Observe) /\ WF_vars(OnDispatch("loop") /\ Observe)
-----------------------------------------------------------------------------
(* A hash is written to the client at most once until a dispatch expires   *)
(* it, however many copies NATS and BRIDGE deliver (handle.go:59-66).      *)
AtMostOnce == \A h \in Hash : sent[h] <= 1

(* It is written twice only if the loop and the reader were both inside    *)
(* OnDispatch with it at once: the cache does dedupe whatever comes one    *)
(* after the other, from either side (cache.go:23-29).                     *)
TwiceNeedsRace == \A h \in Hash : sent[h] > 1 => h \in raced

(* A hash in the cache stands for a dispatch that was written, or that a   *)
(* goroutine is about to write: filtering comes before deduping, so a copy *)
(* nobody was subscribed to does not suppress a later one.  Again but for  *)
(* that race: a hash expired between AddDispatch's lookup and its insert   *)
(* is put back with nothing written (handle.go:44-66, cache.go:23-33).     *)
HashNotBurnt ==
  open =>
    \A h \in cache \ raced :
       \/ sent[h] > 0
       \/ \E p \in Proc : pc[p] \in {"effect", "write"} /\ cur[p].hash = h

(* After the Ack of an UNSUBSCRIBE the client gets at most one more        *)
(* dispatch that only the ended subscription matched: the one the main     *)
(* loop was past filtering.  What is still queued is filtered out          *)
(* (handle.go:44-54, 254-279).  Not so of a type that a TTL expiry has     *)
(* touched: its slices hold one entry twice, an Unsubscribe removes one of *)
(* the two, and every queued dispatch still matches the other              *)
(* (connection.go:217-219).  Such a type's dispatches are not counted.     *)
(* Nor need it be so where an Unsubscribe stops at the entry of another    *)
(* condition: the run and the theorem have each match itself alone.        *)
LateAtMostOne == late <= 1

(* The registry sees of this connection, with both goroutines, effects and *)
(* commands, only what it promises to serve: a key joined or left at a     *)
(* time, everything left at once when the map is destroyed, and messages   *)
(* taken one by one in their order (connection.go:148, 184, 281,           *)
(* websocket_read.go:156-175).                                             *)
FanoutSteps == [][N!Next]_<<{Self} \X joined, Ch>>

(* Queued messages are taken while the connection is open: neither an      *)
(* undecodable payload nor a filtered or repeated dispatch ends the loop   *)
(* (websocket_read.go:156-175).                                            *)
Drains == Ch[Self] # <<>> ~> (Ch[Self] = <<>> \/ ~open)
=============================================================================
