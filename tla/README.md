# EventAPI in TLA+

EventAPI keeps many clients connected over WebSocket or Server-Sent Events and
forwards to each of them the dispatches it subscribed to, which arrive from
NATS. These modules model the parts of it that are hard to test: the registry
that fans messages out, the subscriptions of a connection, the slices its event
map shares with its readers, the way of one dispatch to one client, the life of
a WebSocket, of an EventStream and of the server. TLC checks them on small
instances; TLAPS proves, for every size, every invariant and action property and
the steps of every refinement that the passing runs check. What liveness adds to
that is left to TLC.

Paths below are relative to `src/internal/` unless they begin with `cmd/`.

## The system

| Component | State | Operations | Runs in |
| --- | --- | --- | --- |
| NATS registry, `nats/` | `subjects`, `sessions`: two indexes of one relation, under the package mutex; per connection a channel `Ch` of 10 messages | `Subscribe`, `Unsubscribe`, `Close`, `handleMessage` | callers' goroutines; the NATS client's |
| Event map, `app/connection/connection.go` | `m`: event type to slices of IDs, conditions and properties, under `e.mx` | `Subscribe`, `Unsubscribe`, `UnsubscribeWithID`, `Get`, `Match`, `Destroy` | loop, reader and TTL goroutines of a connection |
| Handler and cache, `handle.go`, `cache.go` | the cache: a set of dispatch hashes, without a lock | `OnDispatch`, `Subscribe`, `Unsubscribe`, `OnBridge`, `OnResume` | loop and reader |
| WebSocket, `app/connection/websocket/`, `app/connect.go` | socket, context, `ready`, the counters | `Read`, `SendClose`, `ForceClose`, `Write`, `Destroy`, `TrackConnection` | four goroutines per connection |
| EventStream, `app/connection/eventstream/`, `app/v3/v3.go` | `bufio.Writer`, `seq`, context, `ready` | `Read`, `Write` (no lock), `SendClose`, `Destroy`, inline subscriptions | the HTTP handler and three more |
| Server and process, `app/server.go`, `app/handlers.go`, `cmd/main.go` | `locked`, `shutdown`, `activeConns`; signals, exit | `Middleware`, `handleV3`, the shutdown goroutine, `ListenAndServe`, `main` | one goroutine per request, and theirs |

They interact by calls: the loop of a connection takes from `Ch` and runs
`OnDispatch`, which reads the event map and may change it (effects); the reader
runs commands, which change the event map and through it the registry; `Destroy`
closes the registry's entry. The server reaches a connection through its
`shutdown` channel and the process's context, the connection reaches the server
through `activeConns`.

What is hard, and where it is modelled:

* two indexes kept in step by in-place slice surgery (NatsRegistry);
* commands, effects, TTL expiry and destruction of one map in any order, also
  between a command and its answer (Subscriptions);
* `Get` returns slices whose arrays the map goes on writing, and `Match` reads
  them without the lock (SharedSlices);
* `OnDispatch` without a lock, in two goroutines at once because of BRIDGE, and
  against commands and expiries that change what it has already looked up
  (Dispatch);
* four goroutines that can each end a connection, and one another's ends, while
  one of them still subscribes (WebSocket, EventStream);
* three goroutines that write one event stream without a lock (EventStream);
* a limit checked long before it is counted, and a shutdown that takes place
  among requests in any stage (Server).

The hazards, line by line and with the property that watches each, are in
`PROJECT.json`.

## Modules

| Module | What it is |
| --- | --- |
| `GoData` | Go maps and slices: lookup, put, delete, removal by moving the last element |
| `NatsRegistry` | package `nats`; one action per function, since each holds the mutex throughout |
| `Fanout` | abstract: a relation of sessions and keys, and one bounded FIFO per session |
| `EventMap` | the methods of `EventMap`, each one operator for callers to make a step of |
| `Subscriptions` | `EventMap`'s callers: commands, effects, TTL goroutines, `Destroy` |
| `Dispatch` | NATS, the loop, `OnDispatch` in steps, the reader with its commands and BRIDGE, TTL goroutines; uses `EventMap` and `Fanout` |
| `SharedSlices` | the arrays behind one event type's slices: `Subscribe` and `Unsubscribe` in two writes each, `Get`'s copies, `Match` one access at a time |
| `WebSocket` | the four goroutines of a connection, step by step around shared state |
| `EventStream` | the same of an EventStream: handler, inline subscriptions, tracker, watcher |
| `Lifecycle` | abstract: a connection opens, closes, is counted and counted out |
| `Server` | requests, admission, shutdown and process; its connections move as `Lifecycle` says |
| `NatsRegistryProofs`, `SubscriptionsProofs`, `SharedSlicesProofs`, `DispatchProofs`, `WebSocketProofs`, `EventStreamProofs`, `ServerProofs` | theorems |
| `EventMapProofs` | the lemmas two of them share: what the event map's methods do to entries and keys |
| `MCNatsRegistry`, `MCSubscriptions`, `MCDispatch` | symmetry and constants for TLC |

The composition has two seams. `NatsRegistry` implements `Fanout`; `Dispatch`
publishes and takes with `Fanout`'s actions and joins and leaves with
`EventMap`'s operators, and every step of it is a step of `Fanout` for this one
session, or none (`FanoutSteps`). `WebSocket` and `EventStream` both implement
`Lifecycle`, and `Server` is built on `Lifecycle`'s actions.

### Correspondence

*NatsRegistry.* `subjects` and `sessions` are maps to sequences, in the order the
code leaves them in, because `removeSubject` and `removeSubscription` move the
last element and the loops stop at the first hit. A `Subscription` is its
session ID. `handleMessage` puts one copy per member into `Ch`, or drops it where
the channel is full. Close ranges over a slice in place, as the code does.

*EventMap.* The three parallel slices are one sequence of entries.
`UnsubscribeWithID` changes the arrays but not the lengths stored in the map
(`connection.go:217-219` works on a copy of the map's value), which is
`StaleView`. `joined` is the connection's share of the registry. A condition is a
model value; `Match` is a relation given as a constant, and the dispatch key is
the pair of type and condition: both belong to `seventv/api`. `SliceRemove`
belongs to `seventv/common` and is taken to move the last element into the gap;
with one that keeps the order, every run below has the same result.

*Subscriptions.* Calls hold `e.mx`, so each is a step; what the client is told
follows in a step of its own (`SendAck`, `SendClose`), with the loop, the TTL
goroutines and `Destroy` free to run in between. The reader does not look at the
context, so it runs commands after the connection was closed too. A TTL
goroutine is the ID it waits to remove. `acked`, `own`, `refused`, `undone`,
`aged` and `crossed` are history: `undone` that an entry for the key about to be
acknowledged was removed since `Subscribe` returned; `crossed` the types of which
an `Unsubscribe` took the entry of another condition than the one it names,
because its loop stops at the first that matches.

*SharedSlices.* One event type and its wildcard. `ids` and `conds` are the arrays
behind two of the three slices, spare capacity included; `Properties` is written
like `Conditions` and read by nobody here. `Appended` is Go's `append` with the
runtime's doubling, so the two slices get new arrays at different calls. A call
that holds `e.mx` writes the IDs in one step and the conditions in the next. A
`view` is `Get`'s copy: per slice it names the map's own array or one the map
has given up (`Detached`). Where the wildcard's elements fit behind the type's,
`Get` puts them into the map's array. `SliceRemove` is run in both forms, moving
the last element or keeping the order.

*Dispatch.* `Filter` (Get and Match), `HasHash`, `AddHash`, `ApplyEffect`,
`EffectsDone` and `Write` are the accesses of `OnDispatch` to shared state, so the loop and
the reader interleave between them. `raced` is history: the hashes both
goroutines were concerned with at once, by a dispatch that carries the hash or
by an effect that expires it. `HashAssumption` says no dispatch expires its own
hash, which would be asking for it to be repeated. `Abort` is the Go runtime's answer to
concurrent use of a map: it may notice and kill the process, or not notice. An
effect that adds a subscription with a TTL starts a goroutine (`timers`), which
expires it or sees the context done. As in Subscriptions, a command is answered
in a later step (`ack`, `close`), and the context does not keep the reader from
its next one.
Besides that, the races this code has on Go memory (`locked`, `deferred`, the
cache) are modelled as reads and writes of single values in some order.

*WebSocket.* `pc` is where a goroutine stands between two accesses to shared
state, `ret` where it goes on after `SendClose` or `ForceClose`, which all four
run. `wire` is what the socket accepted. gorilla refuses every frame after a
close frame; a broken peer may swallow frames for a while; a `Write` whose check
of the context came first still writes. Of a command the model keeps that it may
join a key in NATS (SUBSCRIBE, or the effects of an answer to BRIDGE) and that an
answer follows (`Command`, `SendAck`); of a dispatch the same (`TakeDispatch`,
`OnDispatch`). Neither looks at the context: gorilla's buffer may hold commands
when the socket was closed, and `SendClose` after a refused command does not end
the reader. `CanJoin` says which goroutines are in such a place, `cut` that one
was as the map was destroyed.

*EventStream.* `Write` takes no lock: it reads `seq` (`Write`), goes through the
`bufio.Writer` and both flushes (`Push`) and counts `seq` up (`Count`), and
the loop, the inline subscriptions and the watcher run it. Once one `Write`
begins inside another (`overlapped`), the contents of the `bufio.Writer` and of
`seq` are undefined in Go, and the model follows `wire` and `seq` no further;
the control of the goroutines it follows to the end. A client that is gone hears
nothing and may, but need not, make `Write` fail. `Destroy` is two steps: the
context, then `ready` and the event map. A string in the URL is `asked`
subscriptions, each of which is taken or refused. `TakeDispatch` and
`OnDispatch` keep of a dispatch that its effects may subscribe and that it is
written.

*Server.* A request passes `Middleware` in two reads, `handleV3`, and is then a
connection that behaves as `Lifecycle` says. The handler of an EventStream is
active until its `Read` ends; that of a WebSocket returned when `Read` began.
`ListenAndServe` is the goroutine whose `Fatal` ends the process as soon as
`server.Shutdown` closes the listener (`app/server.go:70-74`), so the process
usually exits with status 1, while EventStreams are still drained and before
`nats.Close`; `GraceGiven` states what is true of it nonetheless.

## Runs

| Run | What it shows | Bounds |
| --- | --- | --- |
| `NatsRegistry` | indexes agree; implements `Fanout` | 3 sessions, 2 keys, 2 messages, channels of 2; symmetry |
| `Subscriptions` | types no expiry touched agree with NATS; the client's own subscriptions stay joined; an Ack means joined, but for what was unsubscribed since `Subscribe` returned; Already Subscribed is only said of what was acknowledged | 1 type, 3 conditions of which one subsumes another, 3 IDs, 2 TTL goroutines |
| `SubscriptionsAck` | **violated**: an Ack means joined, whatever expired | 1 type |
| `SubscriptionsTTL` | **violated**: a TTL removes its subscription | 1 type |
| `Dispatch` | a hash is written twice only if both goroutines worked on it at once, none is suppressed by an unmatched copy, at most one dispatch is late after an Ack of UNSUBSCRIBE but of a type an expiry touched, the queue drains, joins, leaves and messages are as `Fanout` has them | 2 publications of 6 kinds, one with a TTL, 2 conditions, 1 command, 1 BRIDGE of up to 2 dispatches, channel of 2, 5 IDs |
| `DispatchDedupe` | **violated**: one write per hash with BRIDGE | as `Dispatch` |
| `WebSocket` | Hello first, close frames announced, what stays joined was cut off, never stuck, nearer to the end with each step | 2 heartbeats, dispatches or commands besides the forced frames |
| `WebSocketEnds` | every end is complete; implements `Lifecycle` with its liveness | no such frame |
| `WebSocketEos` | **violated**: nothing follows an End of Stream | 1 such frame |
| `EventStream` | Hello first, ids count, what stays joined, inline subscriptions answered, every end is complete (as above), implements `Lifecycle` with its liveness | 1 inline subscription, 1 heartbeat or dispatch |
| `SharedSlices` | `Match` is exact if nothing is written meanwhile; marks only known IDs; misses only what was moved or overwritten | 2 conditions, 4 IDs, 1 wildcard subscription |
| `Server` | overshoot needs a race, drain, grace, exit | 2 WebSockets, 1 EventStream, limit 1 |

The bounds are the smallest at which the cases of interest occur: two members of
a key and a third that is not, a full channel, an entry in the middle of a
slice, a refused command with another behind it, an expiry with a queue behind
it, two copies of a dispatch from NATS and one from BRIDGE, three writers in
one EventStream, an array that is full, has room, and was given up, two
connections that pass a limit of one and one of each transport at the shutdown.
Liveness of a WebSocket is checked without optional frames, which make its state
space too large for that; what could keep it from ending is in `NeverStuck` and
`WindsDown`, which `WebSocket` checks with two of them, refused commands and
failed heartbeats included. With a third condition `SharedSlices` has 14 million states and the same result;
4 IDs are enough for a new subscription to overwrite the wildcard's element in
both arrays while `Match` is under way. Every property has a
mutation of the model, named next to the definition it changes ("mutant"), under
which its run fails.

Symmetry is used only for invariants, action properties and safety refinements. `CHECK_DEADLOCK FALSE` is
given where the system really stops: a connection that has ended, a process that
has exited, or bounds that are used up.

### Disagreements with the documentation

* **Ack without a subscription** (`SubscriptionsAck`). A dispatch adds an
  automatic subscription with a TTL; it expires; `UnsubscribeWithID` leaves the
  NATS key but its shortened slices are lost, so the entry stays. A client's
  SUBSCRIBE for the same thing meets the entry, finds it automatic, and is
  acknowledged without joining. README.MD says an Ack means the command was
  successfully executed. If the expired entry was followed by a client's own,
  the leftover copy likewise makes a later SUBSCRIBE fail with 4009, Already
  Subscribed. `AckMeansJoinedUnaged` and `RefusedOnlyTwice` state what is true:
  both hold of the types no expiry touched. `RefusedOnlyTwice` also excepts
  `crossed`: UNSUBSCRIBE of one condition can remove the entry of another that
  matches it, and its own then refuses the next SUBSCRIBE.
  `AckMeansJoinedUnaged` also excepts `undone`: `e.mx` is released before the Ack
  is sent (`connection.go:150`, `handle.go:241`), and a `RemoveSubscriptions`
  that the loop applies in between makes the Ack late rather than wrong.
* **TTL that never removes** (`SubscriptionsTTL`). The map does not know it was
  destroyed. Effects applied after `Destroy` join NATS again, and the TTL
  goroutine, whose context is done, returns at once. The registry keeps the
  session for the life of the process.
* **Dedupe** (`DispatchDedupe`). The loop and BRIDGE in the reader can both find
  a hash absent, and the client gets the dispatch twice.
* **Data after End of Stream** (`WebSocketEos`). Between the End of Stream and
  the cancelled context others still write, a second End of Stream included.

The leftover copy of an expired entry has one more effect, which `LateAtMostOne`
excepts with the types in `aged`: an UNSUBSCRIBE removes one of two equal
entries, and every dispatch still queued matches the other. And what
`LeftBehind` excepts with `cut` happens as well: a client that sends a command
that is refused and a SUBSCRIBE right behind it can leave its session joined in
NATS for the life of the process, because the reader runs the second after the
loop has destroyed the map (`websocket_read.go:71-124`, `handle.go:228`).
No document says otherwise of either.

What `NothingMissed` excepts is not contradicted by any document, so it is no
finding, but it happens: a connection subscribed to a type and to its wildcard
loses a dispatch that only the wildcard matches if another goroutine subscribes
to the same type between `Get` and the end of `Match` and the arrays had room
(`connection.go:141-142, 259-260`); so does one whose entry an unsubscribe moves
to a place `Match` has passed, once its old place is written again.

## Fairness

* `Dispatch`: the loop takes and finishes what it took. It is a goroutine, and
  `select` chooses among ready cases uniformly, so a queued message is not
  passed over for ever. Nothing is assumed of the reader, the client or NATS.
* `WebSocket`: each goroutine goes on when it can: writes return, the select sees
  a cancelled context or a done `gctx`, a read from a dead socket fails, the API
  answers a BRIDGE (`http.DefaultClient` has no timeout; `Command` is one step,
  so a post that never returns is not in the model). Not
  assumed: that the client sends, a dispatch or heartbeat is due, the TTL
  passes, or the network breaks. That writes return is an assumption about the
  peer, as the code sets no write deadline; where it fails, `Ends` fails, and
  `Server` therefore does not assume that connections end.
* `EventStream`: as for the WebSocket, each goroutine goes on when it can: a
  `Write` returns, with an error at most when the client is gone, and a select
  sees what is done. Nothing is assumed of the client, of dispatches or of
  heartbeats. `InlineAnswered` is about a stream that lasts and whose Writes do
  not overlap.
* `Server`: only the closer, `ListenAndServe` and `main` are fair; `Exits` must
  not depend on clients, and it is the 30 s timer and the listener's `Fatal`
  that end the process.

## Proofs

TLAPS checks these for every value of the constants. Assumptions are those on the
constants, named in the modules, and where a theorem says so one more.

* `NatsRegistryProofs`: `TypeCorrect`, `RegistryCorrect`, `ImplementsFanout`. The
  invariant is `TypeOK /\ RegistryInv`: that the indexes are inverse to each
  other needs that neither holds a duplicate, because a removal takes out one
  occurrence only. The lemmas about swap-removal come first. `Fanout`'s
  publication follows since a message goes to each member once.
* `SubscriptionsProofs`: `TypeCorrect`, `ClaimsAreJoined` (`MapAgrees`),
  `OwnSurvives` (`OwnStaysJoined`), `AcksAreJoined`, `RefusalsHaveReasons`.
  `OwnStaysJoined` needs `Kept`: what is the client's own has an entry, and no
  TTL goroutine waits for an entry of its condition, so no expiry leaves its key.
  `RefusedOnlyTwice` needs `Answered`: in a type neither aged nor crossed, every
  entry that is not automatic was acknowledged or is about to be. `AcksAreJoined`
  needs `Awaited`: between `Subscribe` and the Ack a matching entry stays, unless
  the key was `undone`.
* `DispatchProofs`: `TypeCorrect`, `DedupesOtherwise` (`TwiceNeedsRace`),
  `HashesAreSent` (`HashNotBurnt`), `UnsubscribesEnd` (`LateAtMostOne`).
  `Deduped` says of each hash that did not race how cache, `sent` and the
  goroutine that holds it agree; at most one goroutine does, or it would have
  raced. `UnsubscribesEnd` needs `Absent`, that a key that was left, or is about
  to be acknowledged as left, has no entry (which itself needs distinct conditions
  in the map, so both are said of types no expiry touched), and `LateBudget`, that
  only the loop can be past the filter with a match that has ended, and then
  nothing came late yet. It is proved for conditions that match only themselves
  (`Exact`): with a subsumption, an UNSUBSCRIBE can take another entry than the
  one it names. `StepsOfFanout` (`FanoutSteps`) is for any matching: by
  `EventMapProofs`, each method joins one key, leaves one, or changes none.
* `SharedSlicesProofs`: `TypeCorrect`, `MarksOnlyKnown` (`MarksKnown`),
  `ExactUndisturbed` (`ExactIfQuiet`), `MissesNothingElse` (`NothingMissed`).
  `Arrays`, `Call` and `Reading` say which places are filled: those below the
  map's length, the one a call under way has written, and those of the view,
  which is never longer than either of its arrays, whichever array each of its
  two slices still shares. `Marked` says that what lies there is known. `Quiet`
  is the loop invariant of an undisturbed `Match` over what `Get` saw. `Held` is
  the one of a `Match` during which nothing is removed: an entry of the type that
  stays is at a place of the view, below the map's length if the array is the
  map's, and either still ahead or already marked.
* `WebSocketProofs`: `TypeCorrect`, `GreetsFirst`, `AnnouncesClose`,
  `LeavesOnlyIfCut` (`LeftBehind`), `ImplementsLifecycle` (initial states and
  steps; the fairness of `Lifecycle` is left to TLC). `AnnouncesClose` needs
  `Ordered`: the socket is closed before the context is cancelled, so a `Write`
  that silently does nothing is followed by a close frame that cannot be written.
  `GreetsFirst` needs `Quiet`: nobody but main runs before `ready`, and after a
  failed Hello the socket is broken. `LeavesOnlyIfCut` needs `Left`: once the map
  was destroyed with nobody in a place from which it can subscribe (`CanJoin`),
  nobody comes to such a place again, because the context is cancelled and the
  reader looks at it before it begins. `GoesOn` (`NeverStuck`) needs `Woken`: a goroutine
  that ended left the context cancelled, `ready` closed or the socket dead, which
  the others wait for. For `StepsRunOut` (`WindsDown`), `StepsLeft` is the sum of
  the goroutines' distances to their ends, and a step moves one of them nearer.
* `EventStreamProofs`: `TypeCorrect`, `GreetsFirst`, `NumbersEvents` (`IdsCount`),
  `LeavesOnlyIfCut` (`LeftBehind`), `ImplementsLifecycle`, `GoesOn`,
  `StepsRunOut`. `Control` ties the
  places of the goroutines to the shared flags; `Quiet` and `HelloNext` say that
  before `ready` only main writes, and only the Hello; `InTurn`, that without an
  overlap one goroutine writes, and its id is the number of events received;
  `Left`, that a map destroyed with nobody subscribing stays empty. `Woken` is as
  for the WebSocket; `StepsLeft` also counts the subscriptions still to do, and
  one of those outweighs its Ack or Error.
* `ServerProofs`: `TypeCorrect`, `LimitKept`, `DrainsConnections`, `GivesGrace`.
  `LimitKept` needs `Room`: unless admissions raced, at most one connection is
  admitted and not yet counted, and there is room for it. The other two need
  `Counted` and `Waited`: who was counted at the shutdown never becomes
  uncounted other than by being closed, so an empty count means they are closed.

`GoesOn` and `StepsRunOut` are what `Ends` rests on besides fairness. `Waits(p)`
is that goroutine `p`'s fair action is disabled (a statement about `ENABLED`,
compared with it by TLC only), so while a connection that is to end is not gone,
some fair action is enabled; and once it is cancelled, only heartbeats,
dispatches and commands can keep `StepsLeft` from falling, each for one step. That fairness then
ends it, and that a connection which is to end gets cancelled, is what TLC's
check of `Ends` adds.

Only model-checked: liveness under fairness (`Drains`, `InlineAnswered`, `Ends`,
`Exits`, the fairness of `Lifecycle`), which with `ENABLED` is out of TLAPS's
reach here, as are induction over data and RECURSIVE operators (none is used).
That `LateAtMostOne` holds with conditions that match others is neither proved
nor checked: the run, like the theorem, has conditions that match only
themselves.

## Not modelled

* The event buffer, resume, Redis and session mutation: disabled or dead code.
  `OnResume` always answers that nothing was resumed.
* The subscription limit: `Count` reads a number that nothing updates, so the
  check at `handle.go:174` never fires for a positive limit.
* Health, monitoring, pprof, configuration and logging: no state that the rest
  reads.
* Validation in `handler.Subscribe` (`handle.go:142-225`): a command that fails it
  is `Refuse` of WebSocket and the refused item of EventStream, whatever the
  check that failed. In particular the limit of conditions: its loop compares an
  index, starting at 0, with `>`, so it admits 11 where the Error's
  `condition_keys_most` says 10.
* The syntax of inline subscriptions (`v3.go:24-28, 54-73`).
* Collisions of `rand.Uint32` IDs.
* The close frames gorilla sends itself when a client breaks the WebSocket
  protocol: the read that follows is a `ReadError` or `ReadClose`, but the frame
  is not on `wire`, so `CloseAnnounced` is about the server's own.
* What a stale key costs: `Unsubscribe` without a condition leaves the type's
  keys joined, in the model as in the code (`connection.go:157-165`); their
  messages are filtered out, and no property forbids them.
* That the deferred log line of `Middleware` dereferences `r.Response`, which is
  nil in a server's request, and panics after each handler: net/http recovers
  and the request is over either way. Nor what net/http does when a goroutine of
  an EventStream writes after its handler has returned, beyond that nobody hears
  it.
* In EventStream, what the client reads once two Writes overlapped: it is
  undefined, and no property speaks about it.

## Plan

Done: NatsRegistry with Fanout, Subscriptions, Dispatch with BRIDGE, SharedSlices,
WebSocket and EventStream with Lifecycle, Server; proofs of every safety property
of each. Left:

1. `Validation`: the checks of `handler.Subscribe` in order, as an operator
   against a reference definition.
2. `SharedSlices` against `Dispatch`'s atomic `Filter`: that a Match nobody
   disturbs is that step is `ExactIfQuiet`, which is proved; a refinement would
   need `Filter` to admit the outcomes of the disturbed ones, which
   `NothingMissed` and `MarksKnown` bound.
3. What a server of many connections is to the registry: `FanoutSteps` is about
   one session.
