---------------------------- MODULE ServerProofs ----------------------------
(***************************************************************************)
(* Server proved for any finite set of connections and any limit.          *)
(*                                                                         *)
(* OvershootNeedsRace: as long as no two admissions raced, at most one     *)
(* connection is pending, and then there is room for it (Room).            *)
(*                                                                         *)
(* Drained and GraceGiven: whom activeConns counted at the shutdown was    *)
(* counted then or is counted out since (Counted), so that an empty count  *)
(* means that all of them are closed (Waited); and server.Shutdown leaves  *)
(* no handler behind (Served).                                             *)
(***************************************************************************)
EXTENDS Server, FiniteSetTheorems, TLAPS

Counted ==
  /\ \A c \in Conn : tracked[c] = "yes" => life[c] # "opening"
  /\ \A c \in Conn : tracked[c] = "done" => life[c] = "closed"
  /\ \A c \in counted : tracked[c] # "no"

Waited ==
  /\ closer \in {"drain", "done"} /\ ~timedOut => \A c \in counted : tracked[c] = "done"
  /\ exited \in {"ok", "failed"} => closer \in {"drain", "done"}
  /\ closer = "done" => \A c \in Conn : ~Served(c)

Room ==
  ~raced => /\ \A c, d \in Pending : c = d
            /\ activeConns <= ConnectionLimit
            /\ Pending # {} => activeConns < ConnectionLimit

IInv == TypeOK /\ Counted /\ Waited /\ Room
-----------------------------------------------------------------------------
LEMMA TrackedFinite ==
  ASSUME TypeOK
  PROVE  IsFiniteSet(Tracked) /\ activeConns \in Nat /\ (activeConns = 0 <=> Tracked = {})
<1>1. IsFiniteSet(Tracked)
  BY ServerAssumption, FS_Subset DEF Tracked
<1>. QED
  BY <1>1, FS_CardinalityType, FS_EmptySet DEF activeConns

LEMMA InitInv == Init => IInv
<1>. SUFFICES ASSUME Init PROVE IInv
  OBVIOUS
<1>. USE DEF Init, L!Init
<1>1. TypeOK
  BY DEF TypeOK
<1>2. Counted /\ Waited
  BY DEF Counted, Waited
<1>3. Tracked = {} /\ Pending = {}
  BY DEF Tracked, Pending
<1>4. Room
  BY <1>1, <1>3, TrackedFinite, ServerAssumption DEF Room
<1>. QED
  BY <1>1, <1>2, <1>4 DEF IInv
-----------------------------------------------------------------------------
(* Types, and what a step does to the connections that were counted.       *)

LEMMA TypeInv == TypeOK /\ [Next]_vars => TypeOK'
<1>. SUFFICES ASSUME TypeOK, [Next]_vars PROVE TypeOK'
  OBVIOUS
<1>. USE DEF TypeOK, conns, closing, process, Goto
<1>1. ASSUME NEW c \in Conn, Arrive(c) \/ handleV3(c) \/ HandlerReturns(c)
      PROVE  TypeOK'
  BY <1>1 DEF Arrive, handleV3, HandlerReturns
<1>2. ASSUME NEW c \in Conn, Admit(c) PROVE TypeOK'
  <2>1. raced' \in BOOLEAN
    BY <1>2 DEF Admit
  <2>2. \E l \in {"over", "admitted"} : Goto(c, l)
    BY <1>2 DEF Admit
  <2>. QED
    BY <1>2, <2>1, <2>2 DEF Admit
<1>3. ASSUME NEW c \in Conn, Connection(c) PROVE TypeOK'
  BY <1>3 DEF Connection, L!Open, L!Close
<1>4. ASSUME NEW c \in Conn, TrackConnection(c) PROVE TypeOK'
  BY <1>4 DEF TrackConnection, L!Count, L!Uncount
<1>5. CASE Begin
  BY <1>5 DEF Begin, L!Shutdown, Tracked
<1>6. CASE Lock
  BY <1>6 DEF Lock
<1>7. CASE Poll
  BY <1>7 DEF Poll
<1>8. CASE Drain
  BY <1>8 DEF Drain
<1>9. CASE Signal
  <2>1. signals' \in {0, 1, 2}
    BY <1>9 DEF Signal
  <2>. QED
    BY <1>9, <2>1 DEF Signal
<1>10. CASE Cancel \/ ForceExit \/ Done \/ ListenAndServe \/ FileEvent
  <2>1. CASE Cancel
    BY <2>1 DEF Cancel
  <2>2. ASSUME NEW how \in {"ok", "failed", "forced"}, Exit(how) PROVE TypeOK'
    BY <2>2 DEF Exit
  <2>3. CASE FileEvent
    BY <2>3 DEF FileEvent
  <2>. QED
    BY <1>10, <2>1, <2>2, <2>3 DEF ForceExit, Done, ListenAndServe
<1>11. CASE UNCHANGED vars
  BY <1>11 DEF vars
<1>. QED
  BY <1>1, <1>2, <1>3, <1>4, <1>5, <1>6, <1>7, <1>8, <1>9, <1>10, <1>11
     DEF Next, Requests, Closer, Main

LEMMA CountedInv == TypeOK /\ Counted /\ [Next]_vars => Counted'
<1>. SUFFICES ASSUME TypeOK, Counted, [Next]_vars PROVE Counted'
  OBVIOUS
<1>. USE DEF TypeOK, Counted, conns, closing, process
<1>1. ASSUME NEW c \in Conn, Arrive(c) \/ Admit(c) \/ handleV3(c) \/ HandlerReturns(c)
      PROVE  Counted'
  BY <1>1 DEF Arrive, Admit, handleV3, HandlerReturns
<1>2. ASSUME NEW c \in Conn, Connection(c) PROVE Counted'
  BY <1>2 DEF Connection, L!Open, L!Close
<1>3. ASSUME NEW c \in Conn, TrackConnection(c) PROVE Counted'
  BY <1>3 DEF TrackConnection, L!Count, L!Uncount
<1>4. CASE Begin
  BY <1>4 DEF Begin, L!Shutdown, Tracked
<1>5. CASE Lock \/ Poll \/ Drain
  BY <1>5 DEF Lock, Poll, Drain
<1>6. CASE Main \/ ListenAndServe \/ FileEvent \/ Signal
  BY <1>6 DEF Main, Cancel, ForceExit, Done, ListenAndServe, FileEvent, Signal, Exit
<1>7. CASE UNCHANGED vars
  BY <1>7 DEF vars
<1>. QED
  BY <1>1, <1>2, <1>3, <1>4, <1>5, <1>6, <1>7 DEF Next, Requests, Closer

LEMMA WaitedInv == TypeOK /\ Counted /\ Waited /\ [Next]_vars => Waited'
<1>. SUFFICES ASSUME TypeOK, Counted, Waited, [Next]_vars PROVE Waited'
  OBVIOUS
<1>. USE DEF TypeOK, Waited, Served, conns, closing, process
<1>1. ASSUME NEW c \in Conn, Arrive(c) \/ Admit(c) \/ handleV3(c) \/ HandlerReturns(c)
      PROVE  Waited'
  BY <1>1 DEF Arrive, Admit, handleV3, HandlerReturns, Goto
<1>2. ASSUME NEW c \in Conn, Connection(c) PROVE Waited'
  BY <1>2 DEF Connection, L!Open, L!Close
<1>3. ASSUME NEW c \in Conn, TrackConnection(c) PROVE Waited'
  BY <1>3 DEF TrackConnection, L!Count, L!Uncount
<1>4. CASE Begin \/ Lock
  BY <1>4 DEF Begin, Lock, L!Shutdown
<1>5. CASE Poll
  <2>1. ~timedOut' => Tracked = {}
    BY <1>5, TrackedFinite DEF Poll
  <2>2. ~timedOut' => \A c \in counted : tracked[c] = "done"
    BY <2>1 DEF Tracked, Counted
  <2>. QED
    BY <1>5, <2>2 DEF Poll
<1>6. CASE Drain
  BY <1>6 DEF Drain
<1>7. CASE Main \/ ListenAndServe
  BY <1>7 DEF Main, Cancel, ForceExit, Done, ListenAndServe, Exit
<1>8. CASE FileEvent \/ Signal \/ UNCHANGED vars
  BY <1>8 DEF FileEvent, Signal, vars
<1>. QED
  BY <1>1, <1>2, <1>3, <1>4, <1>5, <1>6, <1>7, <1>8 DEF Next, Requests, Closer
-----------------------------------------------------------------------------
(* The limit.  Only an admission adds to Pending, and only a count moves a *)
(* connection from Pending to Tracked.                                     *)

LEMMA LessRoom ==
  ASSUME Room, raced' = raced, Tracked' = Tracked, Pending' \subseteq Pending
  PROVE  Room'
BY DEF Room, activeConns

LEMMA AdmitRoom ==
  ASSUME TypeOK, Room, NEW c \in Conn, Admit(c)
  PROVE  Room'
<1>1. Tracked' = Tracked
  BY DEF Tracked, Admit
<1>2. CASE activeConns >= ConnectionLimit
  <2>1. Pending' \subseteq Pending /\ raced' = raced
    BY <1>2 DEF Admit, Goto, Pending, TypeOK
  <2>. QED
    BY <1>1, <2>1, LessRoom
<1>3. CASE ~(activeConns >= ConnectionLimit)
  <2>1. ~raced' => Pending = {}
    BY <1>3 DEF Admit
  <2>2. Pending' \subseteq Pending \cup {c}
    BY <1>3 DEF Admit, Goto, Pending, TypeOK
  <2>3. activeConns' = activeConns /\ activeConns < ConnectionLimit
    BY <1>1, <1>3, TrackedFinite, ServerAssumption DEF activeConns
  <2>. QED
    BY <2>1, <2>2, <2>3, TrackedFinite, ServerAssumption DEF Room
<1>. QED
  BY <1>2, <1>3

LEMMA CountRoom ==
  ASSUME TypeOK, Room, NEW c \in Conn, L!Count(c), UNCHANGED <<req, raced>>
  PROVE  Room'
<1>1. c \in Pending /\ c \notin Tracked
  BY DEF L!Count, Pending, Tracked
<1>2. Tracked' = Tracked \cup {c} /\ Pending' = Pending \ {c}
  BY DEF L!Count, Pending, Tracked, TypeOK
<1>3. activeConns' = activeConns + 1
  BY <1>1, <1>2, TrackedFinite, FS_AddElement DEF activeConns
<1>. QED
  BY <1>1, <1>2, <1>3, TrackedFinite, ServerAssumption DEF Room

LEMMA UncountRoom ==
  ASSUME TypeOK, Room, NEW c \in Conn, L!Uncount(c), UNCHANGED <<req, raced>>
  PROVE  Room'
<1>1. c \in Tracked
  BY DEF L!Uncount, Tracked
<1>2. Tracked' = Tracked \ {c} /\ Pending' = Pending
  BY DEF L!Uncount, Pending, Tracked, TypeOK
<1>3. activeConns' = activeConns - 1
  BY <1>1, <1>2, TrackedFinite, FS_RemoveElement DEF activeConns
<1>. QED
  BY <1>2, <1>3, TrackedFinite, ServerAssumption DEF Room

LEMMA RoomInv == TypeOK /\ Room /\ [Next]_vars => Room'
<1>. SUFFICES ASSUME TypeOK, Room, [Next]_vars PROVE Room'
  OBVIOUS
<1>. USE DEF conns, closing, process
<1>1. ASSUME NEW c \in Conn, Arrive(c) \/ handleV3(c) \/ HandlerReturns(c) PROVE Room'
  <2>1. Tracked' = Tracked /\ raced' = raced
    BY <1>1 DEF Arrive, handleV3, HandlerReturns, Tracked
  <2>2. Pending' \subseteq Pending
    BY <1>1 DEF Arrive, handleV3, HandlerReturns, Goto, Pending, TypeOK
  <2>. QED
    BY <2>1, <2>2, LessRoom
<1>2. ASSUME NEW c \in Conn, Admit(c) PROVE Room'
  BY <1>2, AdmitRoom
<1>3. ASSUME NEW c \in Conn, Connection(c) PROVE Room'
  <2>1. Tracked' = Tracked /\ raced' = raced
    BY <1>3 DEF Connection, L!Open, L!Close, Tracked
  <2>2. Pending' \subseteq Pending
    BY <1>3 DEF Connection, L!Open, L!Close, Pending, TypeOK
  <2>. QED
    BY <2>1, <2>2, LessRoom
<1>4. ASSUME NEW c \in Conn, TrackConnection(c) PROVE Room'
  BY <1>4, CountRoom, UncountRoom DEF TrackConnection
<1>5. CASE Closer \/ Main \/ ListenAndServe \/ FileEvent \/ Signal \/ UNCHANGED vars
  <2>1. UNCHANGED <<req, life, tracked, raced>>
    BY <1>5 DEF Closer, Begin, Lock, Poll, Drain, Main, Cancel, ForceExit, Done,
                ListenAndServe, FileEvent, Signal, Exit, vars, L!Shutdown
  <2>. QED
    BY <2>1, LessRoom DEF Tracked, Pending
<1>. QED
  BY <1>1, <1>2, <1>3, <1>4, <1>5 DEF Next, Requests
-----------------------------------------------------------------------------
LEMMA Invariant == Spec => []IInv
<1>1. IInv /\ [Next]_vars => IInv'
  BY TypeInv, CountedInv, WaitedInv, RoomInv DEF IInv
<1>. QED
  BY InitInv, <1>1, PTL DEF Spec

(* Every variable of the server keeps its type, and it is never locked     *)
(* before its channel was closed (server.go:97-98).                        *)
THEOREM TypeCorrect == Spec => []TypeOK
<1>1. IInv => TypeOK
  BY DEF IInv
<1>. QED
  BY <1>1, Invariant, PTL

(* However many connections there are, requests that are admitted one by   *)
(* one never exceed the limit (server.go:173, connect.go:25).              *)
THEOREM LimitKept == Spec => []OvershootNeedsRace
<1>1. IInv => OvershootNeedsRace
  BY TrackedFinite, ServerAssumption DEF IInv, Room, OvershootNeedsRace
<1>. QED
  BY <1>1, Invariant, PTL

(* NATS is closed only after every EventStream ended, and but for the 30 s *)
(* after every connection that was counted (server.go:100-120).            *)
THEOREM DrainsConnections == Spec => []Drained
<1>1. IInv => Drained
  BY DEF IInv, TypeOK, Counted, Waited, Served, Drained
<1>. QED
  BY <1>1, Invariant, PTL

(* A process that is not forced leaves the counted connections their 30 s  *)
(* (server.go:69-74, 100-113, main.go:131-143).                            *)
THEOREM GivesGrace == Spec => []GraceGiven
<1>1. IInv => GraceGiven
  BY DEF IInv, TypeOK, Counted, Waited, GraceGiven
<1>. QED
  BY <1>1, Invariant, PTL
=============================================================================
