----------------------------- MODULE Lifecycle ------------------------------
(***************************************************************************)
(* What the server promises of a connection, whatever its transport: it    *)
(* opens and closes once, activeConns counts it from some time after it    *)
(* opened to some time after it closed, and a shutdown closes it.          *)
(*                                                                         *)
(*   life      opening until the Hello was written, closed once its        *)
(*             context is cancelled                                        *)
(*   tracked   whether activeConns counts it: not yet, yes, no more        *)
(*   shutdown  Server.shutdown is closed                                   *)
(***************************************************************************)
EXTENDS FiniteSets

CONSTANT Conn

VARIABLES life, tracked, shutdown

lvars == <<life, tracked, shutdown>>

Init ==
  /\ life = [c \in Conn |-> "opening"]
  /\ tracked = [c \in Conn |-> "no"]
  /\ shutdown = FALSE

Open(c) ==
  /\ life[c] = "opening" /\ life' = [life EXCEPT ![c] = "open"]
  /\ UNCHANGED <<tracked, shutdown>>

Close(c) ==
  /\ life[c] # "closed" /\ life' = [life EXCEPT ![c] = "closed"]
  /\ UNCHANGED <<tracked, shutdown>>

Count(c) ==
  /\ tracked[c] = "no" /\ life[c] # "opening"
  /\ tracked' = [tracked EXCEPT ![c] = "yes"]
  /\ UNCHANGED <<life, shutdown>>

Uncount(c) ==
  /\ tracked[c] = "yes" /\ life[c] = "closed"
  /\ tracked' = [tracked EXCEPT ![c] = "done"]
  /\ UNCHANGED <<life, shutdown>>

Shutdown == shutdown' = TRUE /\ UNCHANGED <<life, tracked>>

Next == Shutdown \/ \E c \in Conn : Open(c) \/ Close(c) \/ Count(c) \/ Uncount(c)

(* Closed connections are counted out; a shutdown closes the others, those *)
(* that open after it included.                                            *)
Fairness ==
  \A c \in Conn :
    /\ WF_lvars(shutdown /\ Close(c))
    /\ WF_lvars(Count(c))
    /\ WF_lvars(Uncount(c))

Spec == Init /\ [][Next]_lvars /\ Fairness
=============================================================================
