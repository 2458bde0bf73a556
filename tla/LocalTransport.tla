--------------------------- MODULE LocalTransport ---------------------------
(***************************************************************************)
(* sifr/transport/local.py: a pair of endpoints joined by two unbounded    *)
(* queues.  It is also what any Transport promises: messages come in the   *)
(* order they were sent, each at most once and unchanged.                  *)
(***************************************************************************)
EXTENDS Sequences

CONSTANTS Messages, Pairs

VARIABLES
  queue,     \* per pair and side: what was sent to that side and not received
  delivered  \* history: what each side has received

localVars == <<queue, delivered>>

Sides == {"client", "server"}

Peer(s) == CHOOSE t \in Sides : t # s

Init ==
  /\ queue = [p \in Pairs |-> [s \in Sides |-> <<>>]]
  /\ delivered = [p \in Pairs |-> [s \in Sides |-> <<>>]]

Send(p, s, m) ==
  /\ queue' = [queue EXCEPT ![p][Peer(s)] = Append(@, m)]
  /\ UNCHANGED delivered

Recv(p, s) ==
  /\ queue[p][s] # <<>>
  /\ queue' = [queue EXCEPT ![p][s] = Tail(@)]
  /\ delivered' = [delivered EXCEPT ![p][s] = Append(@, Head(queue[p][s]))]

Next == \E p \in Pairs, s \in Sides : Recv(p, s) \/ \E m \in Messages : Send(p, s, m)

Spec == Init /\ [][Next]_localVars
=============================================================================
