--------------------------- MODULE QuicTransport ----------------------------
(***************************************************************************)
(* sifr/transport/quic.py: frames on a QUIC stream, the inbox of each      *)
(* endpoint, connecting, accepting and closing; under it QUIC itself, a    *)
(* reliable byte stream per direction that ends when the connection does   *)
(* (external: aioquic).                                                    *)
(*                                                                         *)
(* The applications are those of docker/quic_node.py and                   *)
(* examples/demo_quic_two_agents.py: a client sends its messages, reads    *)
(* the answers and closes; the server calls accept once and answers each   *)
(* message of that client, until recv raises.  Clients that arrive later   *)
(* stay in the queue.  asyncio runs one step of a process between two      *)
(* awaits.                                                                 *)
(***************************************************************************)
EXTENDS Naturals, Sequences, SequencesExt

CONSTANTS
  Conns,     \* connections, each with its client
  Script,    \* per connection: the bodies its client sends
  Chunks,    \* bound of the exploration: sizes in which QUIC hands over bytes
  Losses,    \* bound of the exploration: connections that may be lost
  NoConn     \* accept has no connection yet

\* to_bytes(4) raises for more.
FitsHeader(length) == length \div 16777216 < 256

ASSUME QuicAssumption ==
  /\ Script \in [Conns -> Seq(Seq(0..255))]
  /\ \A c \in Conns : \A i \in DOMAIN Script[c] : FitsHeader(Len(Script[c][i]))
  /\ Chunks \subseteq Nat \ {0}
  /\ Losses \subseteq Conns

VARIABLES
  handshake,  \* per connection: "none", "made", "client", "done"
  arrivals,   \* history: connections in the order of connection_made
  newClients, \* the queue new_clients of serve_quic
  waiting,    \* the connection whose handshake_done accept waits for
  served,     \* connections that accept has returned
  wire,       \* per connection and side: bytes on their way to that side
  buffer,     \* _buffer
  inbox,      \* the queue of frames, each in a <<>>; <<>> stands for None
  closed,     \* per connection: the sides that closed it; "lost" when it broke
  ended,      \* per connection: the sides that had ConnectionTerminated
  app,        \* per connection and side: "off", "on", "done" or "failed"
  sent,       \* history: bodies sent by each side
  received    \* history: bodies recv returned to each side

netVars == <<wire, buffer, inbox, closed, ended>>
appVars == <<app, sent, received>>
acceptVars == <<handshake, arrivals, newClients, waiting, served>>
vars == <<netVars, appVars, acceptVars>>

Sides == {"client", "server"}

Peer(s) == CHOOSE t \in Sides : t # s

PerSide(x) == [c \in Conns |-> [s \in Sides |-> x]]

Init ==
  /\ handshake = [c \in Conns |-> "none"]
  /\ arrivals = <<>>
  /\ newClients = <<>>
  /\ waiting = NoConn
  /\ served = {}
  /\ wire = PerSide(<<>>)
  /\ buffer = PerSide(<<>>)
  /\ inbox = PerSide(<<>>)
  /\ closed = [c \in Conns |-> {}]
  /\ ended = [c \in Conns |-> {}]
  /\ app = PerSide("off")
  /\ sent = PerSide(<<>>)
  /\ received = PerSide(<<>>)

-----------------------------------------------------------------------------
(* Frames                                                                  *)

Header(length) ==
  <<length \div 16777216, (length \div 65536) % 256, (length \div 256) % 256, length % 256>>

\* Four bytes, big-endian, and the body.
Frame(body) == Header(Len(body)) \o body

Length(bytes) == 16777216 * bytes[1] + 65536 * bytes[2] + 256 * bytes[3] + bytes[4]

Complete(bytes) == Len(bytes) >= 4 /\ Len(bytes) >= 4 + Length(bytes)

\* Mutation: the header is taken to be three bytes long here.
BodyFromThree(bytes) == SubSeq(bytes, 4, 3 + Length(bytes))

FirstBody(bytes) == SubSeq(bytes, 5, 4 + Length(bytes))

AfterFirst(bytes) == SubSeq(bytes, 5 + Length(bytes), Len(bytes))

\* Mutation: what follows the last complete frame is thrown away.
RoundAndClear(got) ==
  IF Complete(got.rest)
  THEN [bodies |-> Append(got.bodies, FirstBody(got.rest)), rest |-> AfterFirst(got.rest)]
  ELSE [got EXCEPT !.rest = <<>>]

\* One round of the loop of quic_event_received: the frame at the front of the
\* bytes, if it is complete, becomes a body.
Round(got) ==
  IF Complete(got.rest)
  THEN [bodies |-> Append(got.bodies, FirstBody(got.rest)), rest |-> AfterFirst(got.rest)]
  ELSE got

Unread(bytes) == [bodies |-> <<>>, rest |-> bytes]

\* Mutation: one frame per event.
UnframeOnce(bytes) == Round(Unread(bytes))

\* The bodies of the complete frames at the front of the bytes, and the bytes
\* behind them.  A frame has four bytes or more.
Unframe(bytes) ==
  LET rounds == Len(bytes) \div 4
      after[i \in 0..rounds] == IF i = 0 THEN Unread(bytes) ELSE Round(after[i - 1])
  IN  after[rounds]

-----------------------------------------------------------------------------
(* Events of the connection                                                *)

\* StreamDataReceived with the next bytes of the stream.
Deliver(c, s) ==
  /\ wire[c][s] # <<>>
  /\ handshake[c] = "done"
  /\ s \notin closed[c] /\ s \notin ended[c]
  /\ \E n \in {k \in Chunks : k <= Len(wire[c][s])} \cup {Len(wire[c][s])} :
       LET got == Unframe(buffer[c][s] \o SubSeq(wire[c][s], 1, n))
       IN  /\ wire' = [wire EXCEPT ![c][s] = SubSeq(@, n + 1, Len(@))]
           /\ buffer' = [buffer EXCEPT ![c][s] = got.rest]
           /\ inbox' = [inbox EXCEPT ![c][s] = @ \o [i \in DOMAIN got.bodies |-> <<got.bodies[i]>>]]
  /\ UNCHANGED <<closed, ended, appVars, acceptVars>>

\* Mutation: the end is reported only to an endpoint with nothing left to read.
TerminatedIfIdle(c, s) ==
  /\ closed[c] # {} /\ s \notin ended[c]
  /\ ended' = [ended EXCEPT ![c] = @ \cup {s}]
  /\ inbox' = IF inbox[c][s] = <<>> THEN [inbox EXCEPT ![c][s] = <<<<>>>>] ELSE inbox
  /\ UNCHANGED <<wire, buffer, closed, appVars, acceptVars>>

\* ConnectionTerminated: one None goes into the inbox, after the frames.
Terminated(c, s) ==
  /\ closed[c] # {} /\ s \notin ended[c]
  /\ ended' = [ended EXCEPT ![c] = @ \cup {s}]
  /\ inbox' = [inbox EXCEPT ![c][s] = Append(@, <<>>)]
  /\ UNCHANGED <<wire, buffer, closed, appVars, acceptVars>>

\* The network loses the connection (idle timeout, host gone).
Lose(c) ==
  /\ c \in Losses /\ handshake[c] # "none" /\ closed[c] = {}
  /\ closed' = [closed EXCEPT ![c] = {"lost"}]
  /\ UNCHANGED <<wire, buffer, inbox, ended, appVars, acceptVars>>

-----------------------------------------------------------------------------
(* Connecting and accepting                                                *)

\* connection_made at the server.
Connect(c) ==
  /\ handshake[c] = "none"
  /\ handshake' = [handshake EXCEPT ![c] = "made"]
  /\ arrivals' = Append(arrivals, c)
  /\ newClients' = Append(newClients, c)
  /\ UNCHANGED <<waiting, served, netVars, appVars>>

\* HandshakeCompleted, at the client first: connect_quic returns.
ClientReady(c) ==
  /\ handshake[c] = "made" /\ closed[c] = {}
  /\ handshake' = [handshake EXCEPT ![c] = "client"]
  /\ app' = [app EXCEPT ![c].client = "on"]
  /\ UNCHANGED <<arrivals, newClients, waiting, served, netVars, sent, received>>

ServerReady(c) ==
  /\ handshake[c] = "client" /\ closed[c] = {}
  /\ handshake' = [handshake EXCEPT ![c] = "done"]
  /\ UNCHANGED <<arrivals, newClients, waiting, served, netVars, appVars>>

\* connect_quic gives up after ten seconds, leaves the context and raises;
\* nothing tells the server's accept.
ConnectTimeout(c) ==
  /\ handshake[c] = "made" /\ app[c].client = "off"
  /\ app' = [app EXCEPT ![c].client = "failed"]
  /\ closed' = [closed EXCEPT ![c] = @ \cup {"client"}]
  /\ UNCHANGED <<wire, buffer, inbox, ended, sent, received, acceptVars>>

\* Mutation: accept skips a client that is not ready.
AcceptTakesReady ==
  /\ waiting = NoConn /\ served = {} /\ newClients # <<>>
  /\ newClients' = Tail(newClients)
  /\ waiting' = IF handshake[Head(newClients)] = "done" THEN Head(newClients) ELSE NoConn
  /\ UNCHANGED <<handshake, arrivals, served, netVars, appVars>>

\* The one call of accept: the first client in the order of arrival ...
AcceptTakes ==
  /\ waiting = NoConn /\ served = {} /\ newClients # <<>>
  /\ newClients' = Tail(newClients)
  /\ waiting' = Head(newClients)
  /\ UNCHANGED <<handshake, arrivals, served, netVars, appVars>>

\* ... and then its handshake, for as long as that takes.
AcceptReturns ==
  /\ waiting # NoConn /\ handshake[waiting] = "done"
  /\ served' = served \cup {waiting}
  /\ app' = [app EXCEPT ![waiting].server = "on"]
  /\ waiting' = NoConn
  /\ UNCHANGED <<handshake, arrivals, newClients, netVars, sent, received>>

-----------------------------------------------------------------------------
(* QuicTransport, as the applications call it                              *)

Send(c, s, body) ==
  /\ sent' = [sent EXCEPT ![c][s] = Append(@, body)]
  /\ wire' = [wire EXCEPT ![c][Peer(s)] = @ \o Frame(body)]

\* send does not wait, whatever has become of the connection.
ClientSends(c) ==
  /\ app[c].client = "on" /\ Len(sent[c].client) < Len(Script[c])
  /\ Send(c, "client", Script[c][Len(sent[c].client) + 1])
  /\ UNCHANGED <<buffer, inbox, closed, ended, app, received, acceptVars>>

\* recv returns a frame.
Receives(c, s) ==
  /\ app[c][s] = "on"
  /\ inbox[c][s] # <<>> /\ Head(inbox[c][s]) # <<>>
  /\ inbox' = [inbox EXCEPT ![c][s] = Tail(@)]
  /\ received' = [received EXCEPT ![c][s] = Append(@, Head(inbox[c][s])[1])]

ClientReceives(c) ==
  /\ Receives(c, "client")
  /\ UNCHANGED <<wire, buffer, closed, ended, app, sent, acceptVars>>

\* The server answers each message before its next recv.
ServerReceives(c) ==
  /\ Len(sent[c].server) = Len(received[c].server)
  /\ Receives(c, "server")
  /\ UNCHANGED <<wire, buffer, closed, ended, app, sent, acceptVars>>

ServerAnswers(c) ==
  /\ Len(sent[c].server) < Len(received[c].server)
  /\ Send(c, "server", <<Len(sent[c].server)>>)
  /\ UNCHANGED <<buffer, inbox, closed, ended, app, received, acceptVars>>

\* recv raises ConnectionError, which takes the None out of the inbox; the
\* application ends.
RecvRaises(c, s) ==
  /\ app[c][s] = "on"
  /\ s = "server" => Len(sent[c].server) = Len(received[c].server)
  /\ inbox[c][s] # <<>> /\ Head(inbox[c][s]) = <<>>
  /\ inbox' = [inbox EXCEPT ![c][s] = Tail(@)]
  /\ app' = [app EXCEPT ![c][s] = IF s = "client" THEN "failed" ELSE "done"]
  /\ UNCHANGED <<wire, buffer, closed, ended, sent, received, acceptVars>>

\* close, once the client has all its answers.
ClientCloses(c) ==
  /\ app[c].client = "on"
  /\ Len(received[c].client) = Len(Script[c])
  /\ app' = [app EXCEPT ![c].client = "done"]
  /\ closed' = [closed EXCEPT ![c] = @ \cup {"client"}]
  /\ UNCHANGED <<wire, buffer, inbox, ended, sent, received, acceptVars>>

Next ==
  \/ AcceptTakes \/ AcceptReturns
  \/ \E c \in Conns :
       \/ Connect(c) \/ ClientReady(c) \/ ServerReady(c) \/ ConnectTimeout(c) \/ Lose(c)
       \/ ClientSends(c) \/ ClientReceives(c) \/ ClientCloses(c)
       \/ ServerReceives(c) \/ ServerAnswers(c)
       \/ \E s \in Sides : Deliver(c, s) \/ Terminated(c, s) \/ RecvRaises(c, s)

Spec == Init /\ [][Next]_vars

\* QUIC delivers and reports, and asyncio resumes what can go on.  Nobody has
\* to connect, no handshake has to succeed.
FairSpec ==
  /\ Spec
  /\ WF_vars(AcceptTakes) /\ WF_vars(AcceptReturns)
  /\ \A c \in Conns :
       /\ WF_vars(ClientSends(c)) /\ WF_vars(ClientReceives(c)) /\ WF_vars(ClientCloses(c))
       /\ WF_vars(ServerReceives(c)) /\ WF_vars(ServerAnswers(c))
       /\ \A s \in Sides :
            WF_vars(Deliver(c, s)) /\ WF_vars(Terminated(c, s)) /\ WF_vars(RecvRaises(c, s))

-----------------------------------------------------------------------------
TypeOK ==
  /\ handshake \in [Conns -> {"none", "made", "client", "done"}]
  /\ newClients \in Seq(Conns) /\ IsSuffix(newClients, arrivals)
  /\ waiting \in Conns \cup {NoConn}
  /\ served \subseteq Conns
  /\ \A c \in Conns : closed[c] \subseteq {"client", "lost"} /\ ended[c] \subseteq Sides
  /\ \A c \in Conns, s \in Sides :
       /\ ~Complete(buffer[c][s])
       /\ app[c][s] \in {"off", "on", "done", "failed"}

Bodies ==
  UNION {Range(Script[c]) \cup {<<i - 1>> : i \in DOMAIN Script[c]} : c \in Conns}

\* Whatever the pieces in which the bytes arrive, the applications see the
\* queues of LocalTransport.
Local == INSTANCE LocalTransport WITH
  Messages <- Bodies,
  Pairs <- Conns,
  queue <- [c \in Conns |-> [s \in Sides |->
              SubSeq(sent[c][Peer(s)], Len(received[c][s]) + 1, Len(sent[c][Peer(s)]))]],
  delivered <- received

ImplementsLocal == Local!Spec

\* accept returns the client that arrived first, when its handshake is
\* complete, however many arrive meanwhile or are ready before it.
AcceptServes ==
  \A c \in Conns :
    arrivals # <<>> /\ arrivals[1] = c /\ handshake[c] = "done" ~> c \in served

\* What a client sends on a connection that is served reaches the server,
\* unless the connection ends first.
SentArrives ==
  \A c \in Conns : \A n \in 1..Len(Script[c]) :
    Len(sent[c].client) = n /\ c \in served
    ~> Len(received[c].server) >= n \/ closed[c] # {}

\* Both loops end when the connection does: the None comes after the frames
\* that had arrived, and recv raises in the loop that reads them.
LoopsEnd ==
  \A c \in Conns : \A s \in Sides :
    closed[c] # {} /\ app[c][s] = "on" ~> app[c][s] \in {"done", "failed"}
=============================================================================
