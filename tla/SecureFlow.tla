----------------------------- MODULE SecureFlow -----------------------------
(***************************************************************************)
(* examples/demo_secure_quic_wasm_did_flow.py: server_role and client_role *)
(* with the objects that main gives them (replay cache, registry, store,   *)
(* runner, audit graph), over a transport that is LocalTransport in each   *)
(* direction, which QuicTransport implements.                              *)
(*                                                                         *)
(* The demo runs one session, with a cache and a registry in memory.  Here *)
(* a process serves any number of sessions, each a server_role and a       *)
(* client_role in one gather; a SIFRConfig says what it keeps on disk, and *)
(* it may be started again.  A client may send an action again that was    *)
(* signed in an earlier session, as demo_replay_rejection.py does.         *)
(*                                                                         *)
(* Of the awaits in the roles only accept, connect and recv suspend, so a  *)
(* step goes from one recv to the next.  An exception in a role ends the   *)
(* gather, and with it the process.                                        *)
(***************************************************************************)
EXTENDS AuditDAG, WasmRunner, Configuration, TraceConformance

CONSTANTS
  Sessions,    \* the sessions, each with a grant of its own
  Configs,     \* settings the process may be given
  ArgPairs,    \* arguments a client may put into its action
  MaxRestarts, \* bound of the exploration
  MaxEnds,     \* bound of the exploration: expirations and revocations
  Alice, Bob,  \* the DIDs of client and server
  None         \* nothing: no action, no result, no evidence

ASSUME FlowAssumption ==
  /\ MaxRestarts \in Nat
  /\ MaxEnds \in Nat
  /\ Alice # Bob
  /\ ArgPairs \subseteq (Int \cup {NotInt, NotNumber}) \X (Int \cup {NotInt, NotNumber})
  /\ None \notin Int

VARIABLES
  config,    \* the settings of the process
  restarts,  \* how often it was started again
  up,        \* the process runs
  server,    \* per session: "off", what server_role waits for ("hello",
             \* "action"), "done", or "over" when the process ended before
  client,    \* per session: "off", "hello", "offer", "observation", "done", "over"
  toServer, toClient,  \* per session: messages on their way
  signedBy,  \* per session: the action its client has sent, or None
  result,    \* per session: the result its client got, or None
  recorded,  \* ids in the replay cache
  revoked,   \* capabilities in the registry
  expired,   \* capabilities whose expires_at has passed
  usage,     \* CapabilityStore._usage
  evidence,  \* last_invocation_evidence
  dag,       \* AuditDAG.nodes
  trace,     \* history: the events, as check_trace_invariants takes them
  admitted   \* history: ids that check_and_record let through, in order

roles == <<server, client, toServer, toClient>>
memory == <<recorded, revoked, usage, evidence, dag>>
vars == <<config, restarts, up, roles, signedBy, result, memory, expired, trace, admitted>>

MaxCalls == 3   \* max_calls of the grants in server_role

AddTool == "tool.calculator.add"

NoUsage == [c \in {} |-> 0]

Init ==
  /\ config \in {cfg \in Configs : Valid(cfg)}
  /\ restarts = 0
  /\ up = TRUE
  /\ server = [s \in Sessions |-> "off"] /\ client = [s \in Sessions |-> "off"]
  /\ toServer = [s \in Sessions |-> <<>>] /\ toClient = [s \in Sessions |-> <<>>]
  /\ signedBy = [s \in Sessions |-> None]
  /\ result = [s \in Sessions |-> None]
  /\ recorded = {} /\ revoked = {} /\ expired = {}
  /\ usage = NoUsage
  /\ evidence = None
  /\ dag = <<>>
  /\ trace = <<>>
  /\ admitted = <<>>

-----------------------------------------------------------------------------
(* Messages: a CID stands for the type of a message and its session.       *)

\* A node of the audit graph, for a message whose signature was verified.
NodeOf(type, s, parents) ==
  NodeFrom([content |-> <<type, s>>, parents |-> parents, signature |-> "verified"], TRUE)

\* The Action of session s; its message id is s, and s is also the id of the
\* capability that session s grants.
Action(s, args) ==
  [id |-> s, sender |-> Alice, cap |-> s, action |-> AddTool, args |-> args]

Event(op, cap) ==
  [op |-> op, cap |-> cap, sub |-> None, iss |-> None, kid |-> None, msg |-> None,
   act |-> None, actions |-> {}]

IssueEvent(cap) ==
  [Event("Issue", cap) EXCEPT !.sub = Alice, !.iss = Bob, !.actions = {AddTool}]

ConsumeEvent(m) ==
  [Event("Consume", m.cap) EXCEPT !.sub = m.sender, !.iss = Bob, !.kid = Alice,
                                  !.msg = m.id, !.act = m.action]

IssuedCaps == {trace[i].cap : i \in {j \in DOMAIN trace : trace[j].op = "Issue"}}

-----------------------------------------------------------------------------
(* The process                                                             *)

Ended(role) ==
  [s \in Sessions |-> IF role[s] \in {"off", "done"} THEN role[s] ELSE "over"]

\* An exception in a role, or a crash: all that is only in memory goes, and
\* rec is what the replay cache held.
ProcessEnds(rec) ==
  /\ up' = FALSE
  /\ server' = Ended(server) /\ client' = Ended(client)
  /\ toServer' = [s \in Sessions |-> <<>>] /\ toClient' = [s \in Sessions |-> <<>>]
  /\ recorded' = IF ReplayIsDurable(config) THEN rec ELSE {}
  /\ revoked' = {}
  /\ usage' = NoUsage
  /\ evidence' = None
  /\ dag' = <<>>
  /\ UNCHANGED <<config, restarts, expired>>

Crash == up /\ ProcessEnds(recorded) /\ UNCHANGED <<signedBy, result, trace, admitted>>

Restart ==
  /\ ~up /\ restarts < MaxRestarts
  /\ up' = TRUE /\ restarts' = restarts + 1
  /\ UNCHANGED <<config, roles, signedBy, result, memory, expired, trace, admitted>>

MayEnd(c) ==
  /\ c \in IssuedCaps
  /\ Cardinality({i \in DOMAIN trace : trace[i].op \in {"Expire", "Revoke"}}) < MaxEnds

\* RevocationRegistry.revoke
Revoke(c) ==
  /\ up /\ MayEnd(c) /\ c \notin revoked
  /\ revoked' = revoked \cup {c}
  /\ trace' = Append(trace, Event("Revoke", c))
  /\ UNCHANGED <<config, restarts, up, roles, signedBy, result, recorded, usage, evidence,
                 dag, expired, admitted>>

\* The clock passes expires_at.
Expire(c) ==
  /\ MayEnd(c) /\ c \notin expired
  /\ expired' = expired \cup {c}
  /\ trace' = Append(trace, Event("Expire", c))
  /\ UNCHANGED <<config, restarts, up, roles, signedBy, result, memory, admitted>>

-----------------------------------------------------------------------------
(* client_role                                                             *)

\* The connection is made, accept returns it, and the client says Hello.
Connect(s) ==
  /\ up /\ client[s] = "off"
  /\ client' = [client EXCEPT ![s] = "hello"]
  /\ server' = [server EXCEPT ![s] = "hello"]
  /\ toServer' = [toServer EXCEPT ![s] = <<[type |-> "Hello"]>>]
  /\ UNCHANGED <<config, restarts, up, toClient, signedBy, result, memory, expired, trace,
                 admitted>>

\* recv in the client: from the state it waits in to the next one.
ClientTakes(s, from, to) ==
  /\ client[s] = from /\ toClient[s] # <<>>
  /\ client' = [client EXCEPT ![s] = to]
  /\ toClient' = [toClient EXCEPT ![s] = Tail(@)]

ClientHello(s) ==
  /\ ClientTakes(s, "hello", "offer")
  /\ UNCHANGED <<config, restarts, up, server, toServer, signedBy, result, memory, expired,
                 trace, admitted>>

\* verify_credential raises.
ClientRejects(s) ==
  /\ client[s] = "offer" /\ toClient[s] # <<>>
  /\ s \in expired
  /\ ProcessEnds(recorded)
  /\ UNCHANGED <<signedBy, result, trace, admitted>>

\* The action of this session, or one that an earlier session has sent.
ActionsOf(s) ==
  {Action(s, args) : args \in ArgPairs}
    \cup {m \in {signedBy[q] : q \in Sessions} : m # None}

ClientActs(s) ==
  /\ ClientTakes(s, "offer", "observation")
  /\ s \notin expired
  /\ \E m \in ActionsOf(s) :
       /\ signedBy' = [signedBy EXCEPT ![s] = m]
       /\ toServer' = [toServer EXCEPT ![s] = Append(@, m)]
  /\ UNCHANGED <<config, restarts, up, server, result, memory, expired, trace, admitted>>

ClientDone(s) ==
  /\ ClientTakes(s, "observation", "done")
  /\ result' = [result EXCEPT ![s] = Head(toClient[s]).result]
  /\ UNCHANGED <<config, restarts, up, server, toServer, signedBy, memory, expired, trace,
                 admitted>>

-----------------------------------------------------------------------------
(* server_role                                                             *)

ServerTakes(s, from, to) ==
  /\ server[s] = from /\ toServer[s] # <<>>
  /\ server' = [server EXCEPT ![s] = to]
  /\ toServer' = [toServer EXCEPT ![s] = Tail(@)]

\* The four messages of the offer, each without known parents, in the graph.
AfterOffer(d, s) ==
  LET add(graph, type) == AddMessage(graph, NodeOf(type, s, <<>>)) IN
  add(add(add(add(d, "ClientHello"), "ServerHello"), "CapabilityOffer"), "CapabilityGrant")

\* Hello, the grant, its credential and the offer: no recv between them.
ServerOffers(s) ==
  /\ ServerTakes(s, "hello", "action")
  /\ toClient' = [toClient EXCEPT ![s] = @ \o <<[type |-> "Hello"], [type |-> "CapabilityOffer"]>>]
  /\ usage' = [c \in DOMAIN usage \cup {s} |-> IF c \in DOMAIN usage THEN usage[c] ELSE 0]
  /\ dag' = AfterOffer(dag, s)
  /\ trace' = Append(trace, IssueEvent(s))
  /\ UNCHANGED <<config, restarts, up, client, signedBy, result, recorded, revoked, evidence,
                 expired, admitted>>

\* The action that the next step of session s is about.
Received(s) == Head(toServer[s])

HasAction(s) == server[s] = "action" /\ toServer[s] # <<>>

\* Mutation: the grant is taken for the one that the action names.
MatchesAny(s, m) == m.cap \in IssuedCaps /\ s \in DOMAIN usage

\* authorize_action: the action names the grant of this session.
Matches(s, m) == m.cap = s /\ s \in DOMAIN usage

\* The registry, then authorize_action; all tests up to the last one leave
\* no trace, so their order does not show.
Authorized(s, m) ==
  /\ m.cap \notin revoked
  /\ Matches(s, m)
  /\ m.sender = Alice /\ m.action = AddTool
  /\ s \notin expired
  /\ usage[s] < MaxCalls

\* check_and_record raises; the graph already has the action.
ServerRefusesReplay(s) ==
  /\ HasAction(s) /\ Received(s).id \in recorded
  /\ ProcessEnds(recorded)
  /\ UNCHANGED <<signedBy, result, trace, admitted>>

\* Mutation: the role returns and tells nobody.
UnauthorizedReturns(s) ==
  /\ ServerTakes(s, "action", "done")
  /\ Received(s).id \notin recorded /\ ~Authorized(s, Received(s))
  /\ recorded' = recorded \cup {Received(s).id}
  /\ admitted' = Append(admitted, Received(s).id)
  /\ dag' = AddMessage(dag, NodeOf("Action", Received(s).id, <<>>))
  /\ UNCHANGED <<config, restarts, up, client, toClient, signedBy, result, revoked, usage,
                 evidence, expired, trace>>

\* The id stays recorded.
ServerRefusesUnauthorized(s) ==
  /\ HasAction(s) /\ Received(s).id \notin recorded /\ ~Authorized(s, Received(s))
  /\ admitted' = Append(admitted, Received(s).id)
  /\ ProcessEnds(recorded \cup {Received(s).id})
  /\ UNCHANGED <<signedBy, result, trace>>

\* Mutation: the evidence of the last call is taken for the result.
ToolResultOfLastCall(m) ==
  IF evidence = None THEN Execute(m.action, m.args[1], m.args[2]) ELSE evidence.result

ToolResult(m) == Execute(m.action, m.args[1], m.args[2])

\* The tool raises when the call has been paid for.
ServerToolFails(s) ==
  LET m == Received(s) IN
  /\ HasAction(s) /\ m.id \notin recorded /\ Authorized(s, m)
  /\ ToolResult(m) = NoResult
  /\ admitted' = Append(admitted, m.id)
  /\ trace' = Append(trace, ConsumeEvent(m))
  /\ ProcessEnds(recorded \cup {m.id})
  /\ UNCHANGED <<signedBy, result>>

\* Mutation: the parent that create_message was given.
ObservationParentId(d, m) == <<<<"message_id", m.id>>>>

\* The last node of the graph.
ObservationParent(d, m) == <<d[Len(d)].cid>>

ServerAnswers(s) ==
  LET m == Received(s)
      d == AddMessage(dag, NodeOf("Action", m.id, <<>>))
      answer == ToolResult(m)
  IN
  /\ ServerTakes(s, "action", "done")
  /\ m.id \notin recorded /\ Authorized(s, m)
  /\ answer # NoResult
  /\ recorded' = recorded \cup {m.id}
  /\ admitted' = Append(admitted, m.id)
  /\ usage' = [usage EXCEPT ![s] = @ + 1]
  /\ trace' = Append(trace, ConsumeEvent(m))
  /\ evidence' = EvidenceAfter(evidence, m.args[1], m.args[2], answer)
  /\ toClient' = [toClient EXCEPT ![s] = Append(@, [type |-> "Observation", result |-> answer])]
  /\ dag' = AddMessage(d, NodeOf("Observation", s, ObservationParent(d, m)))
  /\ UNCHANGED <<config, restarts, up, client, signedBy, result, revoked, expired>>

-----------------------------------------------------------------------------
ClientStep(s) ==
  ClientHello(s) \/ ClientRejects(s) \/ ClientActs(s) \/ ClientDone(s)

ServerStep(s) ==
  \/ ServerOffers(s) \/ ServerRefusesReplay(s) \/ ServerRefusesUnauthorized(s)
  \/ ServerToolFails(s) \/ ServerAnswers(s)

Next ==
  \/ \E s \in Sessions : Connect(s) \/ ClientStep(s) \/ ServerStep(s)
  \/ \E c \in IssuedCaps : Revoke(c) \/ Expire(c)
  \/ Crash \/ Restart

\* The event loop runs every task that is ready, and what was sent arrives
\* (SentArrives of QuicTransport) unless the connection ends.
Fairness == \A s \in Sessions : WF_vars(ClientStep(s)) /\ WF_vars(ServerStep(s))

Spec == Init /\ [][Next]_vars /\ Fairness

-----------------------------------------------------------------------------
(* Properties                                                              *)

Actions == {Action(s, args) : s \in Sessions, args \in ArgPairs}

ASSUME NoneAssumption == None \notin Actions

\* The variables have their types; nothing is in memory, and nothing on its
\* way, when the process does not run.  The tool's results fit its integers.
TypeOK ==
  /\ config \in Configs /\ restarts \in 0..MaxRestarts /\ up \in BOOLEAN
  /\ server \in [Sessions -> {"off", "hello", "action", "done", "over"}]
  /\ client \in [Sessions -> {"off", "hello", "offer", "observation", "done", "over"}]
  /\ signedBy \in [Sessions -> Actions \cup {None}]
  /\ result \in [Sessions -> ToolInts \cup {None}]
  /\ recorded \subseteq Sessions /\ revoked \subseteq Sessions /\ expired \subseteq Sessions
  /\ DOMAIN usage \subseteq Sessions /\ \A c \in DOMAIN usage : usage[c] \in 0..MaxCalls
  /\ admitted \in Seq(Sessions)
  /\ ~up => \A s \in Sessions : toServer[s] = <<>> /\ toClient[s] = <<>>
  /\ ~up => usage = NoUsage /\ evidence = None /\ dag = <<>>

\* In the clustered modes, whose settings must name a replay table, no action
\* passes check_and_record twice, however often the process is started again
\* and whichever session it is sent in.
ClusteredAdmitsOnce == config.mode \in ClusteredModes => IsInjective(admitted)

\* What the flow does is what check_trace_invariants lets pass, in every
\* mode and over all runs of the process: each call was granted, in force,
\* paid for, and not made before, though a replay cache and a registry in
\* memory forget both at a restart.
TraceConforms == Conforms(trace, MaxCalls)

\* What a recorder could add to the flow's events: a call like the flow's or
\* unlike it in one respect, a grant, and a call after the end of its key.
CallIn(s) == ConsumeEvent([id |-> s, sender |-> Alice, cap |-> s, action |-> AddTool])

LikeCall(s) ==
  {CallIn(s), [CallIn(s) EXCEPT !.msg = None], [CallIn(s) EXCEPT !.sub = Bob],
   [CallIn(s) EXCEPT !.iss = Alice], [CallIn(s) EXCEPT !.act = None]}

KeyEnd == [Event("RevokeKey", None) EXCEPT !.kid = Alice]

Recordings ==
  {trace} \cup UNION {
    {trace \o <<e>> : e \in LikeCall(s) \cup {IssueEvent(s)}} \cup {trace \o <<KeyEnd, CallIn(s)>>} :
    s \in Sessions}

\* Where each capability is issued once and ends once, the eight checks, each
\* with a dictionary of its own, accept exactly the traces whose calls are
\* steps of formal/sifr_capability.tla: on the flow's events, whatever is
\* recorded after them.
CheckerIsExact ==
  \A t \in Recordings : LifeCycles(t) =>
    \A max_calls \in {1, MaxCalls} : Conforms(t, max_calls) <=> Allowed(t, max_calls)

\* The graph stays intact in every interleaving of the sessions, and the
\* history of an observation is the action that its session received.
AuditTrail ==
  /\ Intact(dag)
  /\ \A s \in Sessions : <<"Observation", s>> \in Cids(dag) =>
       /\ Lineage(dag, <<"Observation", s>>) = <<<<"Action", s>>, <<"Observation", s>>>>
       /\ Lineage(dag, <<"Action", s>>) = <<<<"Action", s>>>>

\* What PythonCalculatorReference computes from the action of session s.
Expected(s) == Reference(signedBy[s].action, signedBy[s].args[1], signedBy[s].args[2])

\* A result that a client ends with answers the action that it sent in this
\* session: it is the sum of the integers in it, wherever that is an integer
\* of the tool, and no other action has a result.
ResultAnswersAction ==
  \A s \in Sessions : result[s] # None =>
    /\ signedBy[s].id = s
    /\ Expected(s) \notin {NoResult, NotInt}
    /\ Expected(s) \in ToolInts => result[s] = Expected(s)

\* Every session that was begun ends for both roles, with a result or with
\* the end of the process: no refusal leaves the client waiting.
FlowEnds ==
  \A s \in Sessions :
    client[s] # "off" ~> client[s] \in {"done", "over"} /\ server[s] \in {"done", "over"}
=============================================================================
