-------------------------- MODULE SecureFlowProofs --------------------------
(***************************************************************************)
(* Proofs about SecureFlow for any sessions, arguments and settings, any   *)
(* number of restarts, and a runner of any width.                          *)
(***************************************************************************)
EXTENDS SecureFlow, TraceConformanceProofs, SequenceTheorems

-----------------------------------------------------------------------------
(* The conversation                                                        *)

Hello == [type |-> "Hello"]
Offer == [type |-> "CapabilityOffer"]
Observation(r) == [type |-> "Observation", result |-> r]

ServerMessages == {Hello} \cup Actions
ClientMessages == {Hello, Offer} \cup {Observation(r) : r \in ToolInts}

\* r answers the action that the client of s has sent.
IsAnswer(s, r) ==
  /\ signedBy[s] # None /\ signedBy[s].id = s
  /\ r \in ToolInts /\ Expected(s) \notin {NoResult, NotInt}
  /\ Expected(s) \in ToolInts => r = Expected(s)

\* Where the two roles of a session stand, and what is on its way between
\* them: at most one role has something to read.
Exchange(s) ==
  \/ server[s] = "off" /\ client[s] = "off" /\ toServer[s] = <<>> /\ toClient[s] = <<>>
  \/ server[s] = "hello" /\ client[s] = "hello" /\ toServer[s] = <<Hello>> /\ toClient[s] = <<>>
  \/ server[s] = "action" /\ client[s] = "hello" /\ toServer[s] = <<>> /\ toClient[s] = <<Hello, Offer>>
  \/ server[s] = "action" /\ client[s] = "offer" /\ toServer[s] = <<>> /\ toClient[s] = <<Offer>>
  \/ /\ server[s] = "action" /\ client[s] = "observation"
     /\ signedBy[s] # None /\ toServer[s] = <<signedBy[s]>> /\ toClient[s] = <<>>
  \/ /\ server[s] = "done" /\ client[s] = "observation"
     /\ toServer[s] = <<>> /\ \E r \in ToolInts : toClient[s] = <<Observation(r)>> /\ IsAnswer(s, r)
  \/ /\ server[s] \in {"done", "over"} /\ client[s] \in {"done", "over"}
     /\ toServer[s] = <<>> /\ toClient[s] = <<>>

Typed ==
  /\ config \in Configs /\ restarts \in 0..MaxRestarts /\ up \in BOOLEAN
  /\ server \in [Sessions -> {"off", "hello", "action", "done", "over"}]
  /\ client \in [Sessions -> {"off", "hello", "offer", "observation", "done", "over"}]
  /\ toServer \in [Sessions -> Seq(ServerMessages)]
  /\ toClient \in [Sessions -> Seq(ClientMessages)]
  /\ signedBy \in [Sessions -> Actions \cup {None}]
  /\ result \in [Sessions -> ToolInts \cup {None}]
  /\ recorded \subseteq Sessions /\ revoked \subseteq Sessions /\ expired \subseteq Sessions
  /\ DOMAIN usage \subseteq Sessions /\ usage \in [DOMAIN usage -> 0..MaxCalls]
  /\ admitted \in Seq(Sessions)

\* Without a process nothing is waited for, on its way or in memory.
DownInv ==
  ~up =>
    /\ usage = NoUsage /\ evidence = None /\ dag = <<>>
    /\ \A s \in Sessions : {server[s], client[s]} \subseteq {"off", "done", "over"}

\* A grant has been used only by the session that it was made for, which
\* makes one call.
UsageInv ==
  /\ \A s \in DOMAIN usage : server[s] \notin {"off", "hello"}
  /\ \A s \in Sessions : server[s] = "action" => s \in DOMAIN usage /\ usage[s] = 0

ResultInv ==
  \A s \in Sessions :
    /\ Exchange(s)
    /\ result[s] # None => client[s] = "done" /\ IsAnswer(s, result[s])

FlowInv == Typed /\ DownInv /\ UsageInv /\ ResultInv

-----------------------------------------------------------------------------
(* The replay cache                                                        *)

\* The settings are ones that validate accepts, and a cache on disk knows
\* every id that was ever let through.
ReplayInv ==
  /\ Valid(config)
  /\ ReplayIsDurable(config) =>
       /\ IsInjective(admitted)
       /\ \A i \in DOMAIN admitted : admitted[i] \in recorded

-----------------------------------------------------------------------------
(* The trace                                                               *)

\* The Consume event of a call under the grant of session s.
CallEvent(s) ==
  [Event("Consume", s) EXCEPT !.sub = Alice, !.iss = Bob, !.kid = Alice, !.msg = s, !.act = AddTool]

Events ==
  UNION {{IssueEvent(s), Event("Revoke", s), Event("Expire", s), CallEvent(s)} : s \in Sessions}

\* How far the session of each event must have come: granted for all of them,
\* over for a call.  The end of a capability whose action is still awaited
\* is known to the server.
Fits(e) ==
  /\ server[e.cap] \notin {"off", "hello"}
  /\ e.op = "Consume" => server[e.cap] # "action"
  /\ e.op = "Expire" => e.cap \in expired
  /\ e.op = "Revoke" => e.cap \in revoked \/ server[e.cap] # "action"

EventsInv == \A i \in DOMAIN trace : Fits(trace[i])

\* One grant and one call per session.
OnceInv ==
  \A i, j \in DOMAIN trace :
    trace[i].op = trace[j].op /\ trace[i].op \in {"Issue", "Consume"} /\ trace[i].cap = trace[j].cap
      => i = j

GrantedInv ==
  \A s \in Sessions : server[s] = "action" => \E i \in DOMAIN trace : trace[i] = IssueEvent(s)

Ends == {"Expire", "Revoke"}

\* A call comes after its grant and before the end of it.
OrderInv ==
  \A j \in Consumes(trace) :
    /\ \E i \in 1..(j - 1) : trace[i] = IssueEvent(trace[j].cap)
    /\ \A k \in 1..(j - 1) : trace[k].cap = trace[j].cap => trace[k].op \notin Ends

TraceInv == trace \in Seq(Events) /\ EventsInv /\ OnceInv /\ GrantedInv /\ OrderInv

-----------------------------------------------------------------------------
(* The arithmetic of the runner                                            *)

\* The tool's sum is one of its integers: the true sum when that is one.
LEMMA WrapFits ==
  ASSUME NEW n \in Int
  PROVE  Wrap(n) \in ToolInts /\ (n \in ToolInts => Wrap(n) = n)
<1> USE RunnerAssumption
<1> DEFINE m == 2 * Half
           x == n + Half
<1>1. m \in Nat \ {0} /\ x \in Int
  OBVIOUS
<1>2. (x % m) \in 0..(m - 1) /\ (x \in 0..(m - 1) => (x % m) = x)
  <2> HIDE DEF m, x
  <2> QED
    BY <1>1
<1>3. Wrap(n) = (x % m) - Half
  BY DEF Wrap
<1> QED
  BY <1>2, <1>3 DEF ToolInts

\* A result of the tool for an action of session s answers that action.
LEMMA ResultIsAnswer ==
  ASSUME NEW s \in Sessions, NEW m \in Actions, signedBy[s] = m, m.id = s,
         ToolResult(m) # NoResult
  PROVE  IsAnswer(s, ToolResult(m))
<1>1. PICK args \in ArgPairs : m.args = args
  BY DEF Actions, Action
<1>2. args[1] \in Int \cup {NotInt, NotNumber} /\ args[2] \in Int \cup {NotInt, NotNumber}
  BY <1>1, FlowAssumption
<1>3. args[1] \in Int /\ args[2] \in Int /\ ToolResult(m) = Wrap(args[1] + args[2])
  BY <1>1, <1>2 DEF ToolResult, Execute
<1>4. m.action = "tool.calculator.add"
  BY DEF Actions, Action, AddTool
<1>6. Expected(s) = args[1] + args[2] /\ args[1] + args[2] \in Int
  BY <1>1, <1>3, <1>4, RunnerAssumption DEF Expected, Reference
<1>5. m # None
  BY NoneAssumption
<1> QED
  BY <1>1, <1>3, <1>5, <1>6, WrapFits, RunnerAssumption DEF IsAnswer

-----------------------------------------------------------------------------
(* The conversation, step by step                                          *)

\* Sequences of one or two messages.
LEMMA ShortSequences ==
  ASSUME NEW a, NEW b
  PROVE  /\ Head(<<a>>) = a /\ Tail(<<a>>) = <<>> /\ <<a>> # <<>>
         /\ Tail(<<a, b>>) = <<b>> /\ <<a, b>> # <<>>
         /\ Append(<<>>, a) = <<a>> /\ <<>> \o <<a, b>> = <<a, b>>
OBVIOUS

\* What a role finds when it has something to read.
LEMMA Reading ==
  ASSUME NEW s \in Sessions, Typed, Exchange(s)
  PROVE  /\ server[s] = "hello" =>
              client[s] = "hello" /\ toServer[s] = <<Hello>> /\ toClient[s] = <<>>
         /\ client[s] = "hello" /\ toClient[s] # <<>> =>
              server[s] = "action" /\ toServer[s] = <<>> /\ toClient[s] = <<Hello, Offer>>
         /\ client[s] = "offer" =>
              server[s] = "action" /\ toServer[s] = <<>> /\ toClient[s] = <<Offer>>
         /\ client[s] = "observation" /\ toClient[s] # <<>> =>
              /\ server[s] = "done" /\ toServer[s] = <<>>
              /\ \E r \in ToolInts : toClient[s] = <<Observation(r)>> /\ IsAnswer(s, r)
         /\ HasAction(s) =>
              /\ client[s] = "observation" /\ toClient[s] = <<>>
              /\ Received(s) = signedBy[s] /\ signedBy[s] \in Actions
              /\ toServer[s] = <<signedBy[s]>>
<1>1. HasAction(s) => toServer[s] = <<signedBy[s]>> /\ signedBy[s] # None
  BY DEF Exchange, HasAction
<1>2. signedBy[s] # None => signedBy[s] \in Actions
  BY DEF Typed
<1>3. HasAction(s) => Received(s) = signedBy[s]
  BY <1>1, ShortSequences DEF Received
<1>4. HasAction(s) => client[s] = "observation" /\ toClient[s] = <<>>
  BY DEF Exchange, HasAction
<1> QED
  BY <1>1, <1>2, <1>3, <1>4 DEF Exchange

\* A session that no step touches stays where it is.
LEMMA Untouched ==
  ASSUME NEW s \in Sessions, ResultInv,
         server'[s] = server[s], client'[s] = client[s],
         toServer'[s] = toServer[s], toClient'[s] = toClient[s],
         signedBy'[s] = signedBy[s], result'[s] = result[s]
  PROVE  /\ Exchange(s)'
         /\ (result[s] # None => client[s] = "done" /\ IsAnswer(s, result[s]))'
<1>1. \A r : IsAnswer(s, r)' <=> IsAnswer(s, r)
  BY DEF IsAnswer, Expected
<1> QED
  BY <1>1 DEF ResultInv, Exchange

\* The end of the process, with an action that may have been recorded.
LEMMA EndKeepsFlow ==
  ASSUME FlowInv, NEW rec \in SUBSET Sessions, ProcessEnds(rec), UNCHANGED <<signedBy, result>>,
         admitted' \in Seq(Sessions)
  PROVE  FlowInv'
<1> USE DEF FlowInv
<1>1. \A s \in Sessions :
        /\ server'[s] = IF server[s] \in {"off", "done"} THEN server[s] ELSE "over"
        /\ client'[s] = IF client[s] \in {"off", "done"} THEN client[s] ELSE "over"
        /\ toServer'[s] = <<>> /\ toClient'[s] = <<>>
  BY DEF ProcessEnds, Ended
<1>2. Typed'
  <2>1. /\ server' \in [Sessions -> {"off", "hello", "action", "done", "over"}]
        /\ client' \in [Sessions -> {"off", "hello", "offer", "observation", "done", "over"}]
    BY DEF Typed, ProcessEnds, Ended
  <2>2. /\ toServer' \in [Sessions -> Seq(ServerMessages)]
        /\ toClient' \in [Sessions -> Seq(ClientMessages)]
    BY EmptySeq DEF ProcessEnds
  <2>3. /\ recorded' \subseteq Sessions /\ revoked' \subseteq Sessions /\ expired' \subseteq Sessions
        /\ config' = config /\ restarts' = restarts /\ up' \in BOOLEAN
    BY DEF Typed, ProcessEnds
  <2>4. DOMAIN usage' \subseteq Sessions /\ usage' \in [DOMAIN usage' -> 0..MaxCalls]
    BY DEF ProcessEnds, NoUsage
  <2> QED
    BY <2>1, <2>2, <2>3, <2>4 DEF Typed
<1>3. DownInv' /\ UsageInv'
  BY <1>1, <1>2 DEF DownInv, UsageInv, ProcessEnds, NoUsage, Typed
<1>4. ASSUME NEW s \in Sessions
      PROVE  /\ Exchange(s)'
             /\ (result[s] # None => client[s] = "done" /\ IsAnswer(s, result[s]))'
  <2>1. IsAnswer(s, result[s])' <=> IsAnswer(s, result[s])
    BY DEF IsAnswer, Expected
  <2> QED
    BY <1>1, <1>4, <2>1 DEF ResultInv, Exchange
<1> QED
  BY <1>2, <1>3, <1>4 DEF ResultInv

\* Steps that leave every conversation alone.
LEMMA OutsideKeepsFlow ==
  ASSUME FlowInv, UNCHANGED <<config, roles, signedBy, result, admitted>>,
         \/ UNCHANGED <<up, memory, expired, restarts>>
         \/ Restart
         \/ \E c \in IssuedCaps : c \in Sessions /\ (Revoke(c) \/ Expire(c))
  PROVE  FlowInv'
<1> USE DEF FlowInv
<1>1. Typed'
  <2>1. CASE Restart
    BY <2>1, FlowAssumption DEF Typed, Restart, roles, memory
  <2>2. ASSUME NEW c \in Sessions, Revoke(c) \/ Expire(c) PROVE Typed'
    BY <2>2 DEF Typed, Revoke, Expire, roles, memory
  <2>3. CASE UNCHANGED <<up, memory, expired, restarts>>
    BY <2>3 DEF Typed, roles, memory
  <2> QED
    BY <2>1, <2>2, <2>3
<1>2. DownInv' /\ UsageInv'
  BY DEF DownInv, UsageInv, Restart, Revoke, Expire, roles, memory
<1>3. ResultInv'
  <2> SUFFICES ASSUME NEW s \in Sessions
               PROVE  /\ Exchange(s)'
                      /\ (result[s] # None => client[s] = "done" /\ IsAnswer(s, result[s]))'
    BY DEF ResultInv
  <2> QED
    BY Untouched DEF roles
<1> QED
  BY <1>1, <1>2, <1>3

\* The client's steps, and the connection.
LEMMA ClientKeepsFlow ==
  ASSUME FlowInv, NEW s \in Sessions,
         Connect(s) \/ ClientHello(s) \/ ClientActs(s) \/ ClientDone(s)
  PROVE  FlowInv'
<1> USE DEF FlowInv
<1>0. Exchange(s)
  BY DEF ResultInv
<1>1. CASE Connect(s)
  <2>1. /\ server' = [server EXCEPT ![s] = "hello"] /\ client' = [client EXCEPT ![s] = "hello"]
        /\ toServer' = [toServer EXCEPT ![s] = <<Hello>>] /\ toClient' = toClient
        /\ server[s] = "off" /\ toClient[s] = <<>>
        /\ up /\ UNCHANGED <<config, restarts, up, signedBy, result, memory, expired, admitted>>
    BY <1>0, <1>1 DEF Connect, Hello, Exchange
  <2>2. <<Hello>> \in Seq(ServerMessages)
    BY DEF ServerMessages
  <2>3. Typed'
    BY <2>1, <2>2 DEF Typed, memory
  <2>4. DownInv' /\ UsageInv'
    BY <2>1 DEF DownInv, UsageInv, Typed, memory
  <2>5. ASSUME NEW q \in Sessions
        PROVE  /\ Exchange(q)'
               /\ (result[q] # None => client[q] = "done" /\ IsAnswer(q, result[q]))'
    <3>1. CASE q = s
      BY <2>1, <3>1, <1>0 DEF Exchange, Typed, ResultInv
    <3>2. CASE q # s
      BY <2>1, <3>2, Untouched DEF Typed
    <3> QED
      BY <3>1, <3>2
  <2> QED
    BY <2>3, <2>4, <2>5 DEF ResultInv
<1>2. CASE ClientHello(s)
  <2>1. /\ server[s] = "action" /\ toServer[s] = <<>> /\ client[s] = "hello"
        /\ client' = [client EXCEPT ![s] = "offer"] /\ toClient' = [toClient EXCEPT ![s] = <<Offer>>]
        /\ UNCHANGED <<config, restarts, up, server, toServer, signedBy, result, memory, expired,
                       admitted>>
    <3>1. /\ client[s] = "hello" /\ toClient[s] # <<>> /\ client' = [client EXCEPT ![s] = "offer"]
          /\ toClient' = [toClient EXCEPT ![s] = Tail(toClient[s])]
          /\ UNCHANGED <<config, restarts, up, server, toServer, signedBy, result, memory, expired,
                         admitted>>
      BY <1>2 DEF ClientHello, ClientTakes
    <3>2. server[s] = "action" /\ toServer[s] = <<>> /\ toClient[s] = <<Hello, Offer>>
      BY <1>0, <3>1, Reading
    <3>3. Tail(<<Hello, Offer>>) = <<Offer>>
      BY ShortSequences
    <3> QED
      BY <3>1, <3>2, <3>3
  <2>2. <<Offer>> \in Seq(ClientMessages)
    BY DEF ClientMessages
  <2>3. Typed'
    BY <2>1, <2>2 DEF Typed, memory
  <2>4. DownInv' /\ UsageInv'
    BY <2>1 DEF DownInv, UsageInv, Typed, memory
  <2>5. ASSUME NEW q \in Sessions
        PROVE  /\ Exchange(q)'
               /\ (result[q] # None => client[q] = "done" /\ IsAnswer(q, result[q]))'
    <3>1. CASE q = s
      BY <2>1, <3>1, <1>0 DEF Exchange, Typed, ResultInv
    <3>2. CASE q # s
      BY <2>1, <3>2, Untouched DEF Typed
    <3> QED
      BY <3>1, <3>2
  <2> QED
    BY <2>3, <2>4, <2>5 DEF ResultInv
<1>3. CASE ClientActs(s)
  <2>1. PICK m \in ActionsOf(s) :
          /\ signedBy' = [signedBy EXCEPT ![s] = m]
          /\ toServer' = [toServer EXCEPT ![s] = Append(@, m)]
    BY <1>3 DEF ClientActs
  <2>2. m \in Actions /\ m # None
    BY NoneAssumption DEF ActionsOf, Actions, Typed
  <2>3. /\ server[s] = "action" /\ client[s] = "offer"
        /\ client' = [client EXCEPT ![s] = "observation"] /\ toClient' = [toClient EXCEPT ![s] = <<>>]
        /\ toServer' = [toServer EXCEPT ![s] = <<m>>]
        /\ UNCHANGED <<config, restarts, up, server, result, memory, expired, admitted>>
    <3>1. /\ client[s] = "offer" /\ client' = [client EXCEPT ![s] = "observation"]
          /\ toClient' = [toClient EXCEPT ![s] = Tail(toClient[s])]
          /\ UNCHANGED <<config, restarts, up, server, result, memory, expired, admitted>>
      BY <1>3 DEF ClientActs, ClientTakes
    <3>2. server[s] = "action" /\ toServer[s] = <<>> /\ toClient[s] = <<Offer>>
      BY <1>0, <3>1, Reading
    <3>3. Tail(<<Offer>>) = <<>> /\ Append(<<>>, m) = <<m>>
      BY ShortSequences
    <3> QED
      BY <2>1, <3>1, <3>2, <3>3
  <2>4. <<m>> \in Seq(ServerMessages) /\ <<>> \in Seq(ClientMessages)
    BY <2>2 DEF ServerMessages
  <2>5. Typed'
    BY <2>1, <2>2, <2>3, <2>4 DEF Typed, memory
  <2>6. DownInv' /\ UsageInv'
    BY <2>3 DEF DownInv, UsageInv, Typed, memory
  <2>7. ASSUME NEW q \in Sessions
        PROVE  /\ Exchange(q)'
               /\ (result[q] # None => client[q] = "done" /\ IsAnswer(q, result[q]))'
    <3>1. CASE q = s
      BY <2>1, <2>2, <2>3, <3>1 DEF Exchange, Typed, ResultInv
    <3>2. CASE q # s
      BY <2>1, <2>3, <3>2, Untouched DEF Typed
    <3> QED
      BY <3>1, <3>2
  <2> QED
    BY <2>5, <2>6, <2>7 DEF ResultInv
<1>4. CASE ClientDone(s)
  <2>1. PICK r \in ToolInts : toClient[s] = <<Observation(r)>> /\ IsAnswer(s, r)
    BY <1>0, <1>4, Reading DEF ClientDone, ClientTakes
  <2>2. /\ server[s] = "done" /\ toServer[s] = <<>> /\ client[s] = "observation"
        /\ client' = [client EXCEPT ![s] = "done"] /\ toClient' = [toClient EXCEPT ![s] = <<>>]
        /\ result' = [result EXCEPT ![s] = r]
        /\ UNCHANGED <<config, restarts, up, server, toServer, signedBy, memory, expired, admitted>>
    <3>1. /\ client[s] = "observation" /\ client' = [client EXCEPT ![s] = "done"]
          /\ toClient[s] # <<>> /\ toClient' = [toClient EXCEPT ![s] = Tail(toClient[s])]
          /\ result' = [result EXCEPT ![s] = Head(toClient[s]).result]
          /\ UNCHANGED <<config, restarts, up, server, toServer, signedBy, memory, expired, admitted>>
      BY <1>4 DEF ClientDone, ClientTakes
    <3>2. server[s] = "done" /\ toServer[s] = <<>>
      BY <1>0, <3>1, Reading
    <3>3. Tail(toClient[s]) = <<>> /\ Head(toClient[s]) = Observation(r)
      BY <2>1, ShortSequences
    <3>4. Observation(r).result = r
      BY DEF Observation
    <3> QED
      BY <3>1, <3>2, <3>3, <3>4
  <2>3. Typed'
    BY <2>1, <2>2, EmptySeq DEF Typed, memory
  <2>4. DownInv' /\ UsageInv'
    BY <2>2 DEF DownInv, UsageInv, Typed, memory
  <2>5. ASSUME NEW q \in Sessions
        PROVE  /\ Exchange(q)'
               /\ (result[q] # None => client[q] = "done" /\ IsAnswer(q, result[q]))'
    <3>1. CASE q = s
      <4>1. IsAnswer(s, r)'
        BY <2>1, <2>2 DEF IsAnswer, Expected
      <4> QED
        BY <2>2, <3>1, <4>1 DEF Exchange, Typed
    <3>2. CASE q # s
      BY <2>2, <3>2, Untouched DEF Typed
    <3> QED
      BY <3>1, <3>2
  <2> QED
    BY <2>3, <2>4, <2>5 DEF ResultInv
<1> QED
  BY <1>1, <1>2, <1>3, <1>4

\* The offer.
LEMMA OfferKeepsFlow ==
  ASSUME FlowInv, NEW s \in Sessions, ServerOffers(s)
  PROVE  FlowInv'
<1> USE DEF FlowInv
<1>0. Exchange(s) /\ up
  BY DEF ResultInv, ServerOffers, ServerTakes, DownInv, Typed
<1>1. /\ server[s] = "hello" /\ client[s] = "hello"
      /\ server' = [server EXCEPT ![s] = "action"]
      /\ toServer' = [toServer EXCEPT ![s] = <<>>]
      /\ toClient' = [toClient EXCEPT ![s] = <<Hello, Offer>>]
      /\ UNCHANGED <<config, restarts, up, client, signedBy, result, recorded, revoked, expired,
                     admitted>>
  BY <1>0, Reading, ShortSequences DEF ServerOffers, ServerTakes, Hello, Offer, Typed
<1>2. s \notin DOMAIN usage
  BY <1>1 DEF UsageInv
<1>3. /\ DOMAIN usage' = DOMAIN usage \cup {s} /\ usage'[s] = 0
      /\ \A c \in DOMAIN usage : usage'[c] = usage[c]
      /\ usage' \in [DOMAIN usage \cup {s} -> 0..MaxCalls]
  BY <1>2 DEF ServerOffers, Typed, MaxCalls
<1>4. <<Hello, Offer>> \in Seq(ClientMessages) /\ <<>> \in Seq(ServerMessages)
  BY DEF ClientMessages
<1>5. Typed'
  BY <1>1, <1>3, <1>4 DEF Typed
<1>6. DownInv'
  BY <1>0, <1>1 DEF DownInv
<1>7. UsageInv'
  BY <1>1, <1>3 DEF UsageInv, Typed
<1>8. ASSUME NEW q \in Sessions
      PROVE  /\ Exchange(q)'
             /\ (result[q] # None => client[q] = "done" /\ IsAnswer(q, result[q]))'
  <2>1. CASE q = s
    BY <1>1, <2>1 DEF Exchange, Typed, ResultInv
  <2>2. CASE q # s
    BY <1>1, <2>2, Untouched DEF Typed
  <2> QED
    BY <2>1, <2>2
<1> QED
  BY <1>5, <1>6, <1>7, <1>8 DEF ResultInv

\* The answer.
LEMMA AnswerKeepsFlow ==
  ASSUME FlowInv, NEW s \in Sessions, ServerAnswers(s)
  PROVE  FlowInv'
<1> USE DEF FlowInv
<1> DEFINE m == signedBy[s]
<1>0. Exchange(s) /\ up /\ HasAction(s)
  BY DEF ResultInv, ServerAnswers, ServerTakes, DownInv, Typed, HasAction
<1>1. /\ Received(s) = m /\ m \in Actions
      /\ server[s] = "action" /\ client[s] = "observation" /\ toClient[s] = <<>>
      /\ toServer[s] = <<m>>
  BY <1>0, Reading DEF HasAction
<1>2. m.id = s /\ s \in DOMAIN usage /\ usage[s] = 0 /\ IsAnswer(s, ToolResult(m))
  <2>1. m.cap = s /\ ToolResult(m) # NoResult
    BY <1>1 DEF ServerAnswers, Authorized, Matches
  <2>2. m.id = m.cap
    BY <1>1 DEF Actions, Action
  <2> QED
    BY <1>1, <2>1, <2>2, ResultIsAnswer DEF UsageInv
<1>3. /\ server' = [server EXCEPT ![s] = "done"]
      /\ toServer' = [toServer EXCEPT ![s] = <<>>]
      /\ toClient' = [toClient EXCEPT ![s] = <<Observation(ToolResult(m))>>]
      /\ usage' = [usage EXCEPT ![s] = 1]
      /\ recorded' = recorded \cup {s} /\ admitted' = Append(admitted, s)
      /\ UNCHANGED <<config, restarts, up, client, signedBy, result, revoked, expired>>
  BY <1>1, <1>2, ShortSequences DEF ServerAnswers, ServerTakes, Typed, Observation
<1>4. ToolResult(m) \in ToolInts
  BY <1>2 DEF IsAnswer, Expected
<1>5. <<Observation(ToolResult(m))>> \in Seq(ClientMessages) /\ <<>> \in Seq(ServerMessages)
  BY <1>4 DEF ClientMessages
<1>6. usage' \in [DOMAIN usage -> 0..MaxCalls] /\ DOMAIN usage' = DOMAIN usage
  BY <1>2, <1>3 DEF Typed, MaxCalls
<1>7. Typed'
  BY <1>3, <1>5, <1>6 DEF Typed
<1>8. DownInv' /\ UsageInv'
  BY <1>0, <1>1, <1>2, <1>3, <1>6 DEF DownInv, UsageInv, Typed
<1>9. ASSUME NEW q \in Sessions
      PROVE  /\ Exchange(q)'
             /\ (result[q] # None => client[q] = "done" /\ IsAnswer(q, result[q]))'
  <2>1. CASE q = s
    <3>1. IsAnswer(s, ToolResult(m))' /\ ToolResult(m)' = ToolResult(m)
      BY <1>2, <1>3 DEF IsAnswer, Expected, ToolResult
    <3>2. Exchange(s)'
      BY <1>1, <1>3, <1>4, <3>1 DEF Exchange, Typed
    <3> QED
      BY <1>1, <1>3, <2>1, <3>2 DEF ResultInv, Typed
  <2>2. CASE q # s
    BY <1>3, <2>2, Untouched DEF Typed
  <2> QED
    BY <2>1, <2>2
<1> QED
  BY <1>7, <1>8, <1>9 DEF ResultInv

\* The id of an action that a server has received is that of a session.
LEMMA ReceivedId ==
  ASSUME FlowInv, NEW s \in Sessions, HasAction(s)
  PROVE  /\ Received(s) \in Actions /\ Received(s).id \in Sessions
         /\ Received(s).cap = Received(s).id
<1>1. Received(s) \in Actions
  BY Reading DEF FlowInv, ResultInv
<1> QED
  BY <1>1 DEF Actions, Action

\* The steps that end the process, with what the replay cache held.
LEMMA EndSteps ==
  ASSUME FlowInv,
         \/ Crash
         \/ \E s \in Sessions : \/ ClientRejects(s) \/ ServerRefusesReplay(s)
                               \/ ServerRefusesUnauthorized(s) \/ ServerToolFails(s)
  PROVE  \E rec \in SUBSET Sessions :
           /\ ProcessEnds(rec) /\ recorded \subseteq rec /\ UNCHANGED <<signedBy, result>>
           /\ \/ UNCHANGED <<admitted, trace>>
              \/ \E s \in Sessions :
                   /\ HasAction(s) /\ Received(s).id \notin recorded /\ Received(s).id \in Sessions
                   /\ rec = recorded \cup {Received(s).id}
                   /\ admitted' = Append(admitted, Received(s).id)
                   /\ \/ UNCHANGED trace
                      \/ /\ Authorized(s, Received(s))
                         /\ trace' = Append(trace, ConsumeEvent(Received(s)))
<1>0. recorded \subseteq Sessions
  BY DEF FlowInv, Typed
<1>1. CASE Crash
  BY <1>0, <1>1 DEF Crash
<1>2. ASSUME NEW s \in Sessions, ClientRejects(s) \/ ServerRefusesReplay(s)
      PROVE  ProcessEnds(recorded) /\ UNCHANGED <<signedBy, result, admitted, trace>>
  BY <1>2 DEF ClientRejects, ServerRefusesReplay
<1>3. ASSUME NEW s \in Sessions, ServerRefusesUnauthorized(s) \/ ServerToolFails(s)
      PROVE  /\ HasAction(s) /\ Received(s).id \notin recorded /\ Received(s).id \in Sessions
             /\ ProcessEnds(recorded \cup {Received(s).id}) /\ UNCHANGED <<signedBy, result>>
             /\ admitted' = Append(admitted, Received(s).id)
             /\ \/ UNCHANGED trace
                \/ /\ Authorized(s, Received(s))
                   /\ trace' = Append(trace, ConsumeEvent(Received(s)))
  BY <1>3, ReceivedId DEF ServerRefusesUnauthorized, ServerToolFails
<1>4. ASSUME NEW s \in Sessions, ServerRefusesUnauthorized(s) \/ ServerToolFails(s)
      PROVE  recorded \cup {Received(s).id} \in SUBSET Sessions
  BY <1>0, <1>3, <1>4
<1> QED
  BY <1>0, <1>1, <1>2, <1>3, <1>4

\* What kind of step each disjunct of Next is.
LEMMA Kinds ==
  ASSUME [Next]_vars
  PROVE  \/ UNCHANGED vars \/ Restart
         \/ \E c \in IssuedCaps : Revoke(c) \/ Expire(c)
         \/ \E s \in Sessions : \/ Connect(s) \/ ClientHello(s) \/ ClientActs(s) \/ ClientDone(s)
                               \/ ServerOffers(s) \/ ServerAnswers(s)
         \/ Crash
         \/ \E s \in Sessions : \/ ClientRejects(s) \/ ServerRefusesReplay(s)
                               \/ ServerRefusesUnauthorized(s) \/ ServerToolFails(s)
BY DEF Next, ClientStep, ServerStep

LEMMA FlowStep ==
  ASSUME FlowInv, IssuedCaps \subseteq Sessions, [Next]_vars
  PROVE  FlowInv'
<1>1. CASE UNCHANGED vars
  BY <1>1, OutsideKeepsFlow DEF vars, roles
<1>2. CASE Restart
  BY <1>2, OutsideKeepsFlow DEF Restart
<1>3. ASSUME NEW c \in IssuedCaps, Revoke(c) \/ Expire(c) PROVE FlowInv'
  BY <1>3, OutsideKeepsFlow DEF Revoke, Expire
<1>4. ASSUME NEW s \in Sessions,
             \/ Connect(s) \/ ClientHello(s) \/ ClientActs(s) \/ ClientDone(s)
             \/ ServerOffers(s) \/ ServerAnswers(s)
      PROVE  FlowInv'
  BY <1>4, ClientKeepsFlow, OfferKeepsFlow, AnswerKeepsFlow
<1>5. CASE \/ Crash
           \/ \E s \in Sessions : \/ ClientRejects(s) \/ ServerRefusesReplay(s)
                                 \/ ServerRefusesUnauthorized(s) \/ ServerToolFails(s)
  <2>1. PICK rec \in SUBSET Sessions :
          /\ ProcessEnds(rec) /\ UNCHANGED <<signedBy, result>>
          /\ admitted' = admitted \/ \E id \in Sessions : admitted' = Append(admitted, id)
    BY <1>5, EndSteps
  <2>2. admitted' \in Seq(Sessions)
    <3>1. admitted \in Seq(Sessions)
      BY DEF FlowInv, Typed
    <3> QED
      BY <2>1, <3>1, AppendProperties
  <2> QED
    BY <2>1, <2>2, EndKeepsFlow
<1> QED
  BY <1>1, <1>2, <1>3, <1>4, <1>5, Kinds

LEMMA FlowInit == Init => FlowInv
<1> SUFFICES ASSUME Init PROVE FlowInv
  OBVIOUS
<1>1. Typed
  <2>1. /\ toServer \in [Sessions -> Seq(ServerMessages)]
        /\ toClient \in [Sessions -> Seq(ClientMessages)]
        /\ admitted \in Seq(Sessions)
    BY EmptySeq DEF Init
  <2>2. DOMAIN usage \subseteq Sessions /\ usage \in [DOMAIN usage -> 0..MaxCalls]
    BY DEF Init, NoUsage
  <2>3. /\ config \in Configs /\ restarts \in 0..MaxRestarts /\ up \in BOOLEAN
        /\ server \in [Sessions -> {"off", "hello", "action", "done", "over"}]
        /\ client \in [Sessions -> {"off", "hello", "offer", "observation", "done", "over"}]
        /\ signedBy \in [Sessions -> Actions \cup {None}]
        /\ result \in [Sessions -> ToolInts \cup {None}]
        /\ recorded \subseteq Sessions /\ revoked \subseteq Sessions /\ expired \subseteq Sessions
    BY FlowAssumption DEF Init
  <2> QED
    BY <2>1, <2>2, <2>3 DEF Typed
<1> QED
  BY <1>1 DEF Init, FlowInv, DownInv, UsageInv, ResultInv, Exchange, NoUsage

-----------------------------------------------------------------------------
(* The replay cache, step by step                                          *)

\* Only an id that the cache does not hold is let through, and the cache
\* keeps what it has, also over the end of the process if it is on disk.
LEMMA ReplayStep ==
  ASSUME FlowInv, ReplayInv, [Next]_vars
  PROVE  ReplayInv'
<1> USE DEF ReplayInv
<1>1. ASSUME NEW id \in Sessions, id \notin recorded, admitted' = Append(admitted, id),
             config' = config, recorded \cup {id} \subseteq recorded' \/ ~ReplayIsDurable(config)
      PROVE  ReplayInv'
  <2>1. /\ DOMAIN admitted = 1..Len(admitted) /\ Len(admitted) \in Nat
        /\ DOMAIN admitted' = 1..(Len(admitted) + 1)
        /\ \A i \in 1..Len(admitted) : admitted'[i] = admitted[i]
        /\ admitted'[Len(admitted) + 1] = id
    BY <1>1 DEF FlowInv, Typed
  <2>2. ReplayIsDurable(config') = ReplayIsDurable(config) /\ Valid(config')
    BY <1>1
  <2>3. ASSUME ReplayIsDurable(config)
        PROVE  IsInjective(admitted') /\ \A i \in DOMAIN admitted' : admitted'[i] \in recorded'
    BY <1>1, <2>1, <2>3 DEF IsInjective
  <2> QED
    BY <2>2, <2>3
<1>2. CASE UNCHANGED <<config, recorded, admitted>>
  BY <1>2
<1>3. ASSUME NEW s \in Sessions, ServerAnswers(s) PROVE ReplayInv'
  <2>1. HasAction(s) /\ Received(s).id \in Sessions
    BY <1>3, ReceivedId DEF ServerAnswers, ServerTakes, HasAction
  <2> QED
    BY <1>1, <1>3, <2>1 DEF ServerAnswers
<1>4. CASE \/ Crash
           \/ \E s \in Sessions : \/ ClientRejects(s) \/ ServerRefusesReplay(s)
                                 \/ ServerRefusesUnauthorized(s) \/ ServerToolFails(s)
  <2>1. PICK rec \in SUBSET Sessions :
          /\ ProcessEnds(rec) /\ recorded \subseteq rec
          /\ \/ UNCHANGED admitted
             \/ \E id \in Sessions :
                  /\ id \notin recorded /\ rec = recorded \cup {id} /\ admitted' = Append(admitted, id)
    BY <1>4, EndSteps
  <2>2. config' = config /\ (ReplayIsDurable(config) => recorded' = rec)
    BY <2>1 DEF ProcessEnds
  <2> QED
    BY <1>1, <2>1, <2>2
<1>5. ASSUME NEW s \in Sessions,
             Connect(s) \/ ClientHello(s) \/ ClientActs(s) \/ ClientDone(s) \/ ServerOffers(s)
      PROVE  UNCHANGED <<config, recorded, admitted>>
  BY <1>5 DEF Connect, ClientHello, ClientActs, ClientDone, ServerOffers, memory
<1>6. ASSUME NEW c \in IssuedCaps, Revoke(c) \/ Expire(c)
      PROVE  UNCHANGED <<config, recorded, admitted>>
  BY <1>6 DEF Revoke, Expire, memory
<1>7. CASE Restart \/ UNCHANGED vars
  BY <1>2, <1>7 DEF Restart, vars, memory
<1> QED
  BY <1>2, <1>3, <1>4, <1>5, <1>6, <1>7, Kinds

-----------------------------------------------------------------------------
(* The trace, step by step                                                 *)

LEMMA EventFacts ==
  /\ \A s : /\ IssueEvent(s).op = "Issue" /\ IssueEvent(s).cap = s
            /\ IssueEvent(s).sub = Alice /\ IssueEvent(s).iss = Bob
            /\ IssueEvent(s).actions = {AddTool}
            /\ Event("Revoke", s).op = "Revoke" /\ Event("Revoke", s).cap = s
            /\ Event("Expire", s).op = "Expire" /\ Event("Expire", s).cap = s
            /\ CallEvent(s).op = "Consume" /\ CallEvent(s).cap = s
            /\ CallEvent(s).sub = Alice /\ CallEvent(s).iss = Bob /\ CallEvent(s).kid = Alice
            /\ CallEvent(s).msg = s /\ CallEvent(s).act = AddTool
  /\ \A e \in Events :
       /\ e.cap \in Sessions
       /\ \/ e = IssueEvent(e.cap) \/ e = Event("Revoke", e.cap)
          \/ e = Event("Expire", e.cap) \/ e = CallEvent(e.cap)
<1>1. \A s : /\ IssueEvent(s).op = "Issue" /\ IssueEvent(s).cap = s
             /\ IssueEvent(s).sub = Alice /\ IssueEvent(s).iss = Bob
             /\ IssueEvent(s).actions = {AddTool}
  BY DEF IssueEvent, Event
<1>2. \A s : /\ Event("Revoke", s).op = "Revoke" /\ Event("Revoke", s).cap = s
             /\ Event("Expire", s).op = "Expire" /\ Event("Expire", s).cap = s
  BY DEF Event
<1>3. \A s : /\ CallEvent(s).op = "Consume" /\ CallEvent(s).cap = s
             /\ CallEvent(s).sub = Alice /\ CallEvent(s).iss = Bob /\ CallEvent(s).kid = Alice
             /\ CallEvent(s).msg = s /\ CallEvent(s).act = AddTool
  BY DEF CallEvent, Event
<1> QED
  BY <1>1, <1>2, <1>3 DEF Events

\* A recorded call is the call of the session whose grant it names.
LEMMA ConsumeIsCall ==
  ASSUME NEW m \in Actions
  PROVE  ConsumeEvent(m) = CallEvent(m.cap)
<1>1. m.id = m.cap /\ m.sender = Alice /\ m.action = AddTool
  BY DEF Actions, Action
<1> QED
  BY <1>1 DEF ConsumeEvent, CallEvent

\* Only sessions are granted anything.
LEMMA IssuedSessions == TraceInv => IssuedCaps \subseteq Sessions
<1> SUFFICES ASSUME TraceInv, NEW c \in IssuedCaps PROVE c \in Sessions
  OBVIOUS
<1>1. PICK i \in DOMAIN trace : trace[i].cap = c
  BY DEF IssuedCaps
<1>2. trace[i] \in Events
  BY <1>1, ElementOfSeq DEF TraceInv
<1> QED
  BY <1>1, <1>2, EventFacts

\* No session goes back, and what ended a grant is not forgotten while its
\* action is awaited.
Onward ==
  /\ expired \subseteq expired'
  /\ \A s \in Sessions :
       /\ server'[s] \in {"off", "hello"} => server[s] \in {"off", "hello"}
       /\ server'[s] = "action" =>
            server[s] \in {"hello", "action"} /\ (s \in revoked => s \in revoked')

LEMMA FitsOnward ==
  ASSUME Onward, NEW e \in Events, Fits(e)
  PROVE  Fits(e)'
<1>1. e.cap \in Sessions
  BY EventFacts
<1> QED
  BY <1>1 DEF Fits, Onward

\* A step that records nothing.
LEMMA SilentKeepsTrace ==
  ASSUME TraceInv, Onward, UNCHANGED trace,
         \A s \in Sessions : server'[s] = "action" => server[s] = "action"
  PROVE  TraceInv'
<1>1. \A i \in DOMAIN trace : trace[i] \in Events
  BY ElementOfSeq DEF TraceInv
<1>2. EventsInv'
  BY <1>1, FitsOnward DEF TraceInv, EventsInv
<1> QED
  BY <1>2 DEF TraceInv, OnceInv, GrantedInv, OrderInv, Consumes

\* A step that records an event.
LEMMA RecordKeepsTrace ==
  ASSUME TraceInv, Onward, NEW e \in Events, trace' = Append(trace, e), Fits(e)',
         e.op \in {"Issue", "Consume"} =>
           \A i \in DOMAIN trace : ~(trace[i].op = e.op /\ trace[i].cap = e.cap),
         \A s \in Sessions : server'[s] = "action" => server[s] = "action" \/ e = IssueEvent(s),
         e.op = "Consume" =>
           /\ \E i \in DOMAIN trace : trace[i] = IssueEvent(e.cap)
           /\ \A k \in DOMAIN trace : trace[k].cap = e.cap => trace[k].op \notin Ends
  PROVE  TraceInv'
<1> DEFINE n == Len(trace)
<1>0. trace \in Seq(Events)
  BY DEF TraceInv
<1>1. /\ n \in Nat /\ DOMAIN trace = 1..n /\ DOMAIN trace' = 1..(n + 1)
      /\ \A i \in 1..n : trace'[i] = trace[i] /\ trace[i] \in Events
      /\ trace'[n + 1] = e /\ trace' \in Seq(Events)
  BY <1>0
<1> HIDE DEF n
<1>2. EventsInv'
  <2> SUFFICES ASSUME NEW i \in 1..(n + 1) PROVE Fits(trace[i])'
    BY <1>1 DEF EventsInv
  <2>1. CASE i = n + 1
    BY <1>1, <2>1 DEF Fits
  <2>2. CASE i \in 1..n
    <3>1. Fits(trace[i]) /\ trace[i] \in Events
      BY <1>1, <2>2 DEF TraceInv, EventsInv
    <3>2. trace'[i] = trace[i]
      BY <1>1, <2>2
    <3> QED
      BY <3>1, <3>2, FitsOnward DEF Fits, Onward
  <2> QED
    BY <1>1, <2>1, <2>2
<1>3. OnceInv'
  BY <1>1 DEF TraceInv, OnceInv
<1>4. GrantedInv'
  <2> SUFFICES ASSUME NEW s \in Sessions, server'[s] = "action"
               PROVE  \E i \in DOMAIN trace' : trace'[i] = IssueEvent(s)
    BY DEF GrantedInv, IssueEvent, Event
  <2>1. CASE server[s] = "action"
    BY <1>1, <2>1 DEF TraceInv, GrantedInv
  <2>2. CASE e = IssueEvent(s)
    BY <1>1, <2>2
  <2> QED
    BY <2>1, <2>2
<1>5. OrderInv'
  <2> SUFFICES ASSUME NEW j \in 1..(n + 1), trace'[j].op = "Consume"
               PROVE  /\ \E i \in 1..(j - 1) : trace'[i] = IssueEvent(trace'[j].cap)
                      /\ \A k \in 1..(j - 1) : trace'[k].cap = trace'[j].cap => trace'[k].op \notin Ends
    BY <1>1 DEF OrderInv, Consumes, IssueEvent, Event, Ends
  <2>1. CASE j = n + 1
    BY <1>1, <2>1
  <2>2. CASE j \in 1..n
    <3>1. j \in Consumes(trace) /\ \A k \in 1..(j - 1) : k \in 1..n
      BY <1>1, <2>2 DEF Consumes
    <3> QED
      BY <1>1, <2>2, <3>1 DEF TraceInv, OrderInv
  <2> QED
    BY <1>1, <2>1, <2>2
<1> QED
  BY <1>1, <1>2, <1>3, <1>4, <1>5 DEF TraceInv

\* A call that is authorized is the first one under its grant, after the
\* grant and before the end of it.
LEMMA CallIsInForce ==
  ASSUME FlowInv, TraceInv, NEW s \in Sessions, HasAction(s), Authorized(s, Received(s))
  PROVE  /\ ConsumeEvent(Received(s)) = CallEvent(s)
         /\ server[s] = "action"
         /\ \A i \in DOMAIN trace : ~(trace[i].op = "Consume" /\ trace[i].cap = s)
         /\ \E i \in DOMAIN trace : trace[i] = IssueEvent(s)
         /\ \A k \in DOMAIN trace : trace[k].cap = s => trace[k].op \notin Ends
<1>1. /\ Received(s) \in Actions /\ Received(s).cap = s
      /\ s \notin revoked /\ s \notin expired /\ server[s] = "action"
  BY ReceivedId DEF Authorized, Matches, HasAction
<1>2. ConsumeEvent(Received(s)) = CallEvent(s)
  BY <1>1, ConsumeIsCall
<1>3. \A i \in DOMAIN trace : trace[i].cap = s => trace[i].op \notin {"Consume", "Expire", "Revoke"}
  BY <1>1 DEF TraceInv, EventsInv, Fits
<1>4. \E i \in DOMAIN trace : trace[i] = IssueEvent(s)
  BY <1>1 DEF TraceInv, GrantedInv
<1> QED
  BY <1>1, <1>2, <1>3, <1>4 DEF Ends

LEMMA TraceStep ==
  ASSUME FlowInv, TraceInv, [Next]_vars
  PROVE  TraceInv'
<1>0. server \in [Sessions -> {"off", "hello", "action", "done", "over"}]
  BY DEF FlowInv, Typed
<1>1. CASE UNCHANGED vars \/ Restart
  <2>1. UNCHANGED <<server, revoked, expired, trace>>
    BY <1>1 DEF vars, roles, memory, Restart
  <2> QED
    BY <2>1, SilentKeepsTrace DEF Onward
<1>2. ASSUME NEW c \in IssuedCaps, Revoke(c) \/ Expire(c) PROVE TraceInv'
  <2>1. c \in Sessions /\ server[c] \notin {"off", "hello"}
    <3>1. PICK i \in DOMAIN trace : trace[i].cap = c
      BY DEF IssuedCaps
    <3>2. Fits(trace[i])
      BY <3>1 DEF TraceInv, EventsInv
    <3> QED
      BY <3>1, <3>2, IssuedSessions DEF Fits
  <2>2. PICK op \in {"Revoke", "Expire"} :
          /\ trace' = Append(trace, Event(op, c)) /\ server' = server
          /\ expired \subseteq expired' /\ revoked \subseteq revoked'
          /\ IF op = "Revoke" THEN c \in revoked' ELSE c \in expired'
    BY <1>2 DEF Revoke, Expire, roles, memory
  <2>3. Event(op, c) \in Events /\ Event(op, c).op = op /\ Event(op, c).cap = c
    BY <2>1, EventFacts DEF Events
  <2>4. Onward /\ Fits(Event(op, c))'
    BY <2>1, <2>2, <2>3 DEF Onward, Fits, Event
  <2> QED
    BY <2>2, <2>3, <2>4, RecordKeepsTrace
<1>3. ASSUME NEW s \in Sessions, Connect(s) \/ ClientHello(s) \/ ClientActs(s) \/ ClientDone(s)
      PROVE  TraceInv'
  <2>1. /\ UNCHANGED <<revoked, expired, trace>>
        /\ server' = server \/ (server[s] = "off" /\ server' = [server EXCEPT ![s] = "hello"])
    <3>1. Connect(s) => server[s] = "off"
      BY DEF Connect, FlowInv, ResultInv, Exchange
    <3>2. CASE Connect(s)
      BY <3>1, <3>2 DEF Connect, memory
    <3>3. CASE ClientHello(s)
      BY <3>3 DEF ClientHello, memory
    <3>4. CASE ClientActs(s)
      BY <3>4 DEF ClientActs, memory
    <3>5. CASE ClientDone(s)
      BY <3>5 DEF ClientDone, memory
    <3> QED
      BY <1>3, <3>2, <3>3, <3>4, <3>5
  <2>2. Onward /\ \A q \in Sessions : server'[q] = "action" => server[q] = "action"
    BY <1>0, <2>1 DEF Onward
  <2> QED
    BY <2>1, <2>2, SilentKeepsTrace
<1>4. ASSUME NEW s \in Sessions, ServerOffers(s) PROVE TraceInv'
  <2>1. /\ server[s] = "hello" /\ server' = [server EXCEPT ![s] = "action"]
        /\ UNCHANGED <<revoked, expired>> /\ trace' = Append(trace, IssueEvent(s))
    BY <1>4 DEF ServerOffers, ServerTakes
  <2>2. IssueEvent(s) \in Events /\ IssueEvent(s).op = "Issue" /\ IssueEvent(s).cap = s
    BY EventFacts DEF Events
  <2>3. \A i \in DOMAIN trace : trace[i].cap # s
    BY <2>1 DEF TraceInv, EventsInv, Fits
  <2>4. Onward /\ \A q \in Sessions : server'[q] = "action" => server[q] = "action" \/ q = s
    BY <1>0, <2>1 DEF Onward
  <2>5. Fits(IssueEvent(s))'
    BY <1>0, <2>1, <2>2 DEF Fits, IssueEvent, Event
  <2> QED
    BY <2>1, <2>2, <2>3, <2>4, <2>5, RecordKeepsTrace
<1>5. ASSUME NEW s \in Sessions, HasAction(s), Authorized(s, Received(s)), Onward,
             trace' = Append(trace, ConsumeEvent(Received(s))),
             server'[s] \in {"done", "over"},
             \A q \in Sessions : server'[q] = "action" => server[q] = "action"
      PROVE  TraceInv'
  <2>1. CallEvent(s) \in Events /\ CallEvent(s).op = "Consume" /\ CallEvent(s).cap = s
    BY EventFacts DEF Events
  <2>2. trace' = Append(trace, CallEvent(s))
    BY <1>5, CallIsInForce
  <2>3. Fits(CallEvent(s))'
    BY <1>5, <2>1 DEF Fits, CallEvent, Event
  <2>4. /\ \A i \in DOMAIN trace : ~(trace[i].op = "Consume" /\ trace[i].cap = s)
        /\ \E i \in DOMAIN trace : trace[i] = IssueEvent(s)
        /\ \A k \in DOMAIN trace : trace[k].cap = s => trace[k].op \notin Ends
    BY <1>5, CallIsInForce
  <2> QED
    BY <1>5, <2>1, <2>2, <2>3, <2>4, RecordKeepsTrace
<1>6. ASSUME NEW s \in Sessions, ServerAnswers(s) PROVE TraceInv'
  <2>1. /\ HasAction(s) /\ Authorized(s, Received(s)) /\ server[s] = "action"
        /\ trace' = Append(trace, ConsumeEvent(Received(s)))
        /\ server' = [server EXCEPT ![s] = "done"] /\ UNCHANGED <<revoked, expired>>
    BY <1>6 DEF ServerAnswers, ServerTakes, HasAction
  <2>2. Onward /\ \A q \in Sessions : server'[q] = "action" => server[q] = "action"
    BY <1>0, <2>1 DEF Onward
  <2> QED
    BY <1>0, <1>5, <2>1, <2>2
<1>7. CASE \/ Crash
           \/ \E s \in Sessions : \/ ClientRejects(s) \/ ServerRefusesReplay(s)
                                 \/ ServerRefusesUnauthorized(s) \/ ServerToolFails(s)
  <2>1. PICK rec \in SUBSET Sessions :
          /\ ProcessEnds(rec)
          /\ \/ UNCHANGED trace
             \/ \E s \in Sessions : /\ HasAction(s) /\ Authorized(s, Received(s))
                                   /\ trace' = Append(trace, ConsumeEvent(Received(s)))
    BY <1>7, EndSteps
  <2>2. /\ expired' = expired
        /\ \A q \in Sessions : server'[q] = IF server[q] \in {"off", "done"} THEN server[q] ELSE "over"
    BY <2>1 DEF ProcessEnds, Ended
  <2>3. Onward /\ \A q \in Sessions : server'[q] # "action"
    BY <1>0, <2>2 DEF Onward
  <2>4. ASSUME NEW s \in Sessions, HasAction(s) PROVE server'[s] = "over"
    BY <2>2, <2>4 DEF HasAction
  <2> QED
    BY <1>5, <2>1, <2>3, <2>4, SilentKeepsTrace
<1> QED
  BY <1>1, <1>2, <1>3, <1>4, <1>6, <1>7, Kinds

-----------------------------------------------------------------------------
(* The audit graph                                                         *)

\* No CID twice.
Distinct(d) == \A i, j \in DOMAIN d : d[i].cid = d[j].cid => i = j

\* add_message keeps the graph free of a CID twice.
LEMMA AddMessageFacts ==
  ASSUME NEW S, NEW d \in Seq(S), NEW node \in S, Distinct(d)
  PROVE  /\ AddMessage(d, node) \in Seq(S) /\ Distinct(AddMessage(d, node))
         /\ Cids(AddMessage(d, node)) = Cids(d) \cup {node.cid}
         /\ node.cid \notin Cids(d) => AddMessage(d, node)[Len(AddMessage(d, node))] = node
<1> DEFINE r == AddMessage(d, node)
<1>1. CASE node.cid \in Cids(d)
  <2>1. r = [i \in DOMAIN d |-> IF d[i].cid = node.cid THEN node ELSE d[i]]
    BY <1>1 DEF AddMessage
  <2>2. DOMAIN r = DOMAIN d /\ \A i \in DOMAIN d : r[i] = IF d[i].cid = node.cid THEN node ELSE d[i]
    BY <2>1
  <2>3. r \in Seq(S)
    <3>1. Len(d) \in Nat /\ DOMAIN d = 1..Len(d) /\ \A i \in 1..Len(d) : d[i] \in S
      OBVIOUS
    <3> QED
      BY <2>1, <3>1, IsASeq
  <2>4. \A i \in DOMAIN d : r[i].cid = d[i].cid
    BY <2>2
  <2> HIDE DEF r
  <2>5. Distinct(r) /\ Cids(r) = Cids(d) \cup {node.cid}
    BY <1>1, <2>2, <2>4 DEF Distinct, Cids
  <2> QED
    BY <1>1, <2>2, <2>3, <2>5 DEF r
<1>2. CASE node.cid \notin Cids(d)
  <2>1. r = Append(d, node)
    BY <1>2 DEF AddMessage
  <2>2. /\ r \in Seq(S) /\ Len(d) \in Nat /\ DOMAIN d = 1..Len(d) /\ DOMAIN r = 1..(Len(d) + 1)
        /\ Len(r) = Len(d) + 1 /\ r[Len(d) + 1] = node /\ \A i \in DOMAIN d : r[i] = d[i]
    BY <2>1
  <2> HIDE DEF r
  <2>3. Distinct(r)
    BY <1>2, <2>2 DEF Distinct, Cids
  <2>4. Cids(r) = Cids(d) \cup {node.cid}
    BY <2>2 DEF Cids
  <2>5. r[Len(r)] = node
    BY <2>2
  <2> QED
    BY <2>2, <2>3, <2>4, <2>5 DEF r
<1> QED
  BY <1>1, <1>2

\* A node is found by its CID.
LEMMA NodeOfCid ==
  ASSUME NEW d, Distinct(d), NEW i \in DOMAIN d
  PROVE  Node(d, d[i].cid) = d[i]
BY DEF Node, Distinct

\* get_lineage of a node with no parent, or with one that has none.  The
\* function W is the one that the recursion of Lineage defines.
LEMMA LineageOfPair ==
  ASSUME NEW d, NEW cid \in Cids(d),
         \A c \in Cids(d) : /\ Node(d, c).parents \in Seq(Cids(d)) /\ Len(Node(d, c).parents) <= 1
                            /\ \A p \in Range(Node(d,c).parents) : Node(d, p).parents = <<>>
  PROVE  Lineage(d, cid) = IF Node(d, cid).parents = <<>> THEN <<cid>>
                           ELSE <<Node(d, cid).parents[1], cid>>
<1> DEFINE C == Cids(d)
           D == C \X (Nat \ {0}) \X Seq(C)
           par(c) == Node(d, c).parents
           step(g, at, k, seen) ==
             IF k > Len(par(at)) THEN Append(seen, at)
             ELSE IF par(at)[k] \in C \ Range(seen)
                  THEN g[<<at, k + 1, g[<<par(at)[k], 1, seen>>]>>]
                  ELSE g[<<at, k + 1, seen>>]
           body(g) == [q \in D |-> step(g, q[1], q[2], q[3])]
           val(at, k, seen) == IF k <= Len(par(at)) /\ par(at)[k] \in C \ Range(seen)
                   THEN Append(Append(seen, par(at)[k]), at) ELSE Append(seen, at)
           W == [q \in D |-> val(q[1], q[2], q[3])]
           walk == CHOOSE g : g = body(g)
<1>1. Lineage(d, cid) = walk[<<cid, 1, <<>>>>]
  BY DEF Lineage, Visits
<1> HIDE DEF walk
<1>0. \A c \in C : /\ par(c) \in Seq(C) /\ Len(par(c)) \in {0, 1}
                   /\ Len(par(c)) = 1 => par(c)[1] \in C /\ par(par(c)[1]) = <<>>
  <2> TAKE c \in C
  <2>1. par(c) \in Seq(C) /\ Len(par(c)) \in {0, 1}
    <3>1. par(c) \in Seq(C) /\ Len(par(c)) <= 1
      OBVIOUS
    <3>2. Len(par(c)) \in Nat
      BY <3>1, LenProperties
    <3>3. \A n \in Nat : n <= 1 => n \in {0, 1}
      OBVIOUS
    <3> HIDE DEF par, C
    <3> QED
      BY <3>1, <3>2, <3>3
  <2>2. ASSUME Len(par(c)) = 1 PROVE par(c)[1] \in C /\ par(par(c)[1]) = <<>>
    <3>1. 1 \in DOMAIN par(c) /\ par(c)[1] \in C
      BY <2>1, <2>2
    <3>2. par(c)[1] \in Range(par(c))
      BY <3>1 DEF Range
    <3> QED
      BY <3>1, <3>2
  <2> QED
    BY <2>1, <2>2
<1>D. \A q : q \in D <=> \E at \in C, k \in Nat \ {0}, seen \in Seq(C) : q = <<at, k, seen>>
  OBVIOUS
<1>4. \A at \in C, k \in Nat \ {0}, seen \in Seq(C) : W[<<at, k, seen>>] = val(at, k, seen)
  <2> HIDE DEF val, C
  <2> QED OBVIOUS
<1>2. W = body(W)
  <2>1. ASSUME NEW at \in C, NEW k \in Nat \ {0}, NEW seen \in Seq(C)
        PROVE  val(at, k, seen) = step(W, at, k, seen)
    <3> HIDE DEF W, D
    <3>1. CASE k > Len(par(at))
      BY <1>0, <3>1
    <3>2. CASE ~(k > Len(par(at)))
      <4>1. k = 1 /\ Len(par(at)) = 1
        BY <1>0, <3>2
      <4>2. par(at)[1] \in C /\ par(par(at)[1]) = <<>> /\ Len(par(par(at)[1])) = 0
        BY <1>0, <4>1
      <4> DEFINE p == par(at)[1]
      <4>n. 1 \in Nat \ {0} /\ 2 \in Nat \ {0} /\ 1 + 1 = 2 /\ ~(1 <= 0) /\ ~(2 <= 1) /\ 1 <= 1 /\ ~(1 > 1)
        OBVIOUS
      <4>3. val(p, 1, seen) = Append(seen, p) /\ Append(seen, p) \in Seq(C)
        BY <4>2
      <4>4. \A s \in Seq(C) : val(at, 2, s) = Append(s, at)
        BY <4>1, <4>n
      <4>5. W[<<p, 1, seen>>] = Append(seen, p)
        <5> HIDE DEF val, C, par
        <5> QED
          BY <1>4, <4>2, <4>3, <4>n
      <4>6. \A s \in Seq(C) : W[<<at, 2, s>>] = Append(s, at)
        <5> HIDE DEF val, C, par
        <5> QED
          BY <1>4, <4>4, <4>n
      <4> HIDE DEF par, C, p
      <4>7. step(W, at, 1, seen) = IF p \in C \ Range(seen) THEN W[<<at, 2, W[<<p, 1, seen>>]>>] ELSE W[<<at, 2, seen>>]
        BY <4>1, <4>n DEF p
      <4>8. val(at, 1, seen) = IF p \in C \ Range(seen) THEN Append(Append(seen, p), at) ELSE Append(seen, at)
        BY <4>1, <4>n DEF p
      <4> HIDE DEF step, val
      <4> QED
        BY <4>1, <4>3, <4>5, <4>6, <4>7, <4>8
    <3> QED
      BY <3>1, <3>2
  <2> HIDE DEF val, step, C
  <2>2. \A q \in D : val(q[1], q[2], q[3]) = step(W, q[1], q[2], q[3])
    BY <2>1
  <2> HIDE DEF D
  <2> QED
    BY <2>2
<1>3. walk = body(walk)
  <2> HIDE DEF body, W
  <2>1. \E g : g = body(g)
    BY <1>2
  <2> QED
    BY <2>1 DEF walk
<1>5. \A at \in C, k \in Nat \ {0}, seen \in Seq(C) : walk[<<at, k, seen>>] = step(walk, at, k, seen)
  <2> HIDE DEF step, C, W
  <2> QED
    BY <1>3
<1> HIDE DEF W, body, D
<1>n. 1 \in Nat \ {0} /\ 2 \in Nat \ {0} /\ 1 + 1 = 2 /\ 1 > 0 /\ 2 > 1 /\ ~(1 > 1)
  OBVIOUS
<1>L. \A at \in C, k \in Nat \ {0}, seen \in Seq(C) :
        k > Len(par(at)) => walk[<<at, k, seen>>] = Append(seen, at)
  BY <1>5
<1>6. CASE par(cid) = <<>>
  <2>1. Len(par(cid)) = 0 /\ <<>> \in Seq(C) /\ cid \in C /\ Append(<<>>, cid) = <<cid>>
    BY <1>6
  <2>2. walk[<<cid, 1, <<>>>>] = Append(<<>>, cid)
    <3> HIDE DEF par, C, step
    <3> QED
      BY <1>L, <2>1, <1>n
  <2> QED
    BY <1>1, <1>6, <2>1, <2>2
<1>7. CASE par(cid) # <<>>
  <2> DEFINE p == par(cid)[1]
  <2>0. cid \in C /\ par(cid) \in Seq(C) /\ Len(par(cid)) # 0
    BY <1>0, <1>7, EmptySeq
  <2>1. Len(par(cid)) = 1 /\ <<>> \in Seq(C) /\ cid \in C /\ p \in C /\ Len(par(p)) = 0
    BY <1>0, <2>0
  <2>a. <<p>> \in Seq(C) /\ Append(<<>>, p) = <<p>> /\ Append(<<p>>, cid) = <<p, cid>>
    <3> HIDE DEF C, p
    <3>1. <<p>> \in Seq(C)
      BY <2>1
    <3>2. Append(<<>>, p) = <<p>>
      BY <2>1
    <3>3. Append(<<p>>, cid) = <<p, cid>>
      <4> DEFINE a == Append(<<p>>, cid)  b == <<p, cid>>
      <4>1. a \in Seq(C) /\ Len(a) = 2 /\ a[1] = p /\ a[2] = cid
        BY <2>1, <3>1
      <4>2. b \in Seq(C) /\ Len(b) = 2 /\ b[1] = p /\ b[2] = cid
        BY <2>1
      <4>3. \A i \in 1 .. 2 : i = 1 \/ i = 2
        OBVIOUS
      <4> HIDE DEF a, b
      <4>4. \A i \in 1 .. Len(a) : a[i] = b[i]
        BY <4>1, <4>2, <4>3
      <4>5. a = b
        BY <4>1, <4>2, <4>4, SeqEqual
      <4> QED
        BY <4>5 DEF a, b
    <3> QED
      BY <3>1, <3>2, <3>3
  <2>4. Range(<<>>) = {}
    BY DEF Range
  <2> HIDE DEF par, C, p
  <2>2. walk[<<p, 1, <<>>>>] = <<p>>
    BY <1>L, <2>1, <1>n, <2>a
  <2>3. walk[<<cid, 2, <<p>>>>] = <<p, cid>>
    BY <1>L, <2>1, <2>a, <1>n
  <2>5. walk[<<cid, 1, <<>>>>] = walk[<<cid, 2, walk[<<p, 1, <<>>>>]>>]
    <3>1. walk[<<cid, 1, <<>>>>] = step(walk, cid, 1, <<>>)
      <4> HIDE DEF step
      <4> QED
        BY <1>5, <2>1, <1>n
    <3> QED
      BY <3>1, <2>1, <2>4, <1>n DEF p
  <2>6. walk[<<cid, 1, <<>>>>] = <<p, cid>>
    BY <2>2, <2>3, <2>5
  <2> QED
    BY <1>1, <1>7, <2>6 DEF p, par
<1> QED
  BY <1>6, <1>7

\* The messages of an offer.
OfferTypes == {"ClientHello", "ServerHello", "CapabilityOffer", "CapabilityGrant"}

Nodes ==
  UNION {{NodeOf(t, s, <<>>) : t \in OfferTypes \cup {"Action"}}
            \cup {NodeOf("Observation", s, <<<<"Action", s>>>>)} : s \in Sessions}

\* A node of a verified message whose stored copy is as it was.
Genuine(n) == n.valid /\ CidOf(n.stored) = n.cid

\* Each CID has one node; the graph has the action of a session only when
\* the session is answered, and with each observation its action.
DagInv ==
  /\ dag \in Seq(Nodes) /\ Distinct(dag)
  /\ \A s \in Sessions :
       /\ <<"Action", s>> \in Cids(dag) => server[s] = "done"
       /\ <<"Observation", s>> \in Cids(dag) => <<"Action", s>> \in Cids(dag)

\* The nodes and their fields.
LEMMA NodeFacts ==
  /\ \A t, s, p : NodeOf(t, s, p).cid = <<t, s>> /\ NodeOf(t, s, p).parents = p /\ Genuine(NodeOf(t, s, p))
  /\ \A n \in Nodes : \E s \in Sessions :
       \/ \E t \in OfferTypes \cup {"Action"} : n = NodeOf(t, s, <<>>)
       \/ n = NodeOf("Observation", s, <<<<"Action", s>>>>)
  /\ \A s \in Sessions : /\ \A t \in OfferTypes \cup {"Action"} : NodeOf(t, s, <<>>) \in Nodes
                         /\ NodeOf("Observation", s, <<<<"Action", s>>>>) \in Nodes
<1>1. \A t, s, p : NodeOf(t, s, p).cid = <<t, s>> /\ NodeOf(t, s, p).parents = p /\ Genuine(NodeOf(t, s, p))
  BY DEF NodeOf, NodeFrom, CidOf, Genuine
<1>2. \A n \in Nodes : \E s \in Sessions :
       \/ \E t \in OfferTypes \cup {"Action"} : n = NodeOf(t, s, <<>>)
       \/ n = NodeOf("Observation", s, <<<<"Action", s>>>>)
  BY DEF Nodes
<1>3. \A s \in Sessions : /\ \A t \in OfferTypes \cup {"Action"} : NodeOf(t, s, <<>>) \in Nodes
                         /\ NodeOf("Observation", s, <<<<"Action", s>>>>) \in Nodes
  <2> SUFFICES ASSUME NEW s \in Sessions
               PROVE  /\ \A t \in OfferTypes \cup {"Action"} : NodeOf(t, s, <<>>) \in Nodes
                      /\ NodeOf("Observation", s, <<<<"Action", s>>>>) \in Nodes
    OBVIOUS
  <2> DEFINE own(q) == {NodeOf(t, q, <<>>) : t \in OfferTypes \cup {"Action"}}
                        \cup {NodeOf("Observation", q, <<<<"Action", q>>>>)}
  <2>1. Nodes = UNION {own(q) : q \in Sessions}
    BY DEF Nodes
  <2>2. \A x \in own(s) : x \in Nodes
    <3> HIDE DEF own
    <3> QED
      BY <2>1
  <2> QED
    BY <2>2
<1> QED
  BY <1>1, <1>2, <1>3

\* Steps that leave the graph alone.
LEMMA SilentKeepsDag ==
  ASSUME DagInv, UNCHANGED dag, \A s \in Sessions : server[s] = "done" => server'[s] = "done"
  PROVE  DagInv'
BY DEF DagInv

\* An offer adds its four messages.
LEMMA AfterOfferFacts ==
  ASSUME NEW d \in Seq(Nodes), Distinct(d), NEW s \in Sessions
  PROVE  /\ AfterOffer(d, s) \in Seq(Nodes) /\ Distinct(AfterOffer(d, s))
         /\ Cids(AfterOffer(d, s)) = Cids(d) \cup {<<t, s>> : t \in OfferTypes}
<1> DEFINE n(t) == NodeOf(t, s, <<>>)
           d1 == AddMessage(d, n("ClientHello"))
           d2 == AddMessage(d1, n("ServerHello"))
           d3 == AddMessage(d2, n("CapabilityOffer"))
           d4 == AddMessage(d3, n("CapabilityGrant"))
<1>1. AfterOffer(d, s) = d4
  BY DEF AfterOffer
<1>2. \A t \in OfferTypes : n(t) \in Nodes /\ n(t).cid = <<t, s>>
  BY NodeFacts
<1>t. "ClientHello" \in OfferTypes /\ "ServerHello" \in OfferTypes /\ "CapabilityOffer" \in OfferTypes
      /\ "CapabilityGrant" \in OfferTypes
  BY DEF OfferTypes
<1> HIDE DEF n
<1>a. \A e \in Seq(Nodes), t \in OfferTypes :
        Distinct(e) => /\ AddMessage(e, n(t)) \in Seq(Nodes) /\ Distinct(AddMessage(e, n(t)))
                       /\ Cids(AddMessage(e, n(t))) = Cids(e) \cup {<<t, s>>}
  <2> SUFFICES ASSUME NEW e \in Seq(Nodes), NEW t \in OfferTypes, Distinct(e)
               PROVE  /\ AddMessage(e, n(t)) \in Seq(Nodes) /\ Distinct(AddMessage(e, n(t)))
                      /\ Cids(AddMessage(e, n(t))) = Cids(e) \cup {<<t, s>>}
    OBVIOUS
  <2>1. PICK node \in Nodes : node = n(t) /\ node.cid = <<t, s>>
    BY <1>2
  <2>2. /\ AddMessage(e, node) \in Seq(Nodes) /\ Distinct(AddMessage(e, node))
        /\ Cids(AddMessage(e, node)) = Cids(e) \cup {node.cid}
    BY AddMessageFacts
  <2> QED
    BY <2>1, <2>2
<1>3. d1 \in Seq(Nodes) /\ Distinct(d1) /\ Cids(d1) = Cids(d) \cup {<<"ClientHello", s>>}
  BY <1>a, <1>t
<1> HIDE DEF d1
<1>4. d2 \in Seq(Nodes) /\ Distinct(d2) /\ Cids(d2) = Cids(d1) \cup {<<"ServerHello", s>>}
  BY <1>a, <1>3, <1>t
<1> HIDE DEF d2
<1>5. d3 \in Seq(Nodes) /\ Distinct(d3) /\ Cids(d3) = Cids(d2) \cup {<<"CapabilityOffer", s>>}
  BY <1>a, <1>4, <1>t
<1> HIDE DEF d3
<1>6. d4 \in Seq(Nodes) /\ Distinct(d4) /\ Cids(d4) = Cids(d3) \cup {<<"CapabilityGrant", s>>}
  BY <1>a, <1>5, <1>t
<1> HIDE DEF d4
<1> QED
  BY <1>1, <1>3, <1>4, <1>5, <1>6 DEF OfferTypes

\* Each step keeps the graph; the action is its last node when the server
\* makes the observation.
LEMMA DagStep ==
  ASSUME FlowInv, DagInv, [Next]_vars, IssuedCaps \subseteq Sessions
  PROVE  DagInv'
<1>0. server \in [Sessions -> {"off", "hello", "action", "done", "over"}]
  BY DEF FlowInv, Typed
<1>1. CASE UNCHANGED vars \/ Restart
  BY <1>1, SilentKeepsDag DEF vars, roles, memory, Restart
<1>2. ASSUME NEW c \in IssuedCaps, Revoke(c) \/ Expire(c) PROVE DagInv'
  BY <1>2, SilentKeepsDag DEF Revoke, Expire, roles, memory
<1>3. ASSUME NEW s \in Sessions, Connect(s) \/ ClientHello(s) \/ ClientActs(s) \/ ClientDone(s)
      PROVE  DagInv'
  <2>1. UNCHANGED dag
    BY <1>3 DEF Connect, ClientHello, ClientActs, ClientDone, memory
  <2>2. Exchange(s)
    BY DEF FlowInv, ResultInv
  <2>3. \A q \in Sessions : server[q] = "done" => server'[q] = "done"
    BY <1>0, <1>3, <2>2 DEF Connect, ClientHello, ClientActs, ClientDone, Exchange
  <2> QED
    BY <2>1, <2>3, SilentKeepsDag
<1>4. ASSUME NEW s \in Sessions, ServerOffers(s) PROVE DagInv'
  <2>1. dag' = AfterOffer(dag, s) /\ server[s] = "hello" /\ server' = [server EXCEPT ![s] = "action"]
    BY <1>4 DEF ServerOffers, ServerTakes
  <2>2. /\ dag' \in Seq(Nodes) /\ Distinct(dag')
        /\ Cids(dag') = Cids(dag) \cup {<<t, s>> : t \in OfferTypes}
    BY <2>1, AfterOfferFacts DEF DagInv
  <2>3. \A t \in OfferTypes, q \in Sessions : <<t, s>> # <<"Action", q>> /\ <<t, s>> # <<"Observation", q>>
    BY DEF OfferTypes
  <2>4. \A q \in Sessions : /\ <<"Action", q>> \in Cids(dag') <=> <<"Action", q>> \in Cids(dag)
                            /\ <<"Observation", q>> \in Cids(dag') <=> <<"Observation", q>> \in Cids(dag)
    BY <2>2, <2>3
  <2>5. \A q \in Sessions : server[q] = "done" => server'[q] = "done"
    BY <1>0, <2>1
  <2> QED
    BY <2>2, <2>4, <2>5 DEF DagInv
<1>5. ASSUME NEW s \in Sessions, ServerAnswers(s) PROVE DagInv'
  <2> DEFINE action == NodeOf("Action", s, <<>>)
             d == AddMessage(dag, action)
             observation == NodeOf("Observation", s, <<<<"Action", s>>>>)
  <2>1. /\ HasAction(s) /\ Authorized(s, Received(s)) /\ server[s] = "action"
        /\ server' = [server EXCEPT ![s] = "done"]
        /\ dag' = LET d0 == AddMessage(dag, NodeOf("Action", Received(s).id, <<>>)) IN
                  AddMessage(d0, NodeOf("Observation", s, ObservationParent(d0, Received(s))))
    BY <1>5 DEF ServerAnswers, ServerTakes, HasAction
  <2>2. Received(s).id = s
    <3>1. Received(s) \in Actions /\ Received(s).cap = s
      BY <2>1, CallIsInForce, Reading DEF FlowInv, ResultInv, Authorized, Matches
    <3> QED
      BY <3>1 DEF Actions, Action
  <2>3. action \in Nodes /\ observation \in Nodes /\ action.cid = <<"Action", s>>
        /\ observation.cid = <<"Observation", s>>
    BY NodeFacts
  <2>4. action.cid \notin Cids(dag)
    BY <2>1, <2>3 DEF DagInv
  <2> HIDE DEF action
  <2>5. /\ d \in Seq(Nodes) /\ Distinct(d) /\ Cids(d) = Cids(dag) \cup {<<"Action", s>>}
        /\ d[Len(d)] = action
    <3>1. d \in Seq(Nodes) /\ Distinct(d) /\ Cids(d) = Cids(dag) \cup {action.cid} /\ d[Len(d)] = action
      BY <2>3, <2>4, AddMessageFacts, Zenon DEF DagInv
    <3> QED
      BY <2>3, <3>1
  <2>6. dag' = AddMessage(d, observation)
    BY <2>1, <2>2, <2>3, <2>5 DEF ObservationParent, action
  <2> HIDE DEF d, observation
  <2>7. /\ dag' \in Seq(Nodes) /\ Distinct(dag')
        /\ Cids(dag') = Cids(dag) \cup {<<"Action", s>>, <<"Observation", s>>}
    <3>0. \A r : dag' = r => (Distinct(dag') <=> Distinct(r)) /\ Cids(dag') = Cids(r)
      BY DEF Distinct, Cids
    <3>1. dag' \in Seq(Nodes) /\ Distinct(dag') /\ Cids(dag') = Cids(d) \cup {observation.cid}
      BY <2>3, <2>5, <2>6, <3>0, AddMessageFacts, ZenonT(60)
    <3> QED
      BY <2>3, <2>5, <3>1
  <2>8. \A q \in Sessions : server[q] = "done" \/ q = s => server'[q] = "done"
    BY <1>0, <2>1
  <2>9. \A q \in Sessions : /\ <<"Action", q>> \in Cids(dag') <=> <<"Action", q>> \in Cids(dag) \/ q = s
                            /\ <<"Observation", q>> \in Cids(dag') <=> <<"Observation", q>> \in Cids(dag) \/ q = s
    BY <2>7
  <2> QED
    BY <2>7, <2>8, <2>9 DEF DagInv
<1>6. CASE \/ Crash
           \/ \E s \in Sessions : \/ ClientRejects(s) \/ ServerRefusesReplay(s)
                                 \/ ServerRefusesUnauthorized(s) \/ ServerToolFails(s)
  <2>1. dag' = <<>>
    BY <1>6 DEF Crash, ClientRejects, ServerRefusesReplay, ServerRefusesUnauthorized, ServerToolFails,
       ProcessEnds
  <2> QED
    BY <2>1, EmptySeq DEF DagInv, Distinct, Cids
<1> QED
  BY <1>1, <1>2, <1>3, <1>4, <1>5, <1>6, Kinds

\* What the invariant says of a node: its parents are known and have none.
LEMMA DagShape ==
  ASSUME DagInv
  PROVE  /\ \A i \in DOMAIN dag : Genuine(dag[i]) /\ \A k \in DOMAIN dag[i].parents : dag[i].parents[k] \in Cids(dag)
         /\ \A c \in Cids(dag) :
              /\ Node(dag, c).parents \in Seq(Cids(dag)) /\ Len(Node(dag, c).parents) <= 1
              /\ \A p \in Range(Node(dag, c).parents) : Node(dag, p).parents = <<>>
         /\ \A s \in Sessions :
              /\ <<"Action", s>> \in Cids(dag) => Node(dag, <<"Action", s>>).parents = <<>>
              /\ <<"Observation", s>> \in Cids(dag) =>
                   Node(dag, <<"Observation", s>>).parents = <<<<"Action", s>>>>
<1>1. \A c \in Cids(dag) : Node(dag, c) \in Nodes /\ Node(dag, c).cid = c
  BY NodeOfCid DEF DagInv, Cids
<1>N. ASSUME NEW n \in Nodes
      PROVE  /\ Genuine(n)
             /\ \E s \in Sessions :
                  \/ \E t \in OfferTypes \cup {"Action"} : n.cid = <<t, s>> /\ n.parents = <<>>
                  \/ n.cid = <<"Observation", s>> /\ n.parents = <<<<"Action", s>>>>
  <2>1. PICK s \in Sessions : \/ \E t \in OfferTypes \cup {"Action"} : n = NodeOf(t, s, <<>>)
                              \/ n = NodeOf("Observation", s, <<<<"Action", s>>>>)
    BY NodeFacts
  <2>2. CASE \E t \in OfferTypes \cup {"Action"} : n = NodeOf(t, s, <<>>)
    BY <2>2, NodeFacts
  <2>3. CASE n = NodeOf("Observation", s, <<<<"Action", s>>>>)
    BY <2>3, NodeFacts
  <2> QED
    BY <2>1, <2>2, <2>3
<1>2. ASSUME NEW s \in Sessions
      PROVE  /\ <<"Action", s>> \in Cids(dag) => Node(dag, <<"Action", s>>).parents = <<>>
             /\ <<"Observation", s>> \in Cids(dag) =>
                   Node(dag, <<"Observation", s>>).parents = <<<<"Action", s>>>>
  <2>1. ASSUME NEW t, NEW q, NEW u, NEW r, <<t, q>> = <<u, r>> PROVE t = u /\ q = r
    BY <2>1
  <2>2. "Action" # "Observation" /\ "Observation" \notin OfferTypes \cup {"Action"}
    BY DEF OfferTypes
  <2> QED
    BY <1>1, <1>N, <2>1, <2>2
<1>3. ASSUME NEW n \in Nodes, n.cid \in Cids(dag)
      PROVE  \/ n.parents = <<>>
             \/ \E s \in Sessions : n.parents = <<<<"Action", s>>>> /\ <<"Action", s>> \in Cids(dag)
  BY <1>3, <1>N DEF DagInv
<1>4. \A x : Len(<<x>>) = 1 /\ Range(<<x>>) = {x} /\ DOMAIN <<x>> = {1} /\ <<x>>[1] = x
  BY DEF Range
<1>5. Range(<<>>) = {} /\ Len(<<>>) = 0 /\ DOMAIN <<>> = {}
  BY DEF Range
<1>6. \A c \in Cids(dag) :
              /\ Node(dag, c).parents \in Seq(Cids(dag)) /\ Len(Node(dag, c).parents) <= 1
              /\ \A p \in Range(Node(dag, c).parents) : Node(dag, p).parents = <<>>
  <2> TAKE c \in Cids(dag)
  <2>1. CASE Node(dag, c).parents = <<>>
    BY <2>1, <1>5, EmptySeq
  <2>2. ASSUME NEW s \in Sessions, Node(dag, c).parents = <<<<"Action", s>>>>, <<"Action", s>> \in Cids(dag)
        PROVE /\ Node(dag, c).parents \in Seq(Cids(dag)) /\ Len(Node(dag, c).parents) <= 1
              /\ \A p \in Range(Node(dag, c).parents) : Node(dag, p).parents = <<>>
    <3>1. <<<<"Action", s>>>> \in Seq(Cids(dag))
      BY <2>2
    <3>2. 1 <= 1
      OBVIOUS
    <3> QED
    BY <2>2, <1>2, <1>4, <3>1, <3>2
  <2> QED
    BY <1>1, <1>3, <2>1, <2>2
<1>7. \A i \in DOMAIN dag : Genuine(dag[i]) /\ \A k \in DOMAIN dag[i].parents : dag[i].parents[k] \in Cids(dag)
  <2> TAKE i \in DOMAIN dag
  <2>1. dag[i] \in Nodes /\ dag[i].cid \in Cids(dag)
    BY DEF DagInv, Cids
  <2>2. Genuine(dag[i])
    BY <2>1, <1>N
  <2>3. \A k \in DOMAIN dag[i].parents : dag[i].parents[k] \in Cids(dag)
    <3> DEFINE p == dag[i].parents
    <3>1. p = <<>> \/ \E s \in Sessions : p = <<<<"Action", s>>>> /\ <<"Action", s>> \in Cids(dag)
      BY <2>1, <1>3
    <3> HIDE DEF p
    <3> QED
      BY <3>1, <1>4, <1>5, ZenonT(60) DEF p
  <2> QED
    BY <2>2, <2>3
<1> QED
  BY <1>2, <1>6, <1>7

-----------------------------------------------------------------------------
(* The theorems                                                            *)

\* The inductive invariant of the flow.
Inv == FlowInv /\ ReplayInv /\ TraceInv /\ DagInv

LEMMA InvHolds == Spec => []Inv
<1>1. Init => Inv
  <2>1. Init => ReplayInv
    BY DEF Init, ReplayInv, IsInjective
  <2>2. Init => TraceInv
    BY EmptySeq DEF Init, TraceInv, EventsInv, OnceInv, GrantedInv, OrderInv, Consumes
  <2>3. Init => DagInv
    BY EmptySeq DEF Init, DagInv, Distinct, Cids
  <2> QED
    BY <2>1, <2>2, <2>3, FlowInit DEF Inv
<1>2. Inv /\ [Next]_vars => Inv'
  BY FlowStep, ReplayStep, TraceStep, DagStep, IssuedSessions DEF Inv
<1> QED
  BY <1>1, <1>2, PTL DEF Spec

\* Every variable keeps its type, nothing is left in memory or on its way
\* without a process, and the results of the tool fit its integers.
THEOREM TypeCorrect == Spec => []TypeOK
<1>1. Inv => TypeOK
  <2> SUFFICES ASSUME Inv PROVE TypeOK
    OBVIOUS
  <2>1. ~up => \A s \in Sessions : toServer[s] = <<>> /\ toClient[s] = <<>>
    <3> SUFFICES ASSUME ~up, NEW s \in Sessions PROVE toServer[s] = <<>> /\ toClient[s] = <<>>
      OBVIOUS
    <3>1. Exchange(s)
      BY DEF Inv, FlowInv, ResultInv
    <3>2. server[s] \in {"off", "done", "over"} /\ client[s] # "observation"
      BY DEF Inv, FlowInv, DownInv
    <3> QED
      BY <3>1, <3>2 DEF Exchange
  <2>2. \A c \in DOMAIN usage : usage[c] \in 0..MaxCalls
    BY DEF Inv, FlowInv, Typed
  <2> QED
    BY <2>1, <2>2 DEF Inv, FlowInv, DownInv, Typed, TypeOK
<1> QED
  BY <1>1, InvHolds, PTL

\* In a clustered mode no action passes the replay check twice, over all runs
\* of the process and in whichever session it is sent.
THEOREM ClusteredAdmitsOnceHolds == Spec => []ClusteredAdmitsOnce
<1>1. Inv => ClusteredAdmitsOnce
  <2>1. Valid(config) /\ config.mode \in ClusteredModes => ReplayIsDurable(config)
    BY DEF Valid, ProductionValid, ClusteredModes, ReplayIsDurable
  <2> QED
    BY <2>1 DEF Inv, ReplayInv, ClusteredAdmitsOnce
<1> QED
  BY <1>1, InvHolds, PTL

\* The result of a client is the sum of what it sent in its session, when the
\* tool has that integer.
THEOREM ResultAnswersActionHolds == Spec => []ResultAnswersAction
<1>1. Inv => ResultAnswersAction
  BY DEF Inv, FlowInv, ResultInv, ResultAnswersAction, IsAnswer
<1> QED
  BY <1>1, InvHolds, PTL

\* Each check of check_trace_invariants passes on the trace of the flow.
THEOREM TraceConformsHolds == Spec => []TraceConforms
<1>1. Inv => TraceConforms
  <2> SUFFICES ASSUME Inv PROVE Conforms(trace, MaxCalls)
    BY DEF TraceConforms
  <2>1. /\ DOMAIN trace = 1..Len(trace) /\ Len(trace) \in Nat
        /\ \A i \in DOMAIN trace : trace[i] \in Events
    BY DEF Inv, TraceInv
  <2>2. ASSUME NEW j \in Consumes(trace)
        PROVE  /\ trace[j] = CallEvent(trace[j].cap) /\ j \in 1..Len(trace)
               /\ \A i \in DOMAIN trace : trace[i].op = "Issue" => trace[i] = IssueEvent(trace[i].cap)
    BY <2>1, EventFacts DEF Consumes
  <2>3. ASSUME NEW j \in Consumes(trace)
        PROVE  /\ Issued(trace, j)
               /\ Grant(trace, j) = IssueEvent(trace[j].cap)
               /\ Active(trace, j)
    <3>1. PICK i \in 1..(j - 1) : trace[i] = IssueEvent(trace[j].cap)
      BY DEF Inv, TraceInv, OrderInv
    <3>2. i \in DOMAIN trace /\ i \in Earlier(trace, j, "Issue") /\ i \in Nat
      BY <2>1, <2>2, <3>1, EventFacts DEF Earlier
    <3>3. Earlier(trace, j, "Issue") = {i}
      BY <2>1, <2>2, <3>2 DEF Earlier, Inv, TraceInv, OnceInv
    <3>4. Earlier(trace, j, "Expire") = {} /\ Earlier(trace, j, "Revoke") = {}
      BY DEF Earlier, Inv, TraceInv, OrderInv, Ends
    <3>5. Grant(trace, j) = trace[i]
      BY <3>2, <3>3 DEF Grant
    <3> QED
      BY <3>1, <3>2, <3>3, <3>4, <3>5 DEF Issued, Active
  <2>4. /\ CheckUnissued(trace) /\ CheckActionInGrant(trace) /\ CheckSubjectMatch(trace)
        /\ CheckIssuerMatch(trace) /\ CheckTerminal(trace)
    BY <2>2, <2>3, EventFacts DEF CheckUnissued, CheckActionInGrant, CheckSubjectMatch,
       CheckIssuerMatch, CheckTerminal
  <2>5. CheckRevokedKey(trace)
    BY <2>1, EventFacts DEF CheckRevokedKey, Consumes
  <2>6. CheckReplay(trace)
    <3> SUFFICES ASSUME NEW i \in Consumes(trace), NEW j \in Consumes(trace), i # j
                 PROVE  trace[i].msg # trace[j].msg
      BY DEF CheckReplay
    <3>1. trace[i].msg = trace[i].cap /\ trace[j].msg = trace[j].cap
      BY <2>2, EventFacts
    <3> QED
      BY <3>1 DEF Consumes, Inv, TraceInv, OnceInv
  <2>7. CheckBudget(trace, MaxCalls)
    <3> SUFFICES ASSUME NEW j \in Consumes(trace)
                 PROVE  Cardinality({i \in Consumes(trace) : trace[i].cap = trace[j].cap}) <= MaxCalls
      BY DEF CheckBudget
    <3> DEFINE calls == {i \in Consumes(trace) : trace[i].cap = trace[j].cap}
    <3>1. calls = {j}
      BY DEF Consumes, Inv, TraceInv, OnceInv
    <3> HIDE DEF calls
    <3>2. Cardinality(calls) = 1
      BY <3>1, FS_Singleton
    <3>3. Cardinality(calls) <= MaxCalls
      BY <3>2 DEF MaxCalls
    <3> QED
      BY <3>3 DEF calls
  <2> QED
    BY <2>4, <2>5, <2>6, <2>7 DEF Conforms
<1> QED
  BY <1>1, InvHolds, PTL

\* The checks are exact on what the flow records, and on whatever is recorded
\* after it.
THEOREM CheckerIsExactHolds == Spec => []CheckerIsExact
<1>1. TraceInv => CheckerIsExact
  <2> DEFINE S == Events \cup {KeyEnd} \cup UNION {LikeCall(s) \cup {IssueEvent(s)} : s \in Sessions}
  <2> SUFFICES ASSUME TraceInv, NEW t \in Recordings PROVE t \in Seq(S)
    <3>1. MaxCalls \in Nat /\ 1 \in Nat
      BY DEF MaxCalls
    <3> QED
      BY <3>1, ChecksAreExact DEF CheckerIsExact
  <2>1. trace \in Seq(S)
    BY DEF TraceInv
  <2>2. \A d, e \in S : <<e>> \in Seq(S) /\ <<d, e>> \in Seq(S)
    OBVIOUS
  <2>3. \A s \in Sessions : CallIn(s) \in S /\ KeyEnd \in S /\ LikeCall(s) \cup {IssueEvent(s)} \subseteq S
    BY DEF LikeCall
  <2> HIDE DEF S
  <2>4. \A u, v \in Seq(S) : u \o v \in Seq(S)
    OBVIOUS
  <2>5. ASSUME NEW s \in Sessions, NEW e \in LikeCall(s) \cup {IssueEvent(s)} PROVE trace \o <<e>> \in Seq(S)
    <3>1. e \in S
      BY <2>3
    <3> QED
      BY <2>1, <2>2, <2>4, <3>1, Zenon
  <2>6. ASSUME NEW s \in Sessions PROVE trace \o <<KeyEnd, CallIn(s)>> \in Seq(S)
    BY <2>1, <2>2, <2>3, <2>4, Zenon
  <2>7. CASE t = trace
    BY <2>1, <2>7
  <2>8. ASSUME NEW s \in Sessions,
               t \in {trace \o <<e>> : e \in LikeCall(s) \cup {IssueEvent(s)}}
        PROVE  t \in Seq(S)
    <3>1. PICK e \in LikeCall(s) \cup {IssueEvent(s)} : t = trace \o <<e>>
      BY <2>8, Zenon
    <3> QED
      BY <2>5, <3>1, Zenon
  <2>9. ASSUME NEW s \in Sessions, t = trace \o <<KeyEnd, CallIn(s)>>
        PROVE  t \in Seq(S)
    BY <2>6, <2>9, Zenon
  <2> QED
    BY <2>7, <2>8, <2>9, Zenon DEF Recordings
<1> QED
  BY <1>1, InvHolds, PTL DEF Inv

\* The audit graph is intact in every interleaving, and the lineage of an
\* observation is the action of its session and itself.
THEOREM AuditTrailHolds == Spec => []AuditTrail
<1>1. Inv => AuditTrail
  <2> SUFFICES ASSUME DagInv PROVE AuditTrail
    BY DEF Inv
  <2>1. Intact(dag)
    BY DagShape DEF Intact, MissingParents, Tampered, Genuine, Range
  <2>2. ASSUME NEW s \in Sessions, <<"Observation", s>> \in Cids(dag)
        PROVE  /\ Lineage(dag, <<"Observation", s>>) = <<<<"Action", s>>, <<"Observation", s>>>>
               /\ Lineage(dag, <<"Action", s>>) = <<<<"Action", s>>>>
    <3>1. <<"Action", s>> \in Cids(dag)
      BY <2>2 DEF DagInv
    <3>2. <<<<"Action", s>>>> # <<>> /\ <<<<"Action", s>>>>[1] = <<"Action", s>>
      OBVIOUS
    <3>3. Node(dag, <<"Action", s>>).parents = <<>> /\ Node(dag, <<"Observation", s>>).parents = <<<<"Action", s>>>>
      BY <2>2, <3>1, DagShape
    <3>4. Lineage(dag, <<"Action", s>>) = <<<<"Action", s>>>>
      BY <3>1, <3>3, DagShape, LineageOfPair
    <3>5. Lineage(dag, <<"Observation", s>>) = <<Node(dag, <<"Observation", s>>).parents[1], <<"Observation", s>>>>
      BY <2>2, <3>2, <3>3, DagShape, LineageOfPair
    <3> QED
      BY <3>2, <3>3, <3>4, <3>5
  <2> QED
    BY <2>1, <2>2 DEF AuditTrail
<1> QED
  BY <1>1, InvHolds, PTL
=============================================================================
