-------------------------- MODULE TraceConformance --------------------------
(***************************************************************************)
(* sifr/trace_conformance.py: the checks of a recorded trace, and the      *)
(* guards of formal/sifr_capability.tla as the reference they stand for.   *)
(* A trace is a sequence of events: op, cap, sub, iss, kid, msg, act and,  *)
(* for an Issue, the granted actions.                                      *)
(***************************************************************************)
EXTENDS Naturals, FiniteSets, Sequences

Consumes(trace) == {i \in DOMAIN trace : trace[i].op = "Consume"}

\* Places before j where the capability of event j is subject to op.
Earlier(trace, j, op) ==
  {i \in 1..(j - 1) : trace[i].op = op /\ trace[i].cap = trace[j].cap}

Issued(trace, j) == Earlier(trace, j, "Issue") # {}

\* The dictionaries keep the last Issue of a capability.
Grant(trace, j) ==
  trace[CHOOSE i \in Earlier(trace, j, "Issue") : \A k \in Earlier(trace, j, "Issue") : k <= i]

CheckUnissued(trace) == \A j \in Consumes(trace) : Issued(trace, j)

CheckActionInGrant(trace) ==
  \A j \in Consumes(trace) : Issued(trace, j) /\ trace[j].act \in Grant(trace, j).actions

CheckSubjectMatch(trace) ==
  \A j \in Consumes(trace) : Issued(trace, j) /\ trace[j].sub = Grant(trace, j).sub

CheckIssuerMatch(trace) ==
  \A j \in Consumes(trace) : Issued(trace, j) /\ trace[j].iss = Grant(trace, j).iss

\* Mutation: only a revocation ends a capability.
ActiveUnlessRevoked(trace, j) ==
  \E i \in Earlier(trace, j, "Issue") : \A k \in Earlier(trace, j, "Revoke") : k < i

\* An Issue makes a capability active again, whatever came before it.
Active(trace, j) ==
  \E i \in Earlier(trace, j, "Issue") :
    \A k \in Earlier(trace, j, "Expire") \cup Earlier(trace, j, "Revoke") : k < i

CheckTerminal(trace) == \A j \in Consumes(trace) : Active(trace, j)

CheckRevokedKey(trace) ==
  \A j \in Consumes(trace) : ~\E i \in 1..(j - 1) :
    trace[i].op = "RevokeKey" /\ trace[i].kid = trace[j].kid

CheckReplay(trace) ==
  \A i, j \in Consumes(trace) :
    i # j => <<trace[i].sub, trace[i].msg>> # <<trace[j].sub, trace[j].msg>>

CheckBudget(trace, max_calls) ==
  \A j \in Consumes(trace) :
    Cardinality({i \in Consumes(trace) : trace[i].cap = trace[j].cap}) <= max_calls

\* check_trace_invariants raises nothing.
Conforms(trace, max_calls) ==
  /\ CheckUnissued(trace)
  /\ CheckActionInGrant(trace)
  /\ CheckSubjectMatch(trace)
  /\ CheckIssuerMatch(trace)
  /\ CheckTerminal(trace)
  /\ CheckRevokedKey(trace)
  /\ CheckReplay(trace)
  /\ CheckBudget(trace, max_calls)

-----------------------------------------------------------------------------
(* The reference: the events as steps of formal/sifr_capability.tla        *)

CapsOf(trace) == {trace[i].cap : i \in DOMAIN trace}

\* Init: every capability is unissued; the other two of its states are over.
Start(trace) ==
  [active |-> {}, over |-> {}, grants |-> {}, used |-> [c \in CapsOf(trace) |-> 0],
   consumed |-> {}, kids |-> {}]

\* The guard of Consume.
MayConsume(s, e, max_calls) ==
  /\ e.cap \in s.active
  /\ \A g \in s.grants :
       g.cap = e.cap => g.sub = e.sub /\ g.iss = e.iss /\ e.act \in g.actions
  /\ e.kid \notin s.kids
  /\ s.used[e.cap] < max_calls
  /\ <<e.sub, e.msg>> \notin s.consumed

\* The guard of another event; that a grant is for some action is left out,
\* as nothing depends on it.
MayStep(s, e) ==
  CASE e.op = "Issue"               -> e.cap \notin s.active \cup s.over
    [] e.op \in {"Expire", "Revoke"} -> e.cap \in s.active
    [] e.op = "RevokeKey"           -> e.kid \notin s.kids
    [] OTHER                        -> TRUE

StepOf(s, e) ==
  CASE e.op = "Issue"               -> [s EXCEPT !.active = @ \cup {e.cap}, !.grants = @ \cup {e}]
    [] e.op \in {"Expire", "Revoke"} -> [s EXCEPT !.active = @ \ {e.cap}, !.over = @ \cup {e.cap}]
    [] e.op = "RevokeKey"           -> [s EXCEPT !.kids = @ \cup {e.kid}]
    [] e.op = "Consume"             -> [s EXCEPT !.used[e.cap] = @ + 1,
                                                 !.consumed = @ \cup {<<e.sub, e.msg>>}]
    [] OTHER                        -> s

\* The states of the formal model: after none, one, ... of the events.
States(trace) ==
  LET after[j \in 0..Len(trace)] ==
        IF j = 0 THEN Start(trace) ELSE StepOf(after[j - 1], trace[j])
  IN  after

\* Each capability is issued once and ends once, each key is revoked once.
LifeCycles(trace) ==
  LET states == States(trace) IN \A j \in DOMAIN trace : MayStep(states[j - 1], trace[j])

\* The Consume events are steps of the formal model.
Allowed(trace, max_calls) ==
  LET states == States(trace) IN
  \A j \in Consumes(trace) : MayConsume(states[j - 1], trace[j], max_calls)
=============================================================================
