-------------------------- MODULE AuthorizeAction ---------------------------
(***************************************************************************)
(* sifr/capabilities.py: authorize_action and the CapabilityStore, in a    *)
(* cluster of verifier processes that share a replay table, each with its  *)
(* own view of the revocations and its own usage counters.                 *)
(*                                                                         *)
(* The replay cache is the abstract gate that ReplayCache implements, and  *)
(* the registry a view that only grows, which RevocationRegistry           *)
(* implements.  A step of a call ends where it reads something that        *)
(* another process, the registry or the clock can change.                  *)
(***************************************************************************)
EXTENDS Naturals, Sequences

CONSTANTS
  Procs,      \* the verifier processes
  Threads,    \* the threads that call authorize_action
  ProcOf,     \* the process each thread belongs to
  Caps,       \* the capability ids
  Grants,     \* verified grants: the fields of their payload that are tested
  Messages,   \* signed actions: replay key, time stamp and tested fields
  Window,     \* the replay window
  Faults,     \* {"crash"} when processes may restart, else {}
  MaxClock,   \* bound of the exploration: the clock stops here
  MaxLog,     \* bound of the exploration: admissions in the replay gate
  NoCall      \* a thread that serves no call

ASSUME AuthorizeAssumption ==
  /\ ProcOf \in [Threads -> Procs]
  /\ \A g \in Grants :
       /\ g.cap \in Caps
       /\ g.expires \in Nat
       /\ g.max_calls \in Nat
       /\ g.max_payload_bytes \in Nat
       /\ g.allow_delegation \in BOOLEAN
       /\ \A h \in Grants : h.cap = g.cap => h = g
  /\ \A m \in Messages :
       /\ m.ts \in Nat
       /\ m.bytes \in Nat
       /\ m.delegate_to \in BOOLEAN
  /\ Window \in Nat
  /\ Faults \subseteq {"crash"}
  /\ MaxClock \in Nat
  /\ MaxLog \in Nat

VARIABLES
  clock,       \* the host's clock
  admissions,  \* the replay gate's log
  revokedIn,   \* per process: the capabilities its registry answers revoked
  usage,       \* per process: CapabilityStore._usage
  pc,          \* where each thread is in authorize_action
  call,        \* the call a thread serves
  accepted,    \* history: accepted calls, with the time of acceptance
  consumed     \* history, per process: accepted calls since its start that
               \* were to consume budget, by capability

vars == <<clock, admissions, revokedIn, usage, pc, call, accepted, consumed>>

Gate == INSTANCE ReplayGate WITH Volatile <- FALSE

\* A call: its message and grant, the consume flag, the counter it read, and,
\* for the properties only, what was true when it began.
Call(m, g, flag, p) ==
  [msg |-> m, grant |-> g, consume |-> flag, read |-> 0,
   began |-> clock, revoked |-> revokedIn[p]]

Calls ==
  [msg : Messages, grant : Grants, consume : BOOLEAN, read : Nat,
   began : Nat, revoked : SUBSET Caps]

ASSUME NoCallAssumption == NoCall \notin Calls

Init ==
  /\ clock = 0
  /\ admissions = <<>>
  /\ revokedIn = [p \in Procs |-> {}]
  /\ usage = [p \in Procs |-> [c \in Caps |-> 0]]
  /\ pc = [t \in Threads |-> "idle"]
  /\ call = [t \in Threads |-> NoCall]
  /\ accepted = <<>>
  /\ consumed = [p \in Procs |-> [c \in Caps |-> 0]]

-----------------------------------------------------------------------------
(* The surroundings of a call                                              *)

Tick ==
  /\ clock < MaxClock
  /\ clock' = clock + 1
  /\ UNCHANGED <<admissions, revokedIn, usage, pc, call, accepted, consumed>>

\* The registry of a process learns of a revocation.
Learn(p, c) ==
  /\ revokedIn' = [revokedIn EXCEPT ![p] = @ \cup {c}]
  /\ UNCHANGED <<clock, admissions, usage, pc, call, accepted, consumed>>

\* Mutation: the threads of the dead process go on.
RestartLeavesThreads(p) ==
  /\ "crash" \in Faults
  /\ usage' = [usage EXCEPT ![p] = [c \in Caps |-> 0]]
  /\ consumed' = [consumed EXCEPT ![p] = [c \in Caps |-> 0]]
  /\ call' = [t \in Threads |-> IF ProcOf[t] = p THEN NoCall ELSE call[t]]
  /\ UNCHANGED <<clock, admissions, revokedIn, pc, accepted>>

\* A process restarts.  The replay table outlives it; its counters start
\* again from nothing, and its registry has at least what it knew, on disk.
Restart(p) ==
  /\ "crash" \in Faults
  /\ usage' = [usage EXCEPT ![p] = [c \in Caps |-> 0]]
  /\ consumed' = [consumed EXCEPT ![p] = [c \in Caps |-> 0]]
  /\ pc' = [t \in Threads |-> IF ProcOf[t] = p THEN "idle" ELSE pc[t]]
  /\ call' = [t \in Threads |-> IF ProcOf[t] = p THEN NoCall ELSE call[t]]
  /\ UNCHANGED <<clock, admissions, revokedIn, accepted>>

-----------------------------------------------------------------------------
(* authorize_action, in the order of its tests                             *)

At(t, from, to) == pc[t] = from /\ pc' = [pc EXCEPT ![t] = to]

Leave(t, from) == At(t, from, "idle") /\ call' = [call EXCEPT ![t] = NoCall]

\* UnauthorizedAction or ReplayError: nothing is taken back, and the replay
\* key stays used.
Deny(t, from) ==
  /\ Leave(t, from)
  /\ UNCHANGED <<clock, admissions, revokedIn, usage, accepted, consumed>>

Proceed(t, from, to) ==
  /\ At(t, from, to)
  /\ UNCHANGED <<clock, admissions, revokedIn, usage, call, accepted, consumed>>

\* The caller has verified the message's signature, and
\* verify_capability_grant passes; otherwise the call raises before it has
\* changed anything.
Begin(t) ==
  /\ At(t, "idle", "replay")
  /\ \E m \in Messages, g \in Grants, flag \in BOOLEAN :
       call' = [call EXCEPT ![t] = Call(m, g, flag, ProcOf[t])]
  /\ UNCHANGED <<clock, admissions, revokedIn, usage, accepted, consumed>>

\* Mutation: a call with consume=False does not record its message.
CheckReplayIfConsuming(t) ==
  \/ /\ Len(admissions) < MaxLog
     /\ At(t, "replay", "registry")
     /\ call[t].consume
     /\ Gate!Admit(call[t].msg)
     /\ UNCHANGED <<revokedIn, usage, call, accepted, consumed>>
  \/ Proceed(t, "replay", "registry") /\ ~call[t].consume
  \/ Deny(t, "replay")

\* replay_cache.check_and_record: admitted by the gate, or refused.
CheckReplay(t) ==
  \/ /\ Len(admissions) < MaxLog
     /\ At(t, "replay", "registry")
     /\ Gate!Admit(call[t].msg)
     /\ UNCHANGED <<revokedIn, usage, call, accepted, consumed>>
  \/ Deny(t, "replay")

MatchesGrant(m, g) == m.cap = g.cap /\ m.sender = g.subject /\ m.action \in g.actions

\* REVOKED_CAPABILITY, then CAPABILITY_MISMATCH, WRONG_SUBJECT and
\* UNAUTHORIZED_ACTION, which read nothing that changes.
CheckRegistry(t) ==
  LET passes == /\ call[t].grant.cap \notin revokedIn[ProcOf[t]]
                /\ MatchesGrant(call[t].msg, call[t].grant)
  IN  \/ Proceed(t, "registry", "expiry") /\ passes
      \/ Deny(t, "registry") /\ ~passes

\* Mutation: a grant is still good at the moment it expires.
CheckExpiryInclusive(t) ==
  LET passes == /\ clock <= call[t].grant.expires
                /\ call[t].msg.bytes <= call[t].grant.max_payload_bytes
  IN  \/ Proceed(t, "expiry", "budget") /\ passes
      \/ Deny(t, "expiry") /\ ~passes

\* EXPIRED_CAPABILITY, with a second look at the clock, then
\* PAYLOAD_BUDGET_EXCEEDED.
CheckExpiry(t) ==
  LET passes == /\ clock < call[t].grant.expires
                /\ call[t].msg.bytes <= call[t].grant.max_payload_bytes
  IN  \/ Proceed(t, "expiry", "budget") /\ passes
      \/ Deny(t, "expiry") /\ ~passes

\* Mutation: the counter is compared with > instead of >=.
CheckBudgetInclusive(t) ==
  LET passes == /\ usage[ProcOf[t]][call[t].grant.cap] <= call[t].grant.max_calls
                /\ call[t].msg.delegate_to => call[t].grant.allow_delegation
  IN  \/ Proceed(t, "budget", "consume") /\ passes
      \/ Deny(t, "budget") /\ ~passes

\* CALL_BUDGET_EXCEEDED, then DELEGATION_NOT_ALLOWED.
CheckBudget(t) ==
  LET passes == /\ usage[ProcOf[t]][call[t].grant.cap] < call[t].grant.max_calls
                /\ call[t].msg.delegate_to => call[t].grant.allow_delegation
  IN  \/ Proceed(t, "budget", "consume") /\ passes
      \/ Deny(t, "budget") /\ ~passes

Accept(t, from) ==
  /\ Leave(t, from)
  /\ accepted' = Append(accepted, [msg |-> call[t].msg, at |-> clock])

\* consume=False authorizes without using budget.
AcceptOnly(t) ==
  /\ pc[t] = "consume"
  /\ ~call[t].consume
  /\ Accept(t, "consume")
  /\ UNCHANGED <<clock, admissions, revokedIn, usage, consumed>>

\* store.consume reads the counter, and writes it back in another step.
ReadUsage(t) ==
  /\ At(t, "consume", "write")
  /\ call[t].consume
  /\ call' = [call EXCEPT ![t].read = usage[ProcOf[t]][call[t].grant.cap]]
  /\ UNCHANGED <<clock, admissions, revokedIn, usage, accepted, consumed>>

WriteUsage(t) ==
  LET p == ProcOf[t] c == call[t].grant.cap IN
  /\ pc[t] = "write"
  /\ Accept(t, "write")
  /\ usage' = [usage EXCEPT ![p][c] = call[t].read + 1]
  /\ consumed' = [consumed EXCEPT ![p][c] = @ + 1]
  /\ UNCHANGED <<clock, admissions, revokedIn>>

Next ==
  \/ Tick
  \/ \E p \in Procs : Restart(p) \/ \E c \in Caps : Learn(p, c)
  \/ \E t \in Threads :
       \/ Begin(t)
       \/ CheckReplay(t)
       \/ CheckRegistry(t)
       \/ CheckExpiry(t)
       \/ CheckBudget(t)
       \/ AcceptOnly(t)
       \/ ReadUsage(t)
       \/ WriteUsage(t)

Spec == Init /\ [][Next]_vars

-----------------------------------------------------------------------------
TypeOK ==
  /\ clock \in Nat
  /\ admissions \in Seq(Gate!Admissions)
  /\ revokedIn \in [Procs -> SUBSET Caps]
  /\ usage \in [Procs -> [Caps -> Nat]]
  /\ pc \in [Threads -> {"idle", "replay", "registry", "expiry", "budget", "consume", "write"}]
  /\ call \in [Threads -> Calls \cup {NoCall}]
  /\ \A t \in Threads : pc[t] # "idle" => call[t] # NoCall
  /\ accepted \in Seq([msg : Messages, at : Nat])
  /\ consumed \in [Procs -> [Caps -> Nat]]

\* One store, one call at a time: the calls it lets through stay within the
\* budget of the capability, whatever is denied or restarted in between.
BudgetPerStore ==
  \A p \in Procs, g \in Grants : consumed[p][g.cap] <= g.max_calls

\* A store that answers CALL_BUDGET_EXCEEDED has let max_calls calls through
\* since it was created, also when several threads lose each other's
\* increments: what is denied, and what does not consume, costs no budget.
ExhaustedOnlyByUse ==
  \A p \in Procs, g \in Grants :
    usage[p][g.cap] >= g.max_calls => consumed[p][g.cap] >= g.max_calls

\* A message is accepted at most once before its replay window closes, by all
\* processes together; a denial does not make it usable again.
AcceptedOncePerWindow ==
  \A i, j \in DOMAIN accepted :
    i < j /\ accepted[i].msg = accepted[j].msg =>
      ~Gate!Live(accepted[i].msg, accepted[j].at)

\* A capability that was revoked in the process's view, or had expired, before
\* a call began never lets that call through, however the call interleaves.
NothingLapsedIsAccepted ==
  [][\A t \in Threads :
       pc[t] \in {"consume", "write"} /\ pc'[t] = "idle" /\ Len(accepted') > Len(accepted) =>
         /\ call[t].grant.cap \notin call[t].revoked
         /\ call[t].began < call[t].grant.expires]_vars
=============================================================================
