----------------------- MODULE AuthorizeActionProofs ------------------------
(***************************************************************************)
(* Proofs about AuthorizeAction for any processes, threads, capabilities,  *)
(* grants and messages, any window, with and without restarts.             *)
(***************************************************************************)
EXTENDS AuthorizeAction, SequenceTheorems, TLAPS

\* What the steps of a call that change only where it stands have in common.
LEMMA Tests ==
  ASSUME NEW t \in Threads, CheckRegistry(t) \/ CheckExpiry(t) \/ CheckBudget(t)
  PROVE  \/ \E from \in {"registry", "expiry", "budget"} : Deny(t, from)
         \/ Proceed(t, "registry", "expiry")
         \/ Proceed(t, "expiry", "budget")
         \/ Proceed(t, "budget", "consume")
BY DEF CheckRegistry, CheckExpiry, CheckBudget

\* Every variable of the cluster keeps its type.
THEOREM TypeCorrect == Spec => []TypeOK
<1>1. Init => TypeOK
  <2> SUFFICES ASSUME Init PROVE TypeOK
    OBVIOUS
  <2>1. /\ clock \in Nat
        /\ admissions \in Seq(Gate!Admissions)
        /\ accepted \in Seq([msg : Messages, at : Nat])
    BY DEF Init
  <2>2. /\ revokedIn \in [Procs -> SUBSET Caps]
        /\ usage \in [Procs -> [Caps -> Nat]]
        /\ consumed \in [Procs -> [Caps -> Nat]]
    BY DEF Init
  <2>3. /\ pc \in [Threads -> {"idle", "replay", "registry", "expiry", "budget", "consume", "write"}]
        /\ call \in [Threads -> Calls \cup {NoCall}]
        /\ \A t \in Threads : pc[t] = "idle"
    BY DEF Init
  <2> QED
    BY <2>1, <2>2, <2>3 DEF TypeOK
<1>2. TypeOK /\ [Next]_vars => TypeOK'
  <2> SUFFICES ASSUME TypeOK, [Next]_vars PROVE TypeOK'
    OBVIOUS
  <2> USE AuthorizeAssumption, NoCallAssumption DEF TypeOK, At, Leave
  <2>1. CASE Tick
    BY <2>1 DEF Tick
  <2>2. ASSUME NEW p \in Procs, NEW c \in Caps, Learn(p, c) PROVE TypeOK'
    BY <2>2 DEF Learn
  <2>3. ASSUME NEW p \in Procs, Restart(p) PROVE TypeOK'
    BY <2>3 DEF Restart
  <2>4. ASSUME NEW t \in Threads, Begin(t) PROVE TypeOK'
    <3>1. PICK m \in Messages, g \in Grants, flag \in BOOLEAN :
            call' = [call EXCEPT ![t] = Call(m, g, flag, ProcOf[t])]
      BY <2>4 DEF Begin
    <3>2. Call(m, g, flag, ProcOf[t]) \in Calls
      BY DEF Call, Calls
    <3> QED
      BY <2>4, <3>1, <3>2 DEF Begin
  <2>5. ASSUME NEW t \in Threads, NEW from, Deny(t, from) PROVE TypeOK'
    BY <2>5 DEF Deny
  <2>6. ASSUME NEW t \in Threads, NEW from \in {"registry", "expiry", "budget"},
               NEW to \in {"expiry", "budget", "consume"}, Proceed(t, from, to)
        PROVE  TypeOK'
    BY <2>6 DEF Proceed
  <2>7. ASSUME NEW t \in Threads, At(t, "replay", "registry"), Gate!Admit(call[t].msg),
               UNCHANGED <<revokedIn, usage, call, accepted, consumed>>
        PROVE  TypeOK'
    <3>1. call[t].msg \in Messages
      BY <2>7 DEF Calls
    <3>2. Gate!Admission(call[t].msg, clock) \in Gate!Admissions
      BY <3>1 DEF Gate!Admission, Gate!Admissions
    <3> QED
      BY <2>7, <3>2 DEF Gate!Admit
  <2>8. ASSUME NEW t \in Threads, ReadUsage(t) PROVE TypeOK'
    <3>1. call[t] \in Calls /\ call[t].grant.cap \in Caps
      BY <2>8 DEF ReadUsage, Calls
    <3>2. usage[ProcOf[t]][call[t].grant.cap] \in Nat
      BY <3>1
    <3>3. [call[t] EXCEPT !.read = usage[ProcOf[t]][call[t].grant.cap]] \in Calls
      BY <3>1, <3>2 DEF Calls
    <3> QED
      BY <2>8, <3>3 DEF ReadUsage
  <2>9. ASSUME NEW t \in Threads, AcceptOnly(t) \/ WriteUsage(t) PROVE TypeOK'
    <3>1. call[t] \in Calls /\ call[t].grant.cap \in Caps /\ call[t].read + 1 \in Nat
      BY <2>9 DEF AcceptOnly, WriteUsage, Calls
    <3>2. [msg |-> call[t].msg, at |-> clock] \in [msg : Messages, at : Nat]
      BY <3>1 DEF Calls
    <3>3. accepted' \in Seq([msg : Messages, at : Nat])
      <4>1. accepted' = Append(accepted, [msg |-> call[t].msg, at |-> clock])
        BY <2>9 DEF AcceptOnly, WriteUsage, Accept
      <4> QED
        BY <3>2, <4>1
    <3>4. usage' \in [Procs -> [Caps -> Nat]] /\ consumed' \in [Procs -> [Caps -> Nat]]
      <4>1. CASE AcceptOnly(t)
        BY <4>1 DEF AcceptOnly
      <4>2. CASE WriteUsage(t)
        <5> DEFINE p == ProcOf[t]
                   c == call[t].grant.cap
        <5>1. /\ usage' = [usage EXCEPT ![p] = [usage[p] EXCEPT ![c] = call[t].read + 1]]
              /\ consumed' = [consumed EXCEPT ![p] = [consumed[p] EXCEPT ![c] = consumed[p][c] + 1]]
          BY <4>2 DEF WriteUsage
        <5>2. p \in Procs /\ c \in Caps /\ consumed[p][c] + 1 \in Nat
          BY <3>1
        <5> QED
          BY <3>1, <5>1, <5>2
      <4> QED
        BY <2>9, <4>1, <4>2
    <3>5. \E from \in {"consume", "write"} : Leave(t, from)
      BY <2>9 DEF AcceptOnly, WriteUsage, Accept
    <3>6. UNCHANGED <<clock, admissions, revokedIn>>
      BY <2>9 DEF AcceptOnly, WriteUsage
    <3>7. pc' \in [Threads -> {"idle", "replay", "registry", "expiry", "budget", "consume", "write"}]
      BY <3>5
    <3>8. call' \in [Threads -> Calls \cup {NoCall}]
      BY <3>5
    <3>9. \A u \in Threads : pc'[u] # "idle" => call'[u] # NoCall
      BY <3>5
    <3> QED
      BY <3>3, <3>4, <3>6, <3>7, <3>8, <3>9
  <2>10. CASE UNCHANGED vars
    BY <2>10 DEF vars
  <2>11. ASSUME NEW t \in Threads, CheckReplay(t) PROVE TypeOK'
    BY <2>5, <2>7, <2>11 DEF CheckReplay
  <2>12. ASSUME NEW t \in Threads, CheckRegistry(t) \/ CheckExpiry(t) \/ CheckBudget(t) PROVE TypeOK'
    BY <2>5, <2>6, <2>12, Tests
  <2> QED
    BY <2>1, <2>2, <2>3, <2>4, <2>8, <2>9, <2>10, <2>11, <2>12 DEF Next
<1> QED
  BY <1>1, <1>2, PTL DEF Spec

-----------------------------------------------------------------------------
(* What a call has passed                                                  *)

Serves(t) ==
  \/ Begin(t) \/ CheckReplay(t) \/ CheckRegistry(t) \/ CheckExpiry(t)
  \/ CheckBudget(t) \/ AcceptOnly(t) \/ ReadUsage(t) \/ WriteUsage(t)

\* A step of one thread does not move another, and leaves the clock and the
\* revocations alone.
LEMMA OneThreadMoves ==
  ASSUME TypeOK, NEW t \in Threads, Serves(t)
  PROVE  /\ \A u \in Threads \ {t} : pc'[u] = pc[u] /\ call'[u] = call[u]
         /\ clock' = clock /\ revokedIn' = revokedIn
BY DEF TypeOK, Serves, Begin, CheckReplay, CheckRegistry, CheckExpiry, CheckBudget, AcceptOnly,
  ReadUsage, WriteUsage, Accept, Deny, Proceed, Leave, At, Gate!Admit

\* A call began in the past, in a view of the revocations that has only grown;
\* behind the test of the registry its capability was not in that view, and
\* behind the test of the expiry it began before its grant ran out.
CallPassed ==
  \A t \in Threads : pc[t] # "idle" =>
    /\ call[t].began <= clock
    /\ call[t].revoked \subseteq revokedIn[ProcOf[t]]
    /\ pc[t] \in {"expiry", "budget", "consume", "write"} =>
         call[t].grant.cap \notin call[t].revoked
    /\ pc[t] \in {"budget", "consume", "write"} => call[t].began < call[t].grant.expires

\* CallPassed is inductive.
LEMMA CallPassedStep ==
  ASSUME TypeOK, CallPassed, [Next]_vars
  PROVE  CallPassed'
<1> USE AuthorizeAssumption, NoCallAssumption DEF TypeOK, CallPassed
<1>1. CASE Tick
  <2>1. \A t \in Threads : pc[t] # "idle" => call[t].began \in Nat
    BY DEF Calls
  <2> QED
    BY <1>1, <2>1 DEF Tick
<1>2. ASSUME NEW p \in Procs, NEW c \in Caps, Learn(p, c) PROVE CallPassed'
  BY <1>2 DEF Learn
<1>3. ASSUME NEW p \in Procs, Restart(p) PROVE CallPassed'
  BY <1>3 DEF Restart
<1>4. ASSUME NEW t \in Threads, Serves(t) PROVE CallPassed'
  <2>0. /\ \A u \in Threads \ {t} : pc'[u] = pc[u] /\ call'[u] = call[u]
        /\ clock' = clock /\ revokedIn' = revokedIn
    BY <1>4, OneThreadMoves
  <2> SUFFICES ASSUME pc'[t] # "idle"
      PROVE  /\ call'[t].began <= clock
             /\ call'[t].revoked \subseteq revokedIn[ProcOf[t]]
             /\ pc'[t] \in {"expiry", "budget", "consume", "write"} =>
                  call'[t].grant.cap \notin call'[t].revoked
             /\ pc'[t] \in {"budget", "consume", "write"} => call'[t].began < call'[t].grant.expires
    BY <2>0
  <2>1. CASE Begin(t)
    BY <2>1 DEF Begin, Call, At
  <2>2. CASE CheckReplay(t)
    BY <2>2 DEF CheckReplay, Deny, Leave, At
  <2>3. CASE CheckRegistry(t)
    BY <2>3 DEF CheckRegistry, Deny, Proceed, Leave, At
  <2>4. CASE CheckExpiry(t)
    <3>1. pc[t] = "expiry" /\ pc'[t] = "budget" /\ call'[t] = call[t] /\ clock < call[t].grant.expires
      BY <2>4 DEF CheckExpiry, Deny, Proceed, Leave, At
    <3>2. call[t] \in Calls
      BY <3>1
    <3>3. call[t].began \in Nat /\ call[t].grant.expires \in Nat
      BY <3>2 DEF Calls
    <3> QED
      BY <3>1, <3>3
  <2>5. CASE CheckBudget(t)
    BY <2>5 DEF CheckBudget, Deny, Proceed, Leave, At
  <2>6. CASE AcceptOnly(t) \/ WriteUsage(t)
    BY <2>6 DEF AcceptOnly, WriteUsage, Accept, Leave, At
  <2>7. CASE ReadUsage(t)
    <3>1. /\ pc[t] = "consume" /\ call[t] \in Calls
          /\ call'[t] = [call[t] EXCEPT !.read = usage[ProcOf[t]][call[t].grant.cap]]
      BY <2>7 DEF ReadUsage, At
    <3>2. /\ call'[t].began = call[t].began
          /\ call'[t].revoked = call[t].revoked
          /\ call'[t].grant = call[t].grant
      BY <3>1 DEF Calls
    <3> QED
      BY <3>1, <3>2
  <2> QED
    BY <1>4, <2>1, <2>2, <2>3, <2>4, <2>5, <2>6, <2>7 DEF Serves
<1>5. CASE UNCHANGED vars
  BY <1>5 DEF vars
<1> QED
  BY <1>1, <1>2, <1>3, <1>4, <1>5 DEF Next, Serves

\* A capability that was revoked in the process's view, or had expired, before
\* a call began never lets that call through, however many threads and
\* processes there are.
THEOREM NothingLapsedIsAcceptedHolds == Spec => NothingLapsedIsAccepted
<1>1. Init => CallPassed
  BY DEF Init, CallPassed
<1>2. TypeOK /\ CallPassed /\ [Next]_vars => CallPassed'
  BY CallPassedStep
<1>3. CallPassed /\ [Next]_vars =>
        [\A t \in Threads :
           pc[t] \in {"consume", "write"} /\ pc'[t] = "idle" /\ Len(accepted') > Len(accepted) =>
             /\ call[t].grant.cap \notin call[t].revoked
             /\ call[t].began < call[t].grant.expires]_vars
  BY DEF CallPassed
<1> QED
  BY <1>1, <1>2, <1>3, TypeCorrect, PTL DEF Spec, NothingLapsedIsAccepted

-----------------------------------------------------------------------------
(* No message twice                                                        *)

\* A thread is past the replay cache.
Past(t) == pc[t] \in {"registry", "expiry", "budget", "consume", "write"}

\* The gate has a record of the message.
Recorded(m) == \E k \in DOMAIN admissions : Gate!Records(admissions[k], m)

Over(m) == ~Gate!Live(m, clock)

\* AcceptedOncePerWindow is not inductive: a call that is past the cache will
\* be accepted later.  Whatever was accepted or is past the cache has its
\* record in the gate; and when two of them are of one message, the window of
\* the message is over, because the gate let the second one in.
OneUse ==
  /\ \A i \in DOMAIN accepted : Recorded(accepted[i].msg)
  /\ \A t \in Threads : Past(t) => Recorded(call[t].msg)
  /\ \A i \in DOMAIN accepted, t \in Threads :
       Past(t) /\ accepted[i].msg = call[t].msg => Over(call[t].msg)
  /\ \A t, u \in Threads :
       Past(t) /\ Past(u) /\ t # u /\ call[t].msg = call[u].msg => Over(call[t].msg)

UseInv == OneUse /\ AcceptedOncePerWindow

\* Every entry of the list of accepted calls is a message with a time.
LEMMA AcceptedTyped ==
  ASSUME TypeOK, NEW i \in DOMAIN accepted
  PROVE  accepted[i].msg \in Messages /\ accepted[i].msg.ts \in Nat /\ accepted[i].at \in Nat
<1>1. accepted \in Seq([msg : Messages, at : Nat])
  BY DEF TypeOK
<1>2. i \in 1..Len(accepted)
  BY <1>1
<1>3. accepted[i] \in [msg : Messages, at : Nat]
  BY <1>1, <1>2, ElementOfSeq
<1> QED
  BY <1>3, AuthorizeAssumption

\* A thread past the cache has a message with a time stamp.
LEMMA CallTyped ==
  ASSUME TypeOK, NEW t \in Threads, pc[t] # "idle"
  PROVE  /\ call[t] \in Calls
         /\ call[t].msg \in Messages
         /\ call[t].msg.ts \in Nat
         /\ call[t].grant \in Grants
<1>1. call[t] \in Calls
  BY DEF TypeOK
<1> QED
  BY <1>1, AuthorizeAssumption DEF Calls

\* A step that neither admits nor accepts, and lets no thread past the cache,
\* keeps the invariant: time only closes windows.
LEMMA QuietStep ==
  ASSUME TypeOK, UseInv, admissions' = admissions, accepted' = accepted,
         clock' \in Nat, clock <= clock',
         \A t \in Threads : Past(t)' => Past(t) /\ call'[t].msg = call[t].msg
  PROVE  UseInv'
<1> USE AuthorizeAssumption DEF UseInv
<1>1. ASSUME NEW t \in Threads, Past(t) PROVE call[t].msg.ts \in Nat
  BY <1>1, CallTyped DEF Past
<1>2. ASSUME NEW t \in Threads, Past(t), Past(t)', Over(call[t].msg) PROVE Over(call[t].msg)'
  BY <1>1, <1>2 DEF Over, Gate!Live, TypeOK
<1>3. \A m \in Messages : Recorded(m) => Recorded(m)'
  BY DEF Recorded, Gate!Records
<1>4. OneUse'
  <2>1. \A i \in DOMAIN accepted' : Recorded(accepted[i].msg)'
    BY <1>3, AcceptedTyped DEF OneUse
  <2>2. ASSUME NEW t \in Threads, Past(t)' PROVE Recorded(call[t].msg)'
    BY <1>3, <2>2, CallTyped DEF OneUse, Past, Recorded
  <2>3. ASSUME NEW i \in DOMAIN accepted', NEW t \in Threads, Past(t)', accepted'[i].msg = call'[t].msg
        PROVE  Over(call[t].msg)'
    BY <1>2, <2>3 DEF OneUse
  <2>4. ASSUME NEW t \in Threads, NEW u \in Threads, Past(t)', Past(u)', t # u,
               call'[t].msg = call'[u].msg
        PROVE  Over(call[t].msg)'
    BY <1>2, <2>4 DEF OneUse
  <2> QED
    BY <2>1, <2>2, <2>3, <2>4 DEF OneUse
<1>5. AcceptedOncePerWindow'
  BY DEF AcceptedOncePerWindow, Gate!Live
<1> QED
  BY <1>4, <1>5

\* The gate admits a message: whatever was accepted or is past the cache with
\* this message has its record there, so the window is over.
LEMMA AdmitStep ==
  ASSUME TypeOK, UseInv, NEW t \in Threads, At(t, "replay", "registry"),
         Gate!Admit(call[t].msg), UNCHANGED <<call, accepted>>
  PROVE  UseInv'
<1> USE AuthorizeAssumption DEF UseInv
<1> DEFINE m == call[t].msg
<1>0. /\ pc[t] = "replay" /\ ~Past(t) /\ clock' = clock
      /\ \A u \in Threads \ {t} : pc'[u] = pc[u]
      /\ m \in Messages
  BY CallTyped DEF TypeOK, At, Past, Gate!Admit
<1>1. Recorded(m) => Over(m)
  <2> SUFFICES ASSUME NEW k \in DOMAIN admissions, Gate!Records(admissions[k], m) PROVE Over(m)
    BY DEF Recorded
  <2>1. admissions[k].key = m.key /\ admissions[k].ts = m.ts
    BY DEF Gate!Records
  <2>2. ~Gate!Live(admissions[k], clock)
    BY <2>1 DEF Gate!Admit
  <2> QED
    BY <2>1, <2>2 DEF Over, Gate!Live
<1>2. /\ DOMAIN admissions \subseteq DOMAIN admissions'
      /\ \A k \in DOMAIN admissions : admissions'[k] = admissions[k]
      /\ Len(admissions) + 1 \in DOMAIN admissions'
      /\ admissions'[Len(admissions) + 1] = Gate!Admission(m, clock)
  <2>1. Len(admissions) \in Nat /\ DOMAIN admissions = 1..Len(admissions)
    BY DEF TypeOK
  <2>2. admissions' = Append(admissions, Gate!Admission(m, clock))
    BY DEF Gate!Admit
  <2> QED
    BY <2>1, <2>2
<1>3. Recorded(m)'
  BY <1>2 DEF Recorded, Gate!Records, Gate!Admission
<1>4. \A n \in Messages : Recorded(n) => Recorded(n)'
  BY <1>2 DEF Recorded, Gate!Records
<1>5. \A n : Over(n) => Over(n)'
  BY <1>0 DEF Over, Gate!Live
<1>6. OneUse'
  <2>1. \A i \in DOMAIN accepted : Recorded(accepted[i].msg)'
    BY <1>4, AcceptedTyped DEF OneUse
  <2>2. ASSUME NEW u \in Threads, Past(u)' PROVE Recorded(call[u].msg)'
    <3>1. CASE u = t
      BY <1>3, <3>1
    <3>2. CASE u # t
      <4>1. Past(u)
        BY <1>0, <2>2, <3>2 DEF Past
      <4> QED
        BY <1>4, <4>1, CallTyped DEF OneUse, Past
    <3> QED
      BY <3>1, <3>2
  <2>3. ASSUME NEW i \in DOMAIN accepted, NEW u \in Threads, Past(u)', accepted[i].msg = call[u].msg
        PROVE  Over(call[u].msg)'
    <3>1. CASE u = t
      BY <1>1, <1>5, <2>3, <3>1 DEF OneUse
    <3>2. CASE u # t
      <4>1. Past(u)
        BY <1>0, <2>3, <3>2 DEF Past
      <4> QED
        BY <1>5, <2>3, <4>1 DEF OneUse
    <3> QED
      BY <3>1, <3>2
  <2>4. ASSUME NEW u \in Threads, NEW v \in Threads, Past(u)', Past(v)', u # v,
               call[u].msg = call[v].msg
        PROVE  Over(call[u].msg)'
    <3>1. CASE u # t /\ v # t
      <4>1. Past(u) /\ Past(v)
        BY <1>0, <2>4, <3>1 DEF Past
      <4> QED
        BY <1>5, <2>4, <4>1 DEF OneUse
    <3>2. CASE u = t
      <4>1. Past(v)
        BY <1>0, <2>4, <3>2 DEF Past
      <4> QED
        BY <1>1, <1>5, <2>4, <3>2, <4>1 DEF OneUse
    <3>3. CASE v = t
      <4>1. Past(u)
        BY <1>0, <2>4, <3>3 DEF Past
      <4> QED
        BY <1>1, <1>5, <2>4, <3>3, <4>1 DEF OneUse
    <3> QED
      BY <3>1, <3>2, <3>3
  <2> QED
    BY <2>1, <2>2, <2>3, <2>4 DEF OneUse
<1>7. AcceptedOncePerWindow'
  BY DEF AcceptedOncePerWindow, Gate!Live
<1> QED
  BY <1>6, <1>7

\* A call is accepted: its window is over for every other that was accepted,
\* or is past the cache, with its message.
LEMMA AcceptStep ==
  ASSUME TypeOK, UseInv, NEW t \in Threads, NEW from \in {"consume", "write"},
         Accept(t, from), UNCHANGED <<clock, admissions>>
  PROVE  UseInv'
<1> USE AuthorizeAssumption DEF UseInv
<1> DEFINE m == call[t].msg
           last == Len(accepted) + 1
<1>1. /\ Past(t) /\ ~Past(t)'
      /\ \A u \in Threads \ {t} : pc'[u] = pc[u] /\ call'[u] = call[u]
  BY DEF TypeOK, Accept, Leave, At, Past
<1>2. /\ DOMAIN accepted' = DOMAIN accepted \cup {last}
      /\ \A i \in DOMAIN accepted : accepted'[i] = accepted[i] /\ i < last
      /\ accepted'[last] = [msg |-> m, at |-> clock]
  <2>1. accepted \in Seq([msg : Messages, at : Nat])
    BY DEF TypeOK
  <2>2. Len(accepted) \in Nat /\ DOMAIN accepted = 1..Len(accepted)
    BY <2>1
  <2>3. accepted' = Append(accepted, [msg |-> m, at |-> clock])
    BY DEF Accept
  <2> QED
    BY <2>2, <2>3
<1>3. \A u \in Threads : Past(u)' => Past(u) /\ u # t /\ call'[u] = call[u]
  BY <1>1 DEF Past
<1>4. \A n : /\ Recorded(n) => Recorded(n)'
             /\ Over(n) => Over(n)'
  BY DEF Recorded, Over
<1>5. OneUse'
  <2>1. ASSUME NEW i \in DOMAIN accepted' PROVE Recorded(accepted'[i].msg)
    BY <1>1, <1>2, <2>1 DEF OneUse
  <2>2. ASSUME NEW i \in DOMAIN accepted', NEW u \in Threads, Past(u)', accepted'[i].msg = call'[u].msg
        PROVE  Over(call[u].msg)
    <3>1. CASE i = last
      BY <1>1, <1>2, <1>3, <2>2, <3>1 DEF OneUse
    <3>2. CASE i # last
      BY <1>2, <1>3, <2>2, <3>2 DEF OneUse
    <3> QED
      BY <3>1, <3>2
  <2>3. \A u \in Threads : Past(u)' => Recorded(call'[u].msg)
    BY <1>3 DEF OneUse
  <2>4. \A u, v \in Threads :
          Past(u)' /\ Past(v)' /\ u # v /\ call'[u].msg = call'[v].msg => Over(call'[u].msg)
    BY <1>3 DEF OneUse
  <2>5. \A n : (Recorded(n) => \E k \in DOMAIN admissions' : Gate!Records(admissions'[k], n))
               /\ (Over(n) => ~Gate!Live(n, clock'))
    BY DEF Recorded, Over
  <2> QED
    BY <1>3, <2>1, <2>2, <2>3, <2>4, <2>5 DEF OneUse, Recorded, Over
<1>6. AcceptedOncePerWindow'
  <2> SUFFICES ASSUME NEW i \in DOMAIN accepted', NEW j \in DOMAIN accepted',
                      i < j, accepted'[i].msg = accepted'[j].msg
               PROVE  ~Gate!Live(accepted'[i].msg, accepted'[j].at)
    BY DEF AcceptedOncePerWindow, Gate!Live
  <2>1. i # last
    <3>1. CASE j = last
      BY <3>1
    <3>2. CASE j # last
      BY <1>2, <3>2, SMTT(30)
    <3> QED
      BY <3>1, <3>2
  <2>2. CASE j = last
    BY <1>1, <1>2, <2>1, <2>2 DEF OneUse, Over
  <2>3. CASE j # last
    BY <1>2, <2>1, <2>3 DEF AcceptedOncePerWindow
  <2> QED
    BY <2>2, <2>3
<1> QED
  BY <1>5, <1>6

\* UseInv is inductive.
LEMMA UseStep ==
  ASSUME TypeOK, UseInv, [Next]_vars
  PROVE  UseInv'
<1> USE DEF TypeOK
<1>1. CASE Tick
  BY <1>1, QuietStep DEF Tick, Past
<1>2. ASSUME NEW p \in Procs, NEW c \in Caps, Learn(p, c) PROVE UseInv'
  BY <1>2, QuietStep DEF Learn, Past
<1>3. ASSUME NEW p \in Procs, Restart(p) PROVE UseInv'
  <2>1. /\ UNCHANGED <<clock, admissions, accepted>>
        /\ \A t \in Threads : pc'[t] # "idle" => pc'[t] = pc[t] /\ call'[t] = call[t]
    BY <1>3 DEF Restart
  <2> QED
    BY <2>1, QuietStep DEF Past
<1>4. ASSUME NEW t \in Threads, Begin(t) PROVE UseInv'
  <2>1. /\ UNCHANGED <<clock, admissions, accepted>>
        /\ \A u \in Threads \ {t} : pc'[u] = pc[u] /\ call'[u] = call[u]
        /\ pc'[t] = "replay"
    BY <1>4 DEF Begin, At
  <2> QED
    BY <2>1, QuietStep DEF Past
<1>5. ASSUME NEW t \in Threads, NEW from, Deny(t, from) PROVE UseInv'
  <2>1. /\ UNCHANGED <<clock, admissions, accepted>>
        /\ \A u \in Threads \ {t} : pc'[u] = pc[u] /\ call'[u] = call[u]
        /\ pc'[t] = "idle"
    BY <1>5 DEF Deny, Leave, At
  <2> QED
    BY <2>1, QuietStep DEF Past
<1>6. ASSUME NEW t \in Threads, NEW from \in {"registry", "expiry", "budget"}, NEW to,
             Proceed(t, from, to)
      PROVE  UseInv'
  <2>1. /\ UNCHANGED <<clock, admissions, accepted, call>>
        /\ \A u \in Threads \ {t} : pc'[u] = pc[u]
        /\ Past(t)
    BY <1>6 DEF Proceed, At, Past
  <2> QED
    BY <2>1, QuietStep DEF Past
<1>7. ASSUME NEW t \in Threads, CheckReplay(t) PROVE UseInv'
  BY <1>5, <1>7, AdmitStep DEF CheckReplay
<1>8. ASSUME NEW t \in Threads, CheckRegistry(t) \/ CheckExpiry(t) \/ CheckBudget(t) PROVE UseInv'
  BY <1>5, <1>6, <1>8, Tests
<1>9. ASSUME NEW t \in Threads, AcceptOnly(t) \/ WriteUsage(t) PROVE UseInv'
  BY <1>9, AcceptStep DEF AcceptOnly, WriteUsage
<1>10. ASSUME NEW t \in Threads, ReadUsage(t) PROVE UseInv'
  <2>1. call[t] \in Calls
    BY <1>10 DEF ReadUsage, At
  <2>2. /\ UNCHANGED <<clock, admissions, accepted>>
        /\ \A u \in Threads \ {t} : pc'[u] = pc[u] /\ call'[u] = call[u]
        /\ Past(t) /\ call'[t].msg = call[t].msg
    BY <1>10, <2>1 DEF ReadUsage, At, Past, Calls
  <2> QED
    BY <2>2, QuietStep DEF Past
<1>11. CASE UNCHANGED vars
  BY <1>11, QuietStep DEF vars, Past
<1> QED
  BY <1>1, <1>2, <1>3, <1>4, <1>7, <1>8, <1>9, <1>10, <1>11 DEF Next

\* A message is accepted at most once before its replay window closes, by any
\* number of threads and processes, whatever is denied, revoked or restarted.
THEOREM AcceptedOncePerWindowHolds == Spec => []AcceptedOncePerWindow
<1>1. Init => UseInv
  BY DEF Init, UseInv, OneUse, Past, AcceptedOncePerWindow
<1>2. TypeOK /\ UseInv /\ [Next]_vars => UseInv'
  BY UseStep
<1>3. UseInv => AcceptedOncePerWindow
  BY DEF UseInv
<1> QED
  BY <1>1, <1>2, <1>3, TypeCorrect, PTL DEF Spec

-----------------------------------------------------------------------------
(* Budgets                                                                 *)

\* A store serves one call at a time.
OneThreadEach == \A t, u \in Threads : ProcOf[t] = ProcOf[u] => t = u

CounterOf(t) == usage[ProcOf[t]][call[t].grant.cap]

\* With one thread for each store no increment is lost.
UsageIsExact == \A p \in Procs : usage[p] = consumed[p]

\* BudgetPerStore is not inductive: a call behind the budget test must still
\* have room when it writes the counter, and what it read must still be there.
BudgetInv ==
  /\ UsageIsExact
  /\ BudgetPerStore
  /\ \A t \in Threads :
       /\ pc[t] \in {"consume", "write"} => CounterOf(t) < call[t].grant.max_calls
       /\ pc[t] = "write" => call[t].read = CounterOf(t)

\* A step that leaves the counters alone, and lets no thread past the budget
\* test or the reading of the counter, keeps the invariant.
LEMMA CountersUntouched ==
  ASSUME BudgetInv, usage' = usage, consumed' = consumed,
         \A t \in Threads :
           /\ pc'[t] \in {"consume", "write"} => pc[t] = pc'[t] /\ call'[t] = call[t]
  PROVE  BudgetInv'
BY DEF BudgetInv, UsageIsExact, BudgetPerStore, CounterOf

\* BudgetInv is inductive when no two threads share a store.
LEMMA BudgetStep ==
  ASSUME OneThreadEach, TypeOK, BudgetInv, [Next]_vars
  PROVE  BudgetInv'
<1> USE AuthorizeAssumption, NoCallAssumption DEF TypeOK
<1>1. CASE Tick
  BY <1>1, CountersUntouched DEF Tick
<1>2. ASSUME NEW p \in Procs, NEW c \in Caps, Learn(p, c) PROVE BudgetInv'
  BY <1>2, CountersUntouched DEF Learn
<1>3. ASSUME NEW p \in Procs, Restart(p) PROVE BudgetInv'
  <2>1. /\ usage' = [usage EXCEPT ![p] = [c \in Caps |-> 0]]
        /\ consumed' = [consumed EXCEPT ![p] = [c \in Caps |-> 0]]
    BY <1>3 DEF Restart
  <2>2. UsageIsExact' /\ BudgetPerStore'
    BY <2>1 DEF BudgetInv, UsageIsExact, BudgetPerStore
  <2>3. ASSUME NEW t \in Threads, pc'[t] # "idle"
        PROVE  pc'[t] = pc[t] /\ call'[t] = call[t] /\ usage'[ProcOf[t]] = usage[ProcOf[t]]
    BY <1>3, <2>1, <2>3 DEF Restart
  <2> QED
    BY <2>2, <2>3, ZenonT(60) DEF BudgetInv, CounterOf
<1>4. ASSUME NEW t \in Threads, Begin(t) PROVE BudgetInv'
  BY <1>4, CountersUntouched DEF Begin, At
<1>5. ASSUME NEW t \in Threads, NEW from, Deny(t, from) PROVE BudgetInv'
  BY <1>5, CountersUntouched DEF Deny, Leave, At
<1>6. ASSUME NEW t \in Threads, CheckReplay(t) PROVE BudgetInv'
  <2>1. CASE Deny(t, "replay")
    BY <1>5, <2>1
  <2>2. CASE At(t, "replay", "registry") /\ UNCHANGED <<revokedIn, usage, call, accepted, consumed>>
    BY <2>2, CountersUntouched DEF At
  <2> QED
    BY <1>6, <2>1, <2>2 DEF CheckReplay
<1>7. ASSUME NEW t \in Threads, CheckRegistry(t) \/ CheckExpiry(t) PROVE BudgetInv'
  <2>1. CASE \E to \in {"expiry", "budget"}, from \in {"registry", "expiry"} : Proceed(t, from, to)
    BY <2>1, CountersUntouched DEF Proceed, At
  <2> QED
    BY <1>5, <1>7, <2>1 DEF CheckRegistry, CheckExpiry
<1>8. ASSUME NEW t \in Threads, CheckBudget(t) PROVE BudgetInv'
  <2>1. CASE Proceed(t, "budget", "consume") /\ CounterOf(t) < call[t].grant.max_calls
    BY <2>1 DEF Proceed, At, BudgetInv, UsageIsExact, BudgetPerStore, CounterOf
  <2> QED
    BY <1>5, <1>8, <2>1 DEF CheckBudget, CounterOf
<1>9. ASSUME NEW t \in Threads, AcceptOnly(t) PROVE BudgetInv'
  BY <1>9, CountersUntouched DEF AcceptOnly, Accept, Leave, At
<1>10. ASSUME NEW t \in Threads, ReadUsage(t) PROVE BudgetInv'
  <2>1. /\ pc[t] = "consume" /\ call[t] \in Calls
        /\ pc' = [pc EXCEPT ![t] = "write"]
        /\ call' = [call EXCEPT ![t] = [call[t] EXCEPT !.read = CounterOf(t)]]
        /\ usage' = usage /\ consumed' = consumed
    BY <1>10 DEF ReadUsage, At, CounterOf
  <2>2. call'[t].grant = call[t].grant /\ call'[t].read = CounterOf(t) /\ pc'[t] = "write"
    BY <2>1 DEF Calls
  <2>3. \A u \in Threads \ {t} : pc'[u] = pc[u] /\ call'[u] = call[u]
    BY <2>1
  <2> QED
    BY <2>1, <2>2, <2>3, ZenonT(60) DEF BudgetInv, UsageIsExact, BudgetPerStore, CounterOf
<1>11. ASSUME NEW t \in Threads, WriteUsage(t) PROVE BudgetInv'
  <2> DEFINE p == ProcOf[t]
             c == call[t].grant.cap
  <2>1. /\ pc[t] = "write" /\ call[t].grant \in Grants /\ p \in Procs /\ c \in Caps
        /\ usage[p][c] \in Nat
    BY <1>11, CallTyped DEF WriteUsage
  <2>2. call[t].read = usage[p][c] /\ usage[p][c] < call[t].grant.max_calls /\ consumed[p] = usage[p]
    BY <2>1 DEF BudgetInv, CounterOf, UsageIsExact
  <2>3. /\ usage' = [usage EXCEPT ![p] = [usage[p] EXCEPT ![c] = usage[p][c] + 1]]
        /\ consumed' = [consumed EXCEPT ![p] = [usage[p] EXCEPT ![c] = usage[p][c] + 1]]
    BY <1>11, <2>2 DEF WriteUsage
  <2>4. UsageIsExact'
    BY <2>1, <2>3 DEF BudgetInv, UsageIsExact
  <2>5. ASSUME NEW q \in Procs, NEW g \in Grants PROVE consumed'[q][g.cap] <= g.max_calls
    <3>1. CASE q = p /\ g.cap = c
      <4>1. g = call[t].grant
        BY <2>1, <3>1
      <4>2. consumed'[q][g.cap] = usage[p][c] + 1
        BY <2>1, <2>3, <3>1
      <4> QED
        BY <2>1, <2>2, <4>1, <4>2
    <3>2. CASE q # p \/ g.cap # c
      <4>1. g.cap \in Caps /\ consumed[q][g.cap] <= g.max_calls
        BY DEF BudgetInv, BudgetPerStore
      <4>2. consumed'[q][g.cap] = consumed[q][g.cap]
        BY <2>1, <2>2, <2>3, <3>2, <4>1
      <4> QED
        BY <4>1, <4>2
    <3> QED
      BY <3>1, <3>2
  <2>6. pc'[t] = "idle" /\ \A u \in Threads \ {t} : pc'[u] = pc[u] /\ call'[u] = call[u]
    BY <1>11 DEF WriteUsage, Accept, Leave, At
  <2>7. \A u \in Threads \ {t} : usage'[ProcOf[u]] = usage[ProcOf[u]]
    BY <2>1, <2>3 DEF OneThreadEach
  <2>8. \A u \in Threads :
          /\ pc'[u] \in {"consume", "write"} =>
               usage'[ProcOf[u]][call'[u].grant.cap] < call'[u].grant.max_calls
          /\ pc'[u] = "write" => call'[u].read = usage'[ProcOf[u]][call'[u].grant.cap]
    BY <2>6, <2>7, ZenonT(60) DEF BudgetInv, CounterOf
  <2> QED
    BY <2>4, <2>5, <2>8 DEF BudgetInv, BudgetPerStore, CounterOf
<1>12. CASE UNCHANGED vars
  BY <1>12, CountersUntouched DEF vars
<1> QED
  BY <1>1, <1>2, <1>3, <1>4, <1>6, <1>7, <1>8, <1>9, <1>10, <1>11, <1>12 DEF Next

\* BudgetInv holds when no two threads share a store.
LEMMA BudgetInvHolds ==
  ASSUME OneThreadEach
  PROVE  Spec => []BudgetInv
<1>1. Init => BudgetInv
  BY AuthorizeAssumption DEF Init, BudgetInv, UsageIsExact, BudgetPerStore
<1>2. TypeOK /\ BudgetInv /\ [Next]_vars => BudgetInv'
  BY BudgetStep
<1> QED
  BY <1>1, <1>2, TypeCorrect, PTL DEF Spec

\* With one thread for each store, the calls that a process lets through stay
\* within the budget of every capability.
THEOREM BudgetPerStoreHolds ==
  ASSUME OneThreadEach
  PROVE  Spec => []BudgetPerStore
<1>1. BudgetInv => BudgetPerStore
  BY DEF BudgetInv
<1> QED
  BY <1>1, BudgetInvHolds, PTL

-----------------------------------------------------------------------------
(* Counters of a store with any number of threads                          *)

\* What a call read, and what the counter has, were consumed: an increment may
\* be lost, but none is made up.  The second conjunct is what makes the first
\* one inductive, because a call writes what it read several steps ago.
CounterInv ==
  /\ \A p \in Procs, c \in Caps : usage[p][c] <= consumed[p][c]
  /\ \A t \in Threads :
       pc[t] = "write" => call[t].read <= consumed[ProcOf[t]][call[t].grant.cap]

\* A step that leaves the counters alone and lets no thread read one.
LEMMA CounterUntouched ==
  ASSUME CounterInv, usage' = usage, consumed' = consumed,
         \A t \in Threads : pc'[t] = "write" => pc[t] = "write" /\ call'[t] = call[t]
  PROVE  CounterInv'
BY DEF CounterInv

\* CounterInv is inductive, with any number of threads on each store.
LEMMA CounterStep ==
  ASSUME TypeOK, CounterInv, [Next]_vars
  PROVE  CounterInv'
<1> USE AuthorizeAssumption, NoCallAssumption DEF TypeOK
<1>1. CASE Tick
  BY <1>1, CounterUntouched DEF Tick
<1>2. ASSUME NEW p \in Procs, NEW c \in Caps, Learn(p, c) PROVE CounterInv'
  BY <1>2, CounterUntouched DEF Learn
<1>3. ASSUME NEW p \in Procs, Restart(p) PROVE CounterInv'
  <2>1. /\ usage' = [usage EXCEPT ![p] = [c \in Caps |-> 0]]
        /\ consumed' = [consumed EXCEPT ![p] = [c \in Caps |-> 0]]
    BY <1>3 DEF Restart
  <2>2. \A q \in Procs, c \in Caps : usage'[q][c] <= consumed'[q][c]
    BY <2>1 DEF CounterInv
  <2>3. ASSUME NEW t \in Threads, pc'[t] = "write"
        PROVE  /\ pc[t] = "write" /\ call'[t] = call[t]
               /\ consumed'[ProcOf[t]] = consumed[ProcOf[t]]
    BY <1>3, <2>1, <2>3 DEF Restart
  <2> QED
    BY <2>2, <2>3 DEF CounterInv
<1>4. ASSUME NEW t \in Threads, Begin(t) PROVE CounterInv'
  BY <1>4, CounterUntouched DEF Begin, At
<1>5. ASSUME NEW t \in Threads, NEW from, Deny(t, from) PROVE CounterInv'
  BY <1>5, CounterUntouched DEF Deny, Leave, At
<1>6. ASSUME NEW t \in Threads, CheckReplay(t) PROVE CounterInv'
  <2>1. CASE Deny(t, "replay")
    BY <1>5, <2>1
  <2>2. CASE At(t, "replay", "registry") /\ UNCHANGED <<revokedIn, usage, call, accepted, consumed>>
    BY <2>2, CounterUntouched DEF At
  <2> QED
    BY <1>6, <2>1, <2>2 DEF CheckReplay
<1>7. ASSUME NEW t \in Threads, CheckRegistry(t) \/ CheckExpiry(t) \/ CheckBudget(t)
      PROVE  CounterInv'
  <2>1. CASE \E from, to : to # "write" /\ Proceed(t, from, to)
    BY <2>1, CounterUntouched DEF Proceed, At
  <2> QED
    BY <1>5, <1>7, <2>1, Tests
<1>8. ASSUME NEW t \in Threads, AcceptOnly(t) PROVE CounterInv'
  BY <1>8, CounterUntouched DEF AcceptOnly, Accept, Leave, At
<1>9. ASSUME NEW t \in Threads, ReadUsage(t) PROVE CounterInv'
  <2>1. /\ pc[t] = "consume" /\ call[t] \in Calls
        /\ pc' = [pc EXCEPT ![t] = "write"]
        /\ call' = [call EXCEPT ![t] = [call[t] EXCEPT !.read = CounterOf(t)]]
        /\ usage' = usage /\ consumed' = consumed
    BY <1>9 DEF ReadUsage, At, CounterOf
  <2>2. /\ call'[t].grant = call[t].grant /\ call'[t].read = CounterOf(t)
        /\ ProcOf[t] \in Procs /\ call[t].grant.cap \in Caps
    BY <2>1 DEF Calls
  <2>3. \A u \in Threads \ {t} : pc'[u] = pc[u] /\ call'[u] = call[u]
    BY <2>1
  <2> QED
    BY <2>1, <2>2, <2>3 DEF CounterInv, CounterOf
<1>10. ASSUME NEW t \in Threads, WriteUsage(t) PROVE CounterInv'
  <2> DEFINE p == ProcOf[t]
             c == call[t].grant.cap
  <2>1. /\ pc[t] = "write" /\ p \in Procs /\ c \in Caps /\ call[t].read \in Nat
    BY <1>10, CallTyped DEF WriteUsage, Calls
  <2>2. /\ usage' = [usage EXCEPT ![p] = [usage[p] EXCEPT ![c] = call[t].read + 1]]
        /\ consumed' = [consumed EXCEPT ![p] = [consumed[p] EXCEPT ![c] = consumed[p][c] + 1]]
    BY <1>10 DEF WriteUsage
  <2>3. call[t].read <= consumed[p][c]
    BY <2>1 DEF CounterInv
  <2>4. ASSUME NEW q \in Procs, NEW d \in Caps
        PROVE  /\ usage'[q][d] <= consumed'[q][d]
               /\ consumed[q][d] <= consumed'[q][d]
               /\ consumed[q][d] \in Nat /\ consumed'[q][d] \in Nat
    <3>1. CASE q = p /\ d = c
      BY <2>1, <2>2, <2>3, <3>1
    <3>2. CASE q # p \/ d # c
      <4>1. usage'[q][d] = usage[q][d] /\ consumed'[q][d] = consumed[q][d]
        BY <2>1, <2>2, <3>2
      <4> QED
        BY <4>1 DEF CounterInv
    <3> QED
      BY <3>1, <3>2
  <2>5. ASSUME NEW u \in Threads, pc'[u] = "write"
        PROVE  call'[u].read <= consumed'[ProcOf[u]][call'[u].grant.cap]
    <3>1. pc[u] = "write" /\ call'[u] = call[u]
      BY <1>10, <2>5 DEF WriteUsage, Accept, Leave, At
    <3>2. /\ ProcOf[u] \in Procs /\ call[u].grant.cap \in Caps /\ call[u].read \in Nat
          /\ call[u].read <= consumed[ProcOf[u]][call[u].grant.cap]
      BY <3>1, CallTyped DEF CounterInv, Calls
    <3> QED
      BY <2>4, <3>1, <3>2
  <2> QED
    BY <2>4, <2>5 DEF CounterInv
<1>11. CASE UNCHANGED vars
  BY <1>11, CounterUntouched DEF vars
<1> QED
  BY <1>1, <1>2, <1>3, <1>4, <1>6, <1>7, <1>8, <1>9, <1>10, <1>11 DEF Next

\* However many threads share a store, it says that a budget is exhausted only
\* after it has let as many calls through.
THEOREM ExhaustedOnlyByUseHolds == Spec => []ExhaustedOnlyByUse
<1>1. Init => CounterInv
  BY AuthorizeAssumption DEF Init, CounterInv
<1>2. TypeOK /\ CounterInv /\ [Next]_vars => CounterInv'
  BY CounterStep
<1>3. TypeOK /\ CounterInv => ExhaustedOnlyByUse
  <2> SUFFICES ASSUME TypeOK, CounterInv, NEW p \in Procs, NEW g \in Grants,
                      usage[p][g.cap] >= g.max_calls
               PROVE  consumed[p][g.cap] >= g.max_calls
    BY DEF ExhaustedOnlyByUse
  <2>1. g.cap \in Caps /\ g.max_calls \in Nat
    BY AuthorizeAssumption
  <2>2. /\ usage[p][g.cap] \in Nat /\ consumed[p][g.cap] \in Nat
        /\ usage[p][g.cap] <= consumed[p][g.cap]
    BY <2>1 DEF TypeOK, CounterInv
  <2> QED
    BY <2>1, <2>2
<1> QED
  BY <1>1, <1>2, <1>3, TypeCorrect, PTL DEF Spec
=============================================================================
