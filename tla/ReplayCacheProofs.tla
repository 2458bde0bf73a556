-------------------------- MODULE ReplayCacheProofs -------------------------
(***************************************************************************)
(* Proofs about ReplayCache for any number of processes and threads, any   *)
(* messages, any window, with or without the table, and under any faults.  *)
(***************************************************************************)
EXTENDS ReplayCache, TLAPS

\* Every variable of the caches keeps its type.
THEOREM TypeCorrect == Spec => []TypeOK
<1>1. Init => TypeOK
  BY ReplayAssumption DEF Init, TypeOK
<1>2. TypeOK /\ [Next]_vars => TypeOK'
  <2> SUFFICES ASSUME TypeOK, [Next]_vars PROVE TypeOK'
    OBVIOUS
  <2> USE ReplayAssumption DEF TypeOK, Requests
  <2>1. CASE Tick
    BY <2>1 DEF Tick
  <2>2. ASSUME NEW p \in Procs, Open(p) \/ Close(p) PROVE TypeOK'
    BY <2>2 DEF Open, Close
  <2>3. ASSUME NEW p \in Procs, Crash(p) PROVE TypeOK'
    BY <2>3 DEF Crash
  <2>4. ASSUME NEW t \in Threads, RefuseOutsideWindow(t) PROVE TypeOK'
    BY <2>4 DEF RefuseOutsideWindow, vars
  <2>5. ASSUME NEW t \in Threads, Begin(t) PROVE TypeOK'
    BY <2>5 DEF Begin, At
  <2>6. ASSUME NEW t \in Threads, Acquire(t) PROVE TypeOK'
    BY <2>6 DEF Acquire, At, Unexpired
  <2>7. ASSUME NEW t \in Threads, GcTable(t) PROVE TypeOK'
    BY <2>7 DEF GcTable, At, Unexpired
  <2>8. ASSUME NEW t \in Threads,
               StatementFails(t) \/ RefuseKnown(t) \/ RefuseStored(t) \/ CloseUnder(t)
        PROVE TypeOK'
    <3>1. UNCHANGED <<clock, db, up, mem, tableLog, localLog>> /\ handle' \in [Procs -> BOOLEAN]
      BY <2>8 DEF StatementFails, RefuseKnown, RefuseStored, CloseUnder
    <3>2. \E from \in {"gc", "check", "remember", "insert"} : Leave(t, from)
      BY <2>8 DEF StatementFails, RefuseKnown, RefuseStored, CloseUnder
    <3> QED
      BY <3>1, <3>2 DEF Leave, At
  <2>9. ASSUME NEW t \in Threads, Remember(t) PROVE TypeOK'
    BY <2>9 DEF Remember, At
  <2>10. ASSUME NEW t \in Threads, Insert(t) \/ AcceptFromMemory(t) PROVE TypeOK'
    <3>1. pc[t] = "insert"
      BY <2>10 DEF Insert, AcceptFromMemory, Leave, At
    <3>2. Admission(req[t].msg) \in Table!Admissions
      BY <3>1 DEF Admission, Table!Admissions
    <3>3. CASE Insert(t)
      <4>1. req[t].msg \in Messages /\ ProcOf[t] \in Procs
        BY <3>1
      <4>2. db' \subseteq Messages
        BY <3>3, <4>1 DEF Insert
      <4>3. tableLog' \in Seq(Table!Admissions) /\ localLog' \in [Procs -> Seq(Table!Admissions)]
        BY <3>2, <3>3, <4>1 DEF Insert
      <4>4. /\ UNCHANGED <<clock, up, handle, mem>> /\ Leave(t, "insert")
        BY <3>3 DEF Insert
      <4>5. /\ lock' \in [Procs -> SUBSET Threads] /\ req' \in [Threads -> Requests \cup {NoReq}]
            /\ pc' \in [Threads -> {"idle", "lock", "gc", "check", "remember", "insert"}]
            /\ \A u \in Threads : pc'[u] # "idle" => req'[u] \in Requests
        BY <4>1, <4>4 DEF Leave, At
      <4> QED
        BY <4>2, <4>3, <4>4, <4>5
    <3>4. CASE AcceptFromMemory(t)
      BY <3>1, <3>2, <3>4 DEF AcceptFromMemory, Leave, At
    <3> QED
      BY <2>10, <3>3, <3>4
  <2>11. ASSUME NEW t \in Threads, NotKnown(t) PROVE TypeOK'
    BY <2>11 DEF NotKnown, At
  <2>12. CASE UNCHANGED vars
    BY <2>12 DEF vars
  <2> QED
    BY <2>1, <2>2, <2>3, <2>4, <2>5, <2>6, <2>7, <2>8, <2>9, <2>10, <2>11, <2>12
    DEF Next, InLock
<1> QED
  BY <1>1, <1>2, PTL DEF Spec

-----------------------------------------------------------------------------
(* The shared table                                                        *)

\* A call in progress read the clock in the past, and its message was in the
\* window at that time.
RequestsWereFresh ==
  \A t \in Threads :
    pc[t] # "idle" => req[t].now <= clock /\ Fresh(req[t].msg, req[t].now)

\* OncePerWindow is not inductive: a step that inserts a row knows only what
\* is in the table, so LiveRowsKept must say that the table still has every
\* live row, and RequestsWereFresh that no DELETE works with a later time than
\* the clock's.
TableInv ==
  /\ RequestsWereFresh
  /\ LiveRowsKept
  /\ TableOncePerWindow

\* An entry of a log of admissions has a time stamp and a time.
LEMMA EntryOfLog ==
  ASSUME NEW log \in Seq(Table!Admissions), NEW i \in DOMAIN log
  PROVE  log[i].ts \in Nat /\ log[i].at \in Nat
<1>1. log[i] \in Table!Admissions
  OBVIOUS
<1> QED
  BY <1>1 DEF Table!Admissions

\* A step that touches neither the table nor its log keeps the two table
\* conjuncts, because time only makes rows expire.
LEMMA TableUntouched ==
  ASSUME TypeOK, LiveRowsKept, TableOncePerWindow,
         db' = db, tableLog' = tableLog, clock' \in Nat, clock <= clock'
  PROVE  LiveRowsKept' /\ TableOncePerWindow'
<1> USE ReplayAssumption DEF TypeOK
<1>1. LiveRowsKept'
  <2> SUFFICES ASSUME NEW i \in DOMAIN tableLog, Table!Live(tableLog[i], clock')
               PROVE  \E e \in db : Table!Records(tableLog[i], e)
    BY DEF LiveRowsKept, Table!Live, Table!Records
  <2>1. tableLog[i].ts \in Nat
    BY EntryOfLog
  <2>2. Table!Live(tableLog[i], clock)
    BY <2>1 DEF Table!Live
  <2> QED
    BY <2>2 DEF LiveRowsKept
<1>2. TableOncePerWindow'
  BY DEF TableOncePerWindow, Table!OncePerWindow, Table!AtMostOncePerWindow, Table!Live
<1> QED
  BY <1>1, <1>2

\* Only Begin gives a thread a request, and time does not run backwards.
LEMMA RequestsStayFresh ==
  ASSUME TypeOK, RequestsWereFresh, Next
  PROVE  RequestsWereFresh'
<1> USE ReplayAssumption DEF TypeOK, Requests, RequestsWereFresh, Fresh
<1>1. CASE Tick
  BY <1>1 DEF Tick
<1>2. ASSUME NEW p \in Procs, Open(p) \/ Close(p)
      PROVE  RequestsWereFresh'
  BY <1>2 DEF Open, Close
<1>3. ASSUME NEW p \in Procs, Crash(p)
      PROVE  RequestsWereFresh'
  BY <1>3 DEF Crash
<1>4. ASSUME NEW t \in Threads, Begin(t)
      PROVE  RequestsWereFresh'
  <2>1. PICK m \in Messages :
          /\ Fresh(m, clock)
          /\ req' = [req EXCEPT ![t] = [msg |-> m, now |-> clock]]
    BY <1>4 DEF Begin
  <2>2. clock' = clock /\ pc' = [pc EXCEPT ![t] = "lock"]
    BY <1>4 DEF Begin, At
  <2>3. ASSUME NEW u \in Threads, pc'[u] # "idle"
        PROVE  req'[u].now <= clock' /\ Fresh(req'[u].msg, req'[u].now)
    <3>1. CASE u = t
      BY <2>1, <2>2, <3>1
    <3>2. CASE u # t
      BY <2>1, <2>2, <2>3, <3>2
    <3> QED
      BY <3>1, <3>2
  <2> QED
    BY <2>3
<1>5. ASSUME NEW t \in Threads,
             \/ RefuseOutsideWindow(t)
             \/ Acquire(t)
             \/ GcTable(t)
             \/ NotKnown(t)
             \/ Remember(t)
      PROVE  RequestsWereFresh'
  BY <1>5, ZenonT(60) DEF RefuseOutsideWindow, vars, Acquire, GcTable, NotKnown, Remember, At
<1>6. ASSUME NEW t \in Threads,
             \/ StatementFails(t)
             \/ CloseUnder(t)
             \/ RefuseKnown(t)
             \/ RefuseStored(t)
             \/ Insert(t)
             \/ AcceptFromMemory(t)
      PROVE  RequestsWereFresh'
  <2>1. clock' = clock /\ \E from \in {"gc", "check", "remember", "insert"} : Leave(t, from)
    BY <1>6 DEF StatementFails, CloseUnder, RefuseKnown, RefuseStored, Insert, AcceptFromMemory
  <2> QED
    BY <2>1 DEF Leave, At
<1> QED
  BY <1>1, <1>2, <1>3, <1>4, <1>5, <1>6 DEF Next, InLock

\* A DELETE with a time that has passed removes no live row.
LEMMA GcKeepsLiveRows ==
  ASSUME TypeOK, RequestsWereFresh, LiveRowsKept, TableOncePerWindow,
         NEW t \in Threads, GcTable(t)
  PROVE  LiveRowsKept' /\ TableOncePerWindow'
<1> USE ReplayAssumption DEF TypeOK, Table!Admissions, Requests
<1>1. req[t].now <= clock /\ req[t].now \in Nat
  BY DEF GcTable, At, RequestsWereFresh
<1>2. tableLog' = tableLog /\ clock' = clock /\ (db' = db \/ db' = Unexpired(db, req[t].now))
  BY DEF GcTable
<1>3. ASSUME NEW i \in DOMAIN tableLog, Table!Live(tableLog[i], clock)
      PROVE  \E e \in db' : Table!Records(tableLog[i], e)
  <2>1. PICK e \in db : Table!Records(tableLog[i], e)
    BY <1>3 DEF LiveRowsKept
  <2>2. req[t].now <= e.ts + Window
    BY <1>1, <1>3, <2>1, SMTT(30) DEF Table!Live, Table!Records
  <2> QED
    BY <1>2, <2>1, <2>2 DEF Unexpired
<1>4. LiveRowsKept'
  BY <1>2, <1>3 DEF LiveRowsKept, Table!Live, Table!Records
<1>5. TableOncePerWindow'
  BY <1>2 DEF TableOncePerWindow, Table!OncePerWindow, Table!AtMostOncePerWindow, Table!Live
<1> QED
  BY <1>4, <1>5

\* The primary key: a key that is not in the table has no live admission.
LEMMA InsertIsFirst ==
  ASSUME TypeOK, LiveRowsKept, NEW t \in Threads, Insert(t),
         NEW i \in DOMAIN tableLog, tableLog[i].key = req[t].msg.key
  PROVE  ~Table!Live(tableLog[i], clock)
BY DEF Insert, HasKey, LiveRowsKept, Table!Records

LEMMA InsertKeepsTable ==
  ASSUME TypeOK, LiveRowsKept, TableOncePerWindow, NEW t \in Threads, Insert(t)
  PROVE  LiveRowsKept' /\ TableOncePerWindow'
<1> DEFINE m == req[t].msg
           n == Len(tableLog) + 1
<1> USE ReplayAssumption
<1>1. m \in Messages /\ pc[t] = "insert" /\ m.ts \in Nat
  BY DEF TypeOK, Requests, Insert, Leave, At
<1>2. Admission(m) \in Table!Admissions
  BY <1>1 DEF Admission, Table!Admissions, TypeOK
<1>3. /\ tableLog' = Append(tableLog, Admission(m))
      /\ db' = db \cup {m}
      /\ clock' = clock
  BY DEF Insert
<1>4. /\ tableLog \in Seq(Table!Admissions)
      /\ DOMAIN tableLog' = DOMAIN tableLog \cup {n}
      /\ n \notin DOMAIN tableLog
      /\ \A i \in DOMAIN tableLog : tableLog'[i] = tableLog[i] /\ i < n
      /\ tableLog'[n] = Admission(m)
  BY <1>2, <1>3 DEF TypeOK
<1>5. LiveRowsKept'
  BY <1>3, <1>4 DEF LiveRowsKept, Table!Live, Table!Records, Admission
<1>6. TableOncePerWindow'
  <2> SUFFICES ASSUME NEW i \in DOMAIN tableLog', NEW j \in DOMAIN tableLog',
                      i < j, tableLog'[i].key = tableLog'[j].key
               PROVE  ~Table!Live(tableLog'[i], tableLog'[j].at)
    BY DEF TableOncePerWindow, Table!OncePerWindow, Table!AtMostOncePerWindow, Table!Live
  <2>1. i \in DOMAIN tableLog /\ i \in Nat
    BY <1>4
  <2>2. CASE j = n
    BY <1>3, <1>4, <2>1, <2>2, InsertIsFirst DEF Admission
  <2>3. CASE j # n
    BY <1>4, <2>1, <2>3 DEF TableOncePerWindow, Table!OncePerWindow, Table!AtMostOncePerWindow
  <2> QED
    BY <2>2, <2>3
<1> QED
  BY <1>5, <1>6

LEMMA TableInvInductive ==
  ASSUME TypeOK, TypeOK', TableInv, [Next]_vars
  PROVE  TableInv'
<1> USE DEF TableInv
<1>1. ASSUME NEW t \in Threads, GcTable(t) PROVE LiveRowsKept' /\ TableOncePerWindow'
  BY <1>1, GcKeepsLiveRows
<1>2. ASSUME NEW t \in Threads, Insert(t) PROVE LiveRowsKept' /\ TableOncePerWindow'
  BY <1>2, InsertKeepsTable
<1>3. ASSUME \A t \in Threads : ~GcTable(t) /\ ~Insert(t), Next
      PROVE  LiveRowsKept' /\ TableOncePerWindow'
  <2>1. db' = db /\ tableLog' = tableLog /\ (clock' = clock \/ clock' = clock + 1)
    BY <1>3 DEF Next, Tick, Open, Close, Crash, RefuseOutsideWindow, vars, Begin, Acquire,
                InLock, StatementFails, CloseUnder, RefuseKnown, NotKnown, Remember, RefuseStored,
                AcceptFromMemory
  <2> QED
    BY <2>1, TableUntouched DEF TypeOK
<1>4. CASE Next
  BY <1>1, <1>2, <1>3, <1>4, RequestsStayFresh
<1>5. CASE UNCHANGED vars
  <2>1. RequestsWereFresh'
    BY <1>5 DEF vars, RequestsWereFresh, Fresh
  <2> QED
    BY <1>5, <2>1, TableUntouched DEF vars, TypeOK
<1> QED
  BY <1>4, <1>5

\* The table, shared by any number of processes that crash, restart, close
\* their cache and meet a busy file, admits a key at most once per window.
THEOREM TableOncePerWindowHolds == Spec => []TableOncePerWindow
<1>1. Init => TableInv
  BY DEF Init, TableInv, RequestsWereFresh, LiveRowsKept, TableOncePerWindow,
         Table!OncePerWindow, Table!AtMostOncePerWindow
<1>2. TypeOK /\ TypeOK' /\ TableInv /\ [Next]_vars => TableInv'
  BY TableInvInductive
<1>3. TableInv => TableOncePerWindow
  BY DEF TableInv
<1> QED
  BY <1>1, <1>2, <1>3, TypeCorrect, PTL DEF Spec

\* No garbage collection deletes a row whose message could still be fresh.
THEOREM LiveRowsKeptHolds == Spec => []LiveRowsKept
<1>1. Init => TableInv
  BY DEF Init, TableInv, RequestsWereFresh, LiveRowsKept, TableOncePerWindow,
         Table!OncePerWindow, Table!AtMostOncePerWindow
<1>2. TypeOK /\ TypeOK' /\ TableInv /\ [Next]_vars => TableInv'
  BY TableInvInductive
<1>3. TableInv => LiveRowsKept
  BY DEF TableInv
<1> QED
  BY <1>1, <1>2, <1>3, TypeCorrect, PTL DEF Spec

\* The caches over one table implement the abstract gate over that table.
THEOREM TableGateHolds == Spec => TableGate
<1>1. Init => Table!Init
  BY DEF Init, Table!Init
<1>2. TypeOK /\ TableInv /\ [Next]_vars => [Table!Next]_(Table!gateVars)
  <2> SUFFICES ASSUME TypeOK, TableInv, [Next]_vars
               PROVE  Table!Next \/ (clock' = clock /\ tableLog' = tableLog)
    BY DEF Table!gateVars
  <2>1. ASSUME NEW t \in Threads, Insert(t) PROVE Table!Next
    <3> DEFINE m == req[t].msg
    <3>1. /\ m \in Messages /\ m.ts \in Nat /\ req[t].now \in Nat
          /\ req[t].now <= clock /\ Fresh(m, req[t].now)
      BY <2>1, ReplayAssumption
      DEF TypeOK, Requests, TableInv, RequestsWereFresh, Insert, Leave, At
    <3>2. m.ts <= clock + Window
      BY <3>1, ReplayAssumption DEF Fresh, TypeOK
    <3>3. \A i \in DOMAIN tableLog : tableLog[i].key = m.key => ~Table!Live(tableLog[i], clock)
      BY <2>1, InsertIsFirst DEF TableInv
    <3>4. tableLog' = Append(tableLog, Table!Admission(m, clock)) /\ clock' = clock
      BY <2>1 DEF Insert, Admission, Table!Admission
    <3>5. Table!Admit(m)
      BY <3>2, <3>3, <3>4 DEF Table!Admit
    <3> QED
      BY <3>1, <3>5 DEF Table!Next
  <2>2. CASE Tick
    BY <2>2 DEF Tick, Table!Next, Table!Tick
  <2>3. ASSUME ~Tick, \A t \in Threads : ~Insert(t)
        PROVE  clock' = clock /\ tableLog' = tableLog
    BY <2>3 DEF Next, Open, Close, Crash, RefuseOutsideWindow, vars, Begin, Acquire,
                InLock, GcTable, StatementFails, CloseUnder, RefuseKnown, NotKnown, Remember,
                RefuseStored, AcceptFromMemory
  <2> QED
    BY <2>1, <2>2, <2>3
<1>3. Init => TableInv
  BY DEF Init, TableInv, RequestsWereFresh, LiveRowsKept, TableOncePerWindow,
         Table!OncePerWindow, Table!AtMostOncePerWindow
<1>4. TypeOK /\ TypeOK' /\ TableInv /\ [Next]_vars => TableInv'
  BY TableInvInductive
<1> QED
  BY <1>1, <1>2, <1>3, <1>4, TypeCorrect, PTL DEF Spec, TableGate, Table!Spec

-----------------------------------------------------------------------------
(* The memory of one process                                               *)

\* Between Acquire and the end of its call a thread is the holder of the lock.
HoldsLock ==
  \A t \in Threads : pc[t] \in {"gc", "check", "remember", "insert"} => lock[ProcOf[t]] = {t}

\* A process that is down has no history and serves no call.
DownIsEmpty ==
  /\ \A p \in Procs : ~up[p] => localLog[p] = <<>>
  /\ \A t \in Threads : pc[t] # "idle" => up[ProcOf[t]]

\* The memory has every message of this run that could still be fresh.
MemoryKept ==
  \A p \in Procs : \A i \in DOMAIN localLog[p] :
    Local(p)!Live(localLog[p][i], clock) => \E e \in mem[p] : Local(p)!Records(localLog[p][i], e)

\* A thread that did not find its key in memory knows that no live admission
\* of the key came before, and when it is about to insert, its message is in
\* memory.
InsertIsPrepared ==
  \A t \in Threads :
    /\ pc[t] = "insert" => req[t].msg \in mem[ProcOf[t]]
    /\ pc[t] \in {"remember", "insert"} =>
         \A i \in DOMAIN localLog[ProcOf[t]] :
           localLog[ProcOf[t]][i].key = req[t].msg.key =>
             ~Local(ProcOf[t])!Live(localLog[ProcOf[t]][i], clock)

\* ProcessOncePerWindow is not inductive either: the test of the memory and
\* the return of the call are separate steps, so the invariant carries what the
\* test found (InsertIsPrepared) to the return, and the lock (HoldsLock) keeps
\* every other thread of the process away in between.
ProcessInv ==
  /\ HoldsLock
  /\ DownIsEmpty
  /\ MemoryKept
  /\ InsertIsPrepared
  /\ ProcessOncePerWindow

LEMMA LockDiscipline ==
  ASSUME TypeOK, HoldsLock, DownIsEmpty, Next
  PROVE  HoldsLock' /\ DownIsEmpty'
<1>0. /\ ProcOf \in [Threads -> Procs]
      /\ pc \in [Threads -> {"idle", "lock", "gc", "check", "remember", "insert"}]
      /\ lock \in [Procs -> SUBSET Threads]
      /\ up \in [Procs -> BOOLEAN]
      /\ DOMAIN localLog = Procs
  BY ReplayAssumption DEF TypeOK, ReplayAssumption
<1>1. ASSUME UNCHANGED <<pc, lock, up, localLog>> PROVE HoldsLock' /\ DownIsEmpty'
  BY <1>1 DEF HoldsLock, DownIsEmpty
<1>2. ASSUME NEW p \in Procs, Open(p) PROVE HoldsLock' /\ DownIsEmpty'
  <2>1. /\ UNCHANGED <<pc, lock, localLog>>
        /\ up' = [up EXCEPT ![p] = TRUE]
    BY <1>2 DEF Open
  <2>2. \A q \in Procs : up[q] => up'[q]
    BY <1>0, <2>1
  <2> QED
    BY <1>0, <2>1, <2>2 DEF HoldsLock, DownIsEmpty
<1>3. ASSUME NEW p \in Procs, Crash(p) PROVE HoldsLock' /\ DownIsEmpty'
  <2>1. /\ up' = [up EXCEPT ![p] = FALSE]
        /\ lock' = [lock EXCEPT ![p] = {}]
        /\ pc' = [t \in Threads |-> IF ProcOf[t] = p THEN "idle" ELSE pc[t]]
        /\ localLog' = [localLog EXCEPT ![p] = <<>>]
    BY <1>3 DEF Crash
  <2>2. ASSUME NEW t \in Threads, pc'[t] # "idle"
        PROVE  ProcOf[t] # p /\ pc[t] = pc'[t] /\ lock'[ProcOf[t]] = lock[ProcOf[t]]
    BY <1>0, <2>1, <2>2
  <2>3. HoldsLock'
    BY <2>2 DEF HoldsLock
  <2>4. DownIsEmpty'
    BY <1>0, <2>1, <2>2 DEF DownIsEmpty
  <2> QED
    BY <2>3, <2>4
<1>4. ASSUME NEW t \in Threads, Begin(t) PROVE HoldsLock' /\ DownIsEmpty'
  <2>1. /\ up[ProcOf[t]] /\ pc' = [pc EXCEPT ![t] = "lock"]
        /\ UNCHANGED <<lock, up, localLog>>
    BY <1>4 DEF Begin, At
  <2> QED
    BY <1>0, <2>1 DEF HoldsLock, DownIsEmpty
<1>5. ASSUME NEW t \in Threads, Acquire(t) PROVE HoldsLock' /\ DownIsEmpty'
  <2>1. /\ pc[t] = "lock" /\ pc' = [pc EXCEPT ![t] = "gc"]
        /\ lock[ProcOf[t]] = {} /\ lock' = [lock EXCEPT ![ProcOf[t]] = {t}]
        /\ UNCHANGED <<up, localLog>>
    BY <1>5 DEF Acquire, At
  <2>2. ASSUME NEW u \in Threads, pc'[u] \in {"gc", "check", "remember", "insert"}
        PROVE  lock'[ProcOf[u]] = {u}
    <3>1. CASE u = t
      BY <1>0, <2>1, <3>1
    <3>2. CASE u # t
      <4>1. lock[ProcOf[u]] = {u}
        BY <1>0, <2>1, <2>2, <3>2 DEF HoldsLock
      <4>2. u \in lock[ProcOf[u]] /\ u \notin lock[ProcOf[t]]
        BY <2>1, <4>1
      <4> QED
        BY <1>0, <2>1, <4>1, <4>2
    <3> QED
      BY <3>1, <3>2
  <2>3. \A u \in Threads : pc'[u] # "idle" => pc[u] # "idle"
    BY <1>0, <2>1
  <2> QED
    BY <2>1, <2>2, <2>3 DEF HoldsLock, DownIsEmpty
<1>6. ASSUME NEW t \in Threads, GcTable(t) \/ NotKnown(t) \/ Remember(t)
      PROVE  HoldsLock' /\ DownIsEmpty'
  <2>1. /\ pc[t] \in {"gc", "check", "remember"}
        /\ \E to \in {"check", "remember", "insert"} : pc' = [pc EXCEPT ![t] = to]
        /\ UNCHANGED <<lock, up, localLog>>
    BY <1>6 DEF GcTable, NotKnown, Remember, At
  <2>2. \A u \in Threads : u # t => pc'[u] = pc[u]
    BY <1>0, <2>1
  <2> QED
    BY <2>1, <2>2 DEF HoldsLock, DownIsEmpty
<1>7. ASSUME NEW t \in Threads,
             \/ StatementFails(t)
             \/ CloseUnder(t)
             \/ RefuseKnown(t)
             \/ RefuseStored(t)
             \/ Insert(t)
             \/ AcceptFromMemory(t)
      PROVE  HoldsLock' /\ DownIsEmpty'
  <2>1. up' = up /\ \E from \in {"gc", "check", "remember", "insert"} : Leave(t, from)
    BY <1>7 DEF StatementFails, CloseUnder, RefuseKnown, RefuseStored, Insert, AcceptFromMemory
  <2>2. /\ pc[t] \in {"gc", "check", "remember", "insert"}
        /\ pc' = [pc EXCEPT ![t] = "idle"]
        /\ lock' = [lock EXCEPT ![ProcOf[t]] = {}]
    BY <2>1 DEF Leave, At
  <2>3. ASSUME NEW u \in Threads, pc'[u] \in {"gc", "check", "remember", "insert"}
        PROVE  lock'[ProcOf[u]] = {u}
    <3>1. u # t /\ lock[ProcOf[u]] = {u} /\ lock[ProcOf[t]] = {t}
      BY <1>0, <2>2, <2>3 DEF HoldsLock
    <3>2. u \in lock[ProcOf[u]] /\ u \notin lock[ProcOf[t]]
      BY <3>1
    <3> QED
      BY <1>0, <2>2, <3>1, <3>2
  <2>4. \A u \in Threads : pc'[u] # "idle" => pc[u] # "idle"
    BY <1>0, <2>2
  <2>5. \A p \in Procs : p # ProcOf[t] => localLog'[p] = localLog[p]
    BY <1>0, <1>7 DEF StatementFails, CloseUnder, RefuseKnown, RefuseStored, Insert, AcceptFromMemory
  <2>6. up[ProcOf[t]]
    BY <2>2 DEF DownIsEmpty
  <2> QED
    BY <2>1, <2>3, <2>4, <2>5, <2>6 DEF HoldsLock, DownIsEmpty
<1> QED
  BY <1>1, <1>2, <1>3, <1>4, <1>5, <1>6, <1>7
  DEF Next, InLock, Tick, Close, RefuseOutsideWindow, vars

\* Time only makes admissions expire, so a step that leaves a process's
\* memory and history alone keeps what relates the two.
LEMMA ProcessUntouched ==
  ASSUME TypeOK, NEW p \in Procs, NEW i \in DOMAIN localLog[p],
         clock' \in Nat, clock <= clock', Local(p)!Live(localLog[p][i], clock')
  PROVE  Local(p)!Live(localLog[p][i], clock)
<1>1. localLog[p][i].ts \in Nat
  BY EntryOfLog DEF TypeOK
<1> QED
  BY <1>1, ReplayAssumption DEF TypeOK, Local!Live

LEMMA AppendToHistory ==
  ASSUME TypeOK, ProcessInv, NEW t \in Threads, Insert(t) \/ AcceptFromMemory(t)
  PROVE  ProcessInv'
<1> DEFINE p == ProcOf[t]
           m == req[t].msg
           n == Len(localLog[p]) + 1
<1> USE ReplayAssumption
<1>1. /\ m \in Messages /\ pc[t] = "insert" /\ m.ts \in Nat /\ p \in Procs
      /\ Admission(m) \in Table!Admissions
  BY DEF TypeOK, Requests, Insert, AcceptFromMemory, Leave, At, Admission, Table!Admissions
<1>2. /\ localLog' = [localLog EXCEPT ![p] = Append(@, Admission(m))]
      /\ clock' = clock /\ mem' = mem /\ Leave(t, "insert")
  BY DEF Insert, AcceptFromMemory
<1>3. /\ DOMAIN localLog'[p] = DOMAIN localLog[p] \cup {n}
      /\ n \notin DOMAIN localLog[p]
      /\ \A i \in DOMAIN localLog[p] : localLog'[p][i] = localLog[p][i] /\ i < n
      /\ localLog'[p][n] = Admission(m)
      /\ DOMAIN localLog[p] \subseteq Nat
  BY <1>1, <1>2 DEF TypeOK
<1>4. \A q \in Procs : q # p => localLog'[q] = localLog[q]
  BY <1>2 DEF TypeOK
<1>5. MemoryKept'
  <2> SUFFICES ASSUME NEW q \in Procs, NEW i \in DOMAIN localLog'[q],
                      Local(q)!Live(localLog'[q][i], clock')
               PROVE  \E e \in mem'[q] : Local(q)!Records(localLog'[q][i], e)
    BY DEF MemoryKept, Local!Live, Local!Records
  <2>1. CASE q # p \/ i # n
    BY <1>2, <1>3, <1>4, <2>1 DEF ProcessInv, MemoryKept
  <2>2. CASE q = p /\ i = n
    BY <1>1, <1>2, <1>3, <2>2 DEF ProcessInv, InsertIsPrepared, Local!Records, Admission
  <2> QED
    BY <2>1, <2>2
<1>6. InsertIsPrepared'
  <2> SUFFICES ASSUME NEW u \in Threads, pc'[u] \in {"remember", "insert"}
               PROVE  /\ pc'[u] = "insert" => req'[u].msg \in mem'[ProcOf[u]]
                      /\ \A i \in DOMAIN localLog'[ProcOf[u]] :
                           localLog'[ProcOf[u]][i].key = req'[u].msg.key =>
                             ~Local(ProcOf[u])!Live(localLog'[ProcOf[u]][i], clock')
    BY DEF InsertIsPrepared, Local!Live
  <2>1. u # t /\ pc[u] \in {"remember", "insert"} /\ pc'[u] = pc[u] /\ req'[u] = req[u]
    BY <1>2 DEF Leave, At, TypeOK
  <2>2. ProcOf[u] # p
    BY <1>1, <2>1 DEF ProcessInv, HoldsLock
  <2> QED
    BY <1>2, <1>4, <2>1, <2>2 DEF ProcessInv, InsertIsPrepared
<1>7. ProcessOncePerWindow'
  <2> SUFFICES ASSUME NEW q \in Procs,
                      NEW i \in DOMAIN localLog'[q], NEW j \in DOMAIN localLog'[q],
                      i < j, localLog'[q][i].key = localLog'[q][j].key
               PROVE  ~Local(q)!Live(localLog'[q][i], localLog'[q][j].at)
    BY DEF ProcessOncePerWindow, Local!OncePerWindow, Local!AtMostOncePerWindow, Local!Live
  <2>1. CASE q # p \/ (i # n /\ j # n)
    BY <1>3, <1>4, <2>1
    DEF ProcessInv, ProcessOncePerWindow, Local!OncePerWindow, Local!AtMostOncePerWindow
  <2>2. CASE q = p /\ j = n
    <3>1. i \in DOMAIN localLog[p]
      BY <1>3, <2>2
    <3> QED
      BY <1>1, <1>3, <2>2, <3>1 DEF ProcessInv, InsertIsPrepared, Admission
  <2>3. ~(q = p /\ i = n /\ j # n)
    BY <1>3
  <2> QED
    BY <2>1, <2>2, <2>3
<1>8. HoldsLock' /\ DownIsEmpty'
  BY LockDiscipline DEF ProcessInv, Next, InLock
<1> QED
  BY <1>5, <1>6, <1>7, <1>8 DEF ProcessInv

LEMMA AcquireKeepsProcess ==
  ASSUME TypeOK, RequestsWereFresh, ProcessInv, NEW t \in Threads, Acquire(t)
  PROVE  ProcessInv'
<1> DEFINE p == ProcOf[t]
<1> USE ReplayAssumption
<1>1. /\ pc[t] = "lock" /\ lock[p] = {} /\ p \in Procs
      /\ req[t].now \in Nat /\ req[t].now <= clock
      /\ pc' = [pc EXCEPT ![t] = "gc"]
      /\ mem' = [mem EXCEPT ![p] = Unexpired(mem[p], req[t].now)]
      /\ UNCHANGED <<clock, req, localLog>>
  BY DEF Acquire, At, TypeOK, Requests, RequestsWereFresh
<1>2. MemoryKept'
  <2> SUFFICES ASSUME NEW q \in Procs, NEW i \in DOMAIN localLog[q],
                      Local(q)!Live(localLog[q][i], clock)
               PROVE  \E e \in mem'[q] : Local(q)!Records(localLog[q][i], e)
    BY <1>1 DEF MemoryKept, Local!Live, Local!Records
  <2>1. PICK e \in mem[q] : Local(q)!Records(localLog[q][i], e)
    BY DEF ProcessInv, MemoryKept
  <2>2. CASE q = p
    <3>1. e.ts \in Nat /\ clock \in Nat /\ clock <= e.ts + Window
      BY <2>1 DEF Local!Live, Local!Records, TypeOK
    <3>2. req[t].now <= e.ts + Window
      BY <1>1, <3>1
    <3> QED
      BY <1>1, <2>1, <2>2, <3>2 DEF Unexpired, TypeOK
  <2>3. CASE q # p
    BY <1>1, <2>1, <2>3 DEF TypeOK
  <2> QED
    BY <2>2, <2>3
<1>3. InsertIsPrepared'
  <2> SUFFICES ASSUME NEW u \in Threads, pc'[u] \in {"remember", "insert"}
               PROVE  /\ pc'[u] = "insert" => req[u].msg \in mem'[ProcOf[u]]
                      /\ \A i \in DOMAIN localLog[ProcOf[u]] :
                           localLog[ProcOf[u]][i].key = req[u].msg.key =>
                             ~Local(ProcOf[u])!Live(localLog[ProcOf[u]][i], clock)
    BY <1>1 DEF InsertIsPrepared, Local!Live
  <2>1. u # t /\ pc[u] \in {"remember", "insert"} /\ pc'[u] = pc[u]
    BY <1>1 DEF TypeOK
  <2>2. ProcOf[u] # p
    BY <1>1, <2>1 DEF ProcessInv, HoldsLock
  <2> QED
    BY <1>1, <2>1, <2>2 DEF ProcessInv, InsertIsPrepared, TypeOK
<1>4. ProcessOncePerWindow'
  BY <1>1 DEF ProcessInv, ProcessOncePerWindow, Local!OncePerWindow,
              Local!AtMostOncePerWindow, Local!Live
<1>5. HoldsLock' /\ DownIsEmpty'
  BY LockDiscipline DEF ProcessInv, Next
<1> QED
  BY <1>2, <1>3, <1>4, <1>5 DEF ProcessInv

\* The memory has every live admission, so a key that is not there has none.
LEMMA NotKnownKeepsProcess ==
  ASSUME TypeOK, ProcessInv, NEW t \in Threads, NotKnown(t)
  PROVE  ProcessInv'
<1> DEFINE p == ProcOf[t]
<1> USE ReplayAssumption
<1>1. /\ pc[t] = "check" /\ p \in Procs
      /\ ~HasKey(mem[p], req[t].msg.key)
      /\ pc' = [pc EXCEPT ![t] = "remember"]
      /\ UNCHANGED <<clock, mem, req, localLog>>
  BY DEF NotKnown, At, TypeOK
<1>2. InsertIsPrepared'
  <2> SUFFICES ASSUME NEW u \in Threads, pc'[u] \in {"remember", "insert"}
               PROVE  /\ pc'[u] = "insert" => req[u].msg \in mem[ProcOf[u]]
                      /\ \A i \in DOMAIN localLog[ProcOf[u]] :
                           localLog[ProcOf[u]][i].key = req[u].msg.key =>
                             ~Local(ProcOf[u])!Live(localLog[ProcOf[u]][i], clock)
    BY <1>1 DEF InsertIsPrepared, Local!Live
  <2>1. CASE u = t
    BY <1>1, <2>1 DEF ProcessInv, MemoryKept, HasKey, Local!Records, TypeOK
  <2>2. CASE u # t
    BY <1>1, <2>2 DEF ProcessInv, InsertIsPrepared, TypeOK
  <2> QED
    BY <2>1, <2>2
<1>3. MemoryKept' /\ ProcessOncePerWindow'
  BY <1>1 DEF ProcessInv, MemoryKept, ProcessOncePerWindow, Local!OncePerWindow,
              Local!AtMostOncePerWindow, Local!Live, Local!Records
<1>4. HoldsLock' /\ DownIsEmpty'
  BY LockDiscipline DEF ProcessInv, Next, InLock
<1> QED
  BY <1>2, <1>3, <1>4 DEF ProcessInv

LEMMA RememberKeepsProcess ==
  ASSUME TypeOK, ProcessInv, NEW t \in Threads, Remember(t)
  PROVE  ProcessInv'
<1> DEFINE p == ProcOf[t]
           m == req[t].msg
<1> USE ReplayAssumption
<1>1. /\ pc[t] = "remember" /\ p \in Procs
      /\ pc' = [pc EXCEPT ![t] = "insert"]
      /\ mem' = [mem EXCEPT ![p] = mem[p] \cup {m}]
      /\ UNCHANGED <<clock, req, localLog>>
  BY DEF Remember, At, TypeOK
<1>2. \A q \in Procs : mem[q] \subseteq mem'[q]
  BY <1>1 DEF TypeOK
<1>3. MemoryKept'
  BY <1>1, <1>2 DEF ProcessInv, MemoryKept, Local!Live, Local!Records
<1>4. InsertIsPrepared'
  <2> SUFFICES ASSUME NEW u \in Threads, pc'[u] \in {"remember", "insert"}
               PROVE  /\ pc'[u] = "insert" => req[u].msg \in mem'[ProcOf[u]]
                      /\ \A i \in DOMAIN localLog[ProcOf[u]] :
                           localLog[ProcOf[u]][i].key = req[u].msg.key =>
                             ~Local(ProcOf[u])!Live(localLog[ProcOf[u]][i], clock)
    BY <1>1 DEF InsertIsPrepared, Local!Live
  <2>1. CASE u = t
    BY <1>1, <2>1 DEF ProcessInv, InsertIsPrepared, TypeOK
  <2>2. CASE u # t
    BY <1>1, <1>2, <2>2 DEF ProcessInv, InsertIsPrepared, TypeOK
  <2> QED
    BY <2>1, <2>2
<1>5. ProcessOncePerWindow'
  BY <1>1 DEF ProcessInv, ProcessOncePerWindow, Local!OncePerWindow,
              Local!AtMostOncePerWindow, Local!Live
<1>6. HoldsLock' /\ DownIsEmpty'
  BY LockDiscipline DEF ProcessInv, Next, InLock
<1> QED
  BY <1>3, <1>4, <1>5, <1>6 DEF ProcessInv

\* Open and Crash replace the memory of a process whose history is empty.
LEMMA LifecycleKeepsProcess ==
  ASSUME TypeOK, ProcessInv, NEW p \in Procs, Open(p) \/ Crash(p)
  PROVE  ProcessInv'
<1> USE ReplayAssumption
<1>1. /\ localLog'[p] = <<>>
      /\ \A q \in Procs : q # p => localLog'[q] = localLog[q] /\ mem'[q] = mem[q]
      /\ clock' = clock
  BY DEF Open, Crash, TypeOK, ProcessInv, DownIsEmpty
<1>2. \A t \in Threads : pc'[t] \in {"remember", "insert"} =>
        pc[t] = pc'[t] /\ req'[t] = req[t] /\ ProcOf[t] # p
  BY DEF Open, Crash, TypeOK, ProcessInv, DownIsEmpty
<1>3. MemoryKept'
  BY <1>1 DEF ProcessInv, MemoryKept, Local!Live, Local!Records
<1>4. InsertIsPrepared'
  BY <1>1, <1>2 DEF ProcessInv, InsertIsPrepared, Local!Live
<1>5. ProcessOncePerWindow'
  BY <1>1 DEF ProcessInv, ProcessOncePerWindow, Local!OncePerWindow,
              Local!AtMostOncePerWindow, Local!Live
<1>6. HoldsLock' /\ DownIsEmpty'
  BY LockDiscipline DEF ProcessInv, Next
<1> QED
  BY <1>3, <1>4, <1>5, <1>6 DEF ProcessInv

\* A step that leaves memories and histories alone, and lets no thread become
\* ready to insert, keeps the invariant.
LEMMA OtherStepsKeepProcess ==
  ASSUME TypeOK, ProcessInv, HoldsLock', DownIsEmpty',
         mem' = mem, localLog' = localLog, clock' \in Nat, clock <= clock',
         \A t \in Threads :
           pc'[t] \in {"remember", "insert"} => pc[t] = pc'[t] /\ req'[t] = req[t]
  PROVE  ProcessInv'
<1> USE ReplayAssumption
<1>1. MemoryKept'
  <2> SUFFICES ASSUME NEW p \in Procs, NEW i \in DOMAIN localLog[p],
                      Local(p)!Live(localLog[p][i], clock')
               PROVE  \E e \in mem[p] : Local(p)!Records(localLog[p][i], e)
    BY DEF MemoryKept, Local!Live, Local!Records
  <2> QED
    BY ProcessUntouched DEF ProcessInv, MemoryKept
<1>2. InsertIsPrepared'
  <2> SUFFICES ASSUME NEW u \in Threads, pc[u] \in {"remember", "insert"}, ProcOf[u] \in Procs,
                      NEW i \in DOMAIN localLog[ProcOf[u]],
                      localLog[ProcOf[u]][i].key = req[u].msg.key
               PROVE  ~Local(ProcOf[u])!Live(localLog[ProcOf[u]][i], clock')
    BY DEF ProcessInv, InsertIsPrepared, Local!Live
  <2> QED
    BY ProcessUntouched DEF ProcessInv, InsertIsPrepared
<1>3. ProcessOncePerWindow'
  BY DEF ProcessInv, ProcessOncePerWindow, Local!OncePerWindow,
         Local!AtMostOncePerWindow, Local!Live
<1> QED
  BY <1>1, <1>2, <1>3 DEF ProcessInv

LEMMA ProcessInvInductive ==
  ASSUME TypeOK, RequestsWereFresh, ProcessInv, [Next]_vars
  PROVE  ProcessInv'
<1>1. ASSUME NEW t \in Threads, Insert(t) \/ AcceptFromMemory(t) PROVE ProcessInv'
  BY <1>1, AppendToHistory
<1>2. ASSUME NEW t \in Threads, Acquire(t) PROVE ProcessInv'
  BY <1>2, AcquireKeepsProcess
<1>3. ASSUME NEW t \in Threads, NotKnown(t) \/ Remember(t) PROVE ProcessInv'
  BY <1>3, NotKnownKeepsProcess, RememberKeepsProcess
<1>4. ASSUME NEW p \in Procs, Open(p) \/ Crash(p) PROVE ProcessInv'
  BY <1>4, LifecycleKeepsProcess
<1>5. CASE Tick \/ \E p \in Procs : Close(p)
  <2>1. /\ UNCHANGED <<mem, localLog, pc, req>>
        /\ clock' = clock \/ clock' = clock + 1
    BY <1>5 DEF Tick, Close
  <2>2. HoldsLock' /\ DownIsEmpty'
    BY <1>5, LockDiscipline DEF ProcessInv, Next
  <2> QED
    BY <2>1, <2>2, OtherStepsKeepProcess DEF TypeOK
<1>6. ASSUME NEW t \in Threads,
             \/ RefuseOutsideWindow(t)
             \/ Begin(t)
             \/ GcTable(t)
             \/ StatementFails(t)
             \/ CloseUnder(t)
             \/ RefuseKnown(t)
             \/ RefuseStored(t)
      PROVE  ProcessInv'
  <2>1. UNCHANGED <<mem, localLog, clock>>
    BY <1>6 DEF RefuseOutsideWindow, vars, Begin, GcTable, StatementFails, CloseUnder,
                RefuseKnown, RefuseStored
  <2>2. \A u \in Threads : pc'[u] \in {"remember", "insert"} => pc[u] = pc'[u] /\ req'[u] = req[u]
    BY <1>6 DEF RefuseOutsideWindow, vars, Begin, GcTable, StatementFails, CloseUnder,
                RefuseKnown, RefuseStored, Leave, At, TypeOK
  <2>3. HoldsLock' /\ DownIsEmpty'
    BY <1>6, LockDiscipline DEF ProcessInv, Next, InLock
  <2> QED
    BY <2>1, <2>2, <2>3, OtherStepsKeepProcess DEF TypeOK
<1>7. CASE UNCHANGED vars
  <2>1. UNCHANGED <<mem, localLog, clock, pc, req, lock, up>>
    BY <1>7 DEF vars
  <2>2. HoldsLock' /\ DownIsEmpty'
    BY <2>1 DEF ProcessInv, HoldsLock, DownIsEmpty
  <2> QED
    BY <2>1, <2>2, OtherStepsKeepProcess DEF TypeOK
<1> QED
  BY <1>1, <1>2, <1>3, <1>4, <1>5, <1>6, <1>7 DEF Next, InLock

LEMMA RequestsAreAlwaysFresh == Spec => []RequestsWereFresh
<1>1. Init => RequestsWereFresh
  BY DEF Init, RequestsWereFresh
<1>2. TypeOK /\ RequestsWereFresh /\ [Next]_vars => RequestsWereFresh'
  <2>1. ASSUME RequestsWereFresh, UNCHANGED vars PROVE RequestsWereFresh'
    BY <2>1 DEF vars, RequestsWereFresh, Fresh
  <2> QED
    BY <2>1, RequestsStayFresh
<1> QED
  BY <1>1, <1>2, TypeCorrect, PTL DEF Spec

LEMMA ProcessInvHolds == Spec => []ProcessInv
<1>1. Init => ProcessInv
  BY DEF Init, ProcessInv, HoldsLock, DownIsEmpty, MemoryKept, InsertIsPrepared,
         ProcessOncePerWindow, Local!OncePerWindow, Local!AtMostOncePerWindow
<1>2. TypeOK /\ RequestsWereFresh /\ ProcessInv /\ [Next]_vars => ProcessInv'
  BY ProcessInvInductive
<1> QED
  BY <1>1, <1>2, TypeCorrect, RequestsAreAlwaysFresh, PTL DEF Spec

\* One run of a process, with or without a table and whenever its cache was
\* closed, admits a key at most once per window.
THEOREM ProcessOncePerWindowHolds == Spec => []ProcessOncePerWindow
<1>1. ProcessInv => ProcessOncePerWindow
  BY DEF ProcessInv
<1> QED
  BY <1>1, ProcessInvHolds, PTL

\* Memory and table hold no entry that lasts longer than two windows from now.
THEOREM ResidenceBoundedHolds == Spec => []ResidenceBounded
<1>1. Init => ResidenceBounded
  BY DEF Init, ResidenceBounded
<1>2. TypeOK /\ RequestsWereFresh /\ ResidenceBounded /\ [Next]_vars => ResidenceBounded'
  <2> SUFFICES ASSUME TypeOK, RequestsWereFresh, ResidenceBounded, [Next]_vars
               PROVE  ResidenceBounded'
    OBVIOUS
  <2> USE ReplayAssumption
  <2>1. clock' \in Nat /\ clock <= clock'
    BY DEF TypeOK, Next, Tick, Open, Close, Crash, RefuseOutsideWindow, vars, Begin, Acquire,
           InLock, GcTable, StatementFails, CloseUnder, RefuseKnown, NotKnown, Remember,
           RefuseStored, Insert, AcceptFromMemory
  <2>2. ASSUME NEW t \in Threads, Remember(t) \/ Insert(t) PROVE ResidenceBounded'
    <3>1. /\ req[t].msg \in Messages /\ req[t].msg.ts \in Nat /\ req[t].now \in Nat
          /\ req[t].now <= clock /\ Fresh(req[t].msg, req[t].now)
      BY <2>2 DEF TypeOK, Requests, RequestsWereFresh, Remember, Insert, Leave, At
    <3>2. req[t].msg.ts <= clock + Window
      BY <3>1 DEF Fresh, TypeOK
    <3>3. /\ clock' = clock /\ db' \subseteq db \cup {req[t].msg}
          /\ \A p \in Procs : mem'[p] \subseteq mem[p] \cup {req[t].msg}
      BY <2>2 DEF Remember, Insert, TypeOK
    <3> QED
      BY <3>2, <3>3 DEF ResidenceBounded
  <2>3. ASSUME ~\E t \in Threads : Remember(t) \/ Insert(t) PROVE ResidenceBounded'
    <3>1. /\ db' \subseteq db
          /\ \A p \in Procs : mem'[p] \subseteq mem[p] \cup db
      <4>1. ASSUME NEW p \in Procs, Open(p) \/ Crash(p)
            PROVE  db' = db /\ \A q \in Procs : mem'[q] \subseteq mem[q] \cup db
        BY <4>1 DEF Open, Crash, TypeOK
      <4>2. ASSUME NEW t \in Threads, Acquire(t)
            PROVE  db' = db /\ \A q \in Procs : mem'[q] \subseteq mem[q] \cup db
        BY <4>2 DEF Acquire, Unexpired, TypeOK
      <4>3. ASSUME NEW t \in Threads, GcTable(t)
            PROVE  db' \subseteq db /\ mem' = mem
        BY <4>3 DEF GcTable, Unexpired
      <4>4. ASSUME ~\E p \in Procs : Open(p) \/ Crash(p),
                   ~\E t \in Threads : Acquire(t) \/ GcTable(t)
            PROVE  db' = db /\ mem' = mem
        BY <2>3, <4>4 DEF Next, Tick, Close, RefuseOutsideWindow, vars, Begin, InLock,
           StatementFails, CloseUnder, RefuseKnown, NotKnown, RefuseStored, AcceptFromMemory
      <4> QED
        BY <4>1, <4>2, <4>3, <4>4
    <3>2. \A e \in Messages : e.ts <= clock + Window => e.ts <= clock' + Window
      BY <2>1 DEF TypeOK
    <3> QED
      BY <3>1, <3>2 DEF ResidenceBounded, TypeOK
  <2> QED
    BY <2>2, <2>3
<1> QED
  BY <1>1, <1>2, TypeCorrect, RequestsAreAlwaysFresh, PTL DEF Spec

\* Each process by itself implements the abstract gate, which its restart
\* empties.
THEOREM ProcessGateHolds == Spec => ProcessGate
<1>1. Init => \A p \in Procs : Local(p)!Init
  BY DEF Init, Local!Init
<1>2. TypeOK /\ RequestsWereFresh /\ ProcessInv /\ [Next]_vars =>
        [\A p \in Procs : [Local(p)!Next]_(Local(p)!gateVars)]_vars
  <2> SUFFICES ASSUME TypeOK, RequestsWereFresh, ProcessInv, [Next]_vars, NEW p \in Procs
               PROVE  Local(p)!Next \/ (clock' = clock /\ localLog'[p] = localLog[p])
    BY DEF Local!gateVars
  <2> USE ReplayAssumption
  <2>1. ASSUME NEW t \in Threads, Insert(t) \/ AcceptFromMemory(t), ProcOf[t] = p
        PROVE  Local(p)!Next
    <3> DEFINE m == req[t].msg
    <3>1. /\ m \in Messages /\ m.ts \in Nat /\ req[t].now \in Nat
          /\ req[t].now <= clock /\ Fresh(m, req[t].now)
          /\ pc[t] = "insert"
      BY <2>1 DEF TypeOK, Requests, RequestsWereFresh, Insert, AcceptFromMemory, Leave, At
    <3>2. m.ts <= clock + Window
      BY <3>1 DEF Fresh, TypeOK
    <3>3. \A i \in DOMAIN localLog[p] :
            localLog[p][i].key = m.key => ~Local(p)!Live(localLog[p][i], clock)
      BY <2>1, <3>1 DEF ProcessInv, InsertIsPrepared
    <3>4. localLog'[p] = Append(localLog[p], Local(p)!Admission(m, clock)) /\ clock' = clock
      BY <2>1 DEF Insert, AcceptFromMemory, Admission, Local!Admission, TypeOK
    <3>5. Local(p)!Admit(m)
      BY <3>2, <3>3, <3>4 DEF Local!Admit
    <3> QED
      BY <3>1, <3>5 DEF Local!Next
  <2>2. CASE Tick
    BY <2>2 DEF Tick, Local!Next, Local!Tick
  <2>3. CASE Crash(p)
    BY <2>3 DEF Crash, Local!Next, Local!Forget, TypeOK
  <2>4. ASSUME ~Tick, ~Crash(p),
               \A t \in Threads : (Insert(t) \/ AcceptFromMemory(t)) => ProcOf[t] # p
        PROVE  clock' = clock /\ localLog'[p] = localLog[p]
    <3>1. ASSUME NEW t \in Threads, Insert(t) \/ AcceptFromMemory(t)
          PROVE  clock' = clock /\ localLog'[p] = localLog[p]
      BY <2>4, <3>1 DEF Insert, AcceptFromMemory, TypeOK
    <3>2. ASSUME NEW q \in Procs, Crash(q)
          PROVE  clock' = clock /\ localLog'[p] = localLog[p]
      BY <2>4, <3>2 DEF Crash, TypeOK
    <3>3. ASSUME ~\E t \in Threads : Insert(t) \/ AcceptFromMemory(t),
                 ~\E q \in Procs : Crash(q)
          PROVE  clock' = clock /\ localLog' = localLog
      BY <2>4, <3>3 DEF Next, Open, Close, RefuseOutsideWindow, vars, Begin, Acquire,
         InLock, GcTable, StatementFails, CloseUnder, RefuseKnown, NotKnown, Remember, RefuseStored
    <3> QED
      BY <3>1, <3>2, <3>3
  <2> QED
    BY <2>1, <2>2, <2>3, <2>4
<1> QED
  BY <1>1, <1>2, TypeCorrect, RequestsAreAlwaysFresh, ProcessInvHolds, PTL DEF Spec, ProcessGate
-----------------------------------------------------------------------------
(* Refusals                                                                *)

InTable(k) == \E i \in DOMAIN tableLog : tableLog[i].key = k

InRun(p, k) == \E i \in DOMAIN localLog[p] : localLog[p][i].key = k

\* A thread of p has put k into the memory and has not tried the INSERT yet.
AboutToRecord(p, k) == \E t \in Threads : ProcOf[t] = p /\ pc[t] = "insert" /\ req[t].msg.key = k

\* RefusedOnlyIfRecorded speaks of the step that refuses; what makes it so is
\* that no key is in the table, or in the memory of a cache that is not
\* closed, without a call that recorded it or is about to, and the one that is
\* about to has the lock.
RecordInv ==
  /\ \A e \in db : InTable(e.key)
  /\ \A p \in Procs : NotClosed(p) => \A e \in mem[p] :
       InTable(e.key) \/ InRun(p, e.key) \/ AboutToRecord(p, e.key)

\* A log has what is appended to it.
LEMMA AppendIsThere ==
  ASSUME NEW S, NEW log \in Seq(S), NEW a
  PROVE  \E i \in DOMAIN Append(log, a) : Append(log, a)[i].key = a.key
<1>1. Len(log) + 1 \in DOMAIN Append(log, a) /\ Append(log, a)[Len(log) + 1] = a
  OBVIOUS
<1> QED
  BY <1>1

\* A log keeps what it had.
LEMMA AppendKeeps ==
  ASSUME NEW S, NEW log \in Seq(S), NEW a, NEW i \in DOMAIN log
  PROVE  i \in DOMAIN Append(log, a) /\ Append(log, a)[i] = log[i]
OBVIOUS

\* What was recorded stays so, unless the process dies.
LEMMA RecordedStays ==
  ASSUME TypeOK, Next
  PROVE  /\ \A k : InTable(k) => InTable(k)'
         /\ \A p \in Procs : \A k : ~Crash(p) /\ InRun(p, k) => InRun(p, k)'
<1>1. CASE UNCHANGED <<tableLog, localLog>>
  BY <1>1 DEF InTable, InRun
<1>2. ASSUME NEW q \in Procs, Crash(q)
      PROVE  tableLog' = tableLog /\ \A p \in Procs : p # q => localLog'[p] = localLog[p]
  BY <1>2 DEF Crash, TypeOK
<1>3. ASSUME NEW t \in Threads, Insert(t) \/ AcceptFromMemory(t)
      PROVE  /\ \A k : InTable(k) => InTable(k)'
             /\ \A p \in Procs : \A k : InRun(p, k) => InRun(p, k)'
  <2>1. PICK a : a = Admission(req[t].msg)
    OBVIOUS
  <2>2. a \in Table!Admissions
    <3>1. req[t].msg \in Messages
      BY <1>3 DEF Insert, AcceptFromMemory, Leave, At, TypeOK, Requests
    <3> QED
      BY <2>1, <3>1, ReplayAssumption DEF Admission, Table!Admissions, TypeOK
  <2>3. /\ tableLog \in Seq(Table!Admissions)
        /\ tableLog' = tableLog \/ tableLog' = Append(tableLog, a)
    BY <1>3, <2>1 DEF Insert, AcceptFromMemory, TypeOK
  <2>4. ASSUME NEW p \in Procs
        PROVE  /\ localLog[p] \in Seq(Table!Admissions)
               /\ localLog'[p] = localLog[p] \/ localLog'[p] = Append(localLog[p], a)
    BY <1>3, <2>1, ReplayAssumption DEF Insert, AcceptFromMemory, TypeOK
  <2>5. ASSUME NEW k, InTable(k) PROVE InTable(k)'
    BY <2>3, <2>5, AppendKeeps DEF InTable
  <2>6. ASSUME NEW p \in Procs, NEW k, InRun(p, k) PROVE InRun(p, k)'
    BY <2>4, <2>6, AppendKeeps DEF InRun
  <2> QED
    BY <2>5, <2>6
<1>6. ASSUME NEW q \in Procs, Crash(q)
      PROVE  /\ \A k : InTable(k) => InTable(k)'
             /\ \A p \in Procs : \A k : ~Crash(p) /\ InRun(p, k) => InRun(p, k)'
  BY <1>2, <1>6 DEF InTable, InRun
<1>7. ASSUME ~\E q \in Procs : Crash(q), ~\E t \in Threads : Insert(t) \/ AcceptFromMemory(t)
      PROVE  UNCHANGED <<tableLog, localLog>>
  BY <1>7 DEF Next, Tick, Open, Close, RefuseOutsideWindow, vars, Begin, Acquire, InLock, GcTable,
     StatementFails, CloseUnder, RefuseKnown, NotKnown, Remember, RefuseStored
<1> QED
  BY <1>1, <1>3, <1>6, <1>7

\* Steps after which the memories have nothing new, and the threads that were
\* about to record still are.
LEMMA NothingNew ==
  ASSUME TypeOK, RecordInv, Next, \A p \in Procs : ~Crash(p),
         db' \subseteq db, \A p \in Procs : mem'[p] \subseteq mem[p] \cup db,
         \A p \in Procs : NotClosed(p)' => NotClosed(p) \/ mem'[p] \subseteq db,
         \A u \in Threads : pc[u] = "insert" => pc'[u] = "insert" /\ req'[u] = req[u]
  PROVE  RecordInv'
<1>1. \A e \in db : InTable(e.key) /\ InTable(e.key)'
  BY RecordedStays DEF RecordInv
<1>2. ASSUME NEW p \in Procs, NotClosed(p)', NEW e \in mem'[p]
      PROVE  InTable(e.key)' \/ InRun(p, e.key)' \/ AboutToRecord(p, e.key)'
  <2>1. CASE e \in db
    BY <1>1, <2>1
  <2>2. CASE e \in mem[p] /\ NotClosed(p)
    <3>1. AboutToRecord(p, e.key) => AboutToRecord(p, e.key)'
      BY DEF AboutToRecord
    <3> QED
      BY <2>2, <3>1, RecordedStays DEF RecordInv
  <2> QED
    BY <1>2, <2>1, <2>2
<1> QED
  BY <1>1, <1>2 DEF RecordInv

\* A thread that leaves the INSERT leaves its key recorded.
LEMMA LeavesRecorded ==
  ASSUME TypeOK, RecordInv, Next, \A p \in Procs : ~Crash(p), NEW t \in Threads, Leave(t, "insert"),
         NEW k, k = req[t].msg.key, db' \subseteq db \cup {req[t].msg}, mem' = mem,
         InTable(k)' \/ InRun(ProcOf[t], k)', db' = db \/ InTable(k)', handle' = handle
  PROVE  RecordInv'
<1>1. \A e \in db : InTable(e.key)'
  BY RecordedStays DEF RecordInv
<1>2. \A e \in db' : InTable(e.key)'
  BY <1>1
<1>3. \A u \in Threads : u # t => pc'[u] = pc[u] /\ req'[u] = req[u]
  BY DEF Leave, At, TypeOK
<1>4. ASSUME NEW p \in Procs, NotClosed(p), NEW e \in mem[p]
      PROVE  InTable(e.key)' \/ InRun(p, e.key)' \/ AboutToRecord(p, e.key)'
  <2>1. CASE AboutToRecord(p, e.key)
    <3>1. PICK u \in Threads : ProcOf[u] = p /\ pc[u] = "insert" /\ req[u].msg.key = e.key
      BY <2>1 DEF AboutToRecord
    <3>2. CASE u = t
      BY <3>1, <3>2
    <3>3. CASE u # t
      BY <1>3, <3>1, <3>3 DEF AboutToRecord
    <3> QED
      BY <3>2, <3>3
  <2>2. CASE InTable(e.key) \/ InRun(p, e.key)
    BY <2>2, RecordedStays
  <2> QED
    BY <1>4, <2>1, <2>2 DEF RecordInv
<1> QED
  BY <1>2, <1>4 DEF RecordInv, NotClosed

\* Only a cache with a store_path has a handle.
HandleInv == \A p \in Procs : handle[p] => Durable

LEMMA HandleInvHolds == Spec => []HandleInv
<1> USE ReplayAssumption
<1>1. Init => HandleInv
  BY DEF Init, HandleInv
<1>2. TypeOK /\ HandleInv /\ [Next]_vars => HandleInv'
  <2> SUFFICES ASSUME TypeOK, HandleInv, [Next]_vars, NEW p \in Procs, handle'[p], ~handle[p]
               PROVE  Durable
    BY DEF HandleInv
  <2>1. \A q \in Procs : Open(q) => Durable \/ ~handle'[p]
    BY DEF Open, TypeOK
  <2>2. \A q \in Procs : ~Close(q) /\ ~Crash(q)
    BY DEF Close, Crash, TypeOK
  <2>3. \A t \in Threads : ~CloseUnder(t)
    BY DEF CloseUnder, TypeOK
  <2> QED
    BY <2>1, <2>2, <2>3 DEF Next, Tick, RefuseOutsideWindow, vars, Begin, Acquire, InLock, GcTable,
       StatementFails, RefuseKnown, NotKnown, Remember, RefuseStored, Insert, AcceptFromMemory
<1> QED
  BY <1>1, <1>2, TypeCorrect, PTL DEF Spec

\* The invariant, step by step.  With a statement that fails the key of the
\* call would stay in the memory.
LEMMA RecordInvInductive ==
  ASSUME TypeOK, HandleInv, RecordInv, Next, Faults \subseteq {"crash", "close"}
  PROVE  RecordInv'
<1> USE ReplayAssumption
<1>1. ASSUME NEW p \in Procs, Crash(p) PROVE RecordInv'
  <2>1. /\ UNCHANGED <<db, tableLog>> /\ mem' = [mem EXCEPT ![p] = {}]
        /\ handle' = [handle EXCEPT ![p] = FALSE]
        /\ \A q \in Procs : q # p => localLog'[q] = localLog[q]
        /\ \A u \in Threads : ProcOf[u] # p => pc'[u] = pc[u] /\ req'[u] = req[u]
    BY <1>1 DEF Crash, TypeOK
  <2>2. \A e \in db : InTable(e.key)'
    BY <2>1 DEF RecordInv, InTable
  <2>3. ASSUME NEW q \in Procs, NotClosed(q)', NEW e \in mem'[q]
        PROVE  InTable(e.key)' \/ InRun(q, e.key)' \/ AboutToRecord(q, e.key)'
    <3>1. q # p /\ e \in mem[q] /\ NotClosed(q)
      BY <2>1, <2>3 DEF TypeOK, NotClosed
    <3>2. InTable(e.key) \/ InRun(q, e.key) \/ AboutToRecord(q, e.key)
      BY <3>1 DEF RecordInv
    <3>3. CASE InTable(e.key) \/ InRun(q, e.key)
      BY <2>1, <3>1, <3>3 DEF InTable, InRun
    <3>4. CASE AboutToRecord(q, e.key)
      BY <2>1, <3>1, <3>4 DEF AboutToRecord
    <3> QED
      BY <3>2, <3>3, <3>4
  <2> QED
    BY <2>1, <2>2, <2>3 DEF RecordInv
<1> SUFFICES ASSUME \A p \in Procs : ~Crash(p) PROVE RecordInv'
  BY <1>1
<1>2. ASSUME NEW p \in Procs, Open(p) PROVE RecordInv'
  <2>1. /\ db' = db /\ pc' = pc /\ req' = req
        /\ \A q \in Procs : mem'[q] \subseteq mem[q] \cup db
    BY <1>2 DEF Open, TypeOK
  <2>2. \A q \in Procs : NotClosed(q)' => NotClosed(q) \/ mem'[q] \subseteq db
    BY <1>2 DEF Open, TypeOK, NotClosed
  <2> QED
    BY <2>1, <2>2, NothingNew
<1>3. ASSUME NEW t \in Threads, Insert(t) PROVE RecordInv'
  <2>1. PICK k : k = req[t].msg.key
    OBVIOUS
  <2>2. PICK a : a = Admission(req[t].msg)
    OBVIOUS
  <2>3. tableLog \in Seq(Table!Admissions) /\ tableLog' = Append(tableLog, a) /\ a.key = k
    BY <1>3, <2>1, <2>2 DEF Insert, Admission, TypeOK
  <2>4. InTable(k)'
    BY <2>3, AppendIsThere, SMTT(30) DEF InTable
  <2> QED
    BY <1>3, <2>1, <2>4, LeavesRecorded DEF Insert
<1>4. ASSUME NEW t \in Threads, AcceptFromMemory(t) PROVE RecordInv'
  <2>1. PICK k : k = req[t].msg.key
    OBVIOUS
  <2>2. PICK a : a = Admission(req[t].msg)
    OBVIOUS
  <2>3. localLog[ProcOf[t]] \in Seq(Table!Admissions) /\ a.key = k
    BY <2>1, <2>2 DEF Admission, TypeOK
  <2>4. localLog'[ProcOf[t]] = Append(localLog[ProcOf[t]], a)
    BY <1>4, <2>2 DEF AcceptFromMemory, TypeOK
  <2>5. InRun(ProcOf[t], k)'
    <3>1. \E i \in DOMAIN Append(localLog[ProcOf[t]], a) : Append(localLog[ProcOf[t]], a)[i].key = k
      BY <2>3, AppendIsThere, ZenonT(60)
    <3> QED
      BY <2>4, <3>1, Zenon DEF InRun
  <2> QED
    BY <1>4, <2>1, <2>5, LeavesRecorded DEF AcceptFromMemory
<1>5. ASSUME NEW t \in Threads, RefuseStored(t) PROVE RecordInv'
  <2>1. PICK k : k = req[t].msg.key
    OBVIOUS
  <2>2. InTable(k)
    BY <1>5, <2>1 DEF RefuseStored, HasKey, RecordInv
  <2>3. InTable(k)'
    BY <2>2, RecordedStays
  <2> QED
    BY <1>5, <2>1, <2>3, LeavesRecorded DEF RefuseStored
<1>6. ASSUME NEW t \in Threads, Remember(t) PROVE RecordInv'
  <2> DEFINE p == ProcOf[t]
             m == req[t].msg
  <2>1. /\ pc[t] = "remember" /\ pc' = [pc EXCEPT ![t] = "insert"] /\ req' = req /\ db' = db
        /\ handle' = handle
        /\ mem' = [mem EXCEPT ![p] = mem[p] \cup {m}]
    BY <1>6 DEF Remember, At
  <2>2. \A e \in db' : InTable(e.key)'
    BY <2>1, RecordedStays DEF RecordInv
  <2>3. ASSUME NEW q \in Procs, NotClosed(q)', NEW e \in mem'[q]
        PROVE  InTable(e.key)' \/ InRun(q, e.key)' \/ AboutToRecord(q, e.key)'
    <3>1. CASE e \in mem[q]
      <4>1. AboutToRecord(q, e.key) => AboutToRecord(q, e.key)'
        BY <2>1 DEF AboutToRecord, TypeOK
      <4>2. NotClosed(q)
        BY <2>1, <2>3 DEF NotClosed
      <4> QED
        BY <3>1, <4>1, <4>2, RecordedStays DEF RecordInv
    <3>2. CASE e \notin mem[q]
      <4>1. q = p /\ e = m
        BY <2>1, <2>3, <3>2 DEF TypeOK
      <4>2. ProcOf[t] = q /\ pc'[t] = "insert" /\ req'[t].msg.key = e.key
        BY <2>1, <4>1 DEF TypeOK
      <4> QED
        BY <4>2 DEF AboutToRecord
    <3> QED
      BY <3>1, <3>2
  <2> QED
    BY <2>2, <2>3 DEF RecordInv
<1>7. ASSUME NEW t \in Threads,
             Acquire(t) \/ GcTable(t) \/ RefuseKnown(t) \/ NotKnown(t) \/ Begin(t)
      PROVE  RecordInv'
  <2>1. db' \subseteq db /\ \A p \in Procs : mem'[p] \subseteq mem[p] \cup db
    BY <1>7 DEF Acquire, GcTable, RefuseKnown, NotKnown, Begin, Unexpired, TypeOK
  <2>2. \A u \in Threads : pc[u] = "insert" => pc'[u] = "insert" /\ req'[u] = req[u]
    BY <1>7 DEF Acquire, GcTable, RefuseKnown, NotKnown, Begin, Leave, At, TypeOK
  <2>3. handle' = handle
    BY <1>7 DEF Acquire, GcTable, RefuseKnown, NotKnown, Begin
  <2> QED
    BY <2>1, <2>2, <2>3, NothingNew DEF NotClosed
<1>8. ASSUME NEW t \in Threads, StatementFails(t) PROVE FALSE
  BY <1>8 DEF StatementFails
<1>10. ASSUME NEW t \in Threads, CloseUnder(t) PROVE RecordInv'
  <2> DEFINE p == ProcOf[t]
  <2>1. /\ db' = db /\ mem' = mem /\ p \in Procs
        /\ handle[p] /\ handle' = [handle EXCEPT ![p] = FALSE]
        /\ \A u \in Threads : u # t => pc'[u] = pc[u] /\ req'[u] = req[u]
    BY <1>10 DEF CloseUnder, Leave, At, TypeOK
  <2>2. \A e \in db : InTable(e.key)'
    BY RecordedStays DEF RecordInv
  <2>3. Durable
    BY <2>1 DEF HandleInv
  <2>4. ASSUME NEW q \in Procs, NotClosed(q)', NEW e \in mem[q]
        PROVE  InTable(e.key)' \/ InRun(q, e.key)' \/ AboutToRecord(q, e.key)'
    <3>1. q # p /\ NotClosed(q)
      BY <2>1, <2>3, <2>4 DEF NotClosed, TypeOK
    <3>2. AboutToRecord(q, e.key) => AboutToRecord(q, e.key)'
      BY <2>1, <3>1 DEF AboutToRecord
    <3> QED
      BY <3>1, <3>2, RecordedStays DEF RecordInv
  <2> QED
    BY <2>1, <2>2, <2>4 DEF RecordInv
<1>9. ASSUME Tick \/ (\E p \in Procs : Close(p)) \/ (\E t \in Threads : RefuseOutsideWindow(t))
      PROVE  RecordInv'
  <2>1. UNCHANGED <<db, mem, pc, req>>
    BY <1>9 DEF Tick, Close, RefuseOutsideWindow, vars
  <2>2. \A p \in Procs : NotClosed(p)' => NotClosed(p)
    BY <1>9 DEF Tick, Close, RefuseOutsideWindow, vars, NotClosed, TypeOK
  <2> QED
    BY <2>1, <2>2, NothingNew
<1> QED
  BY <1>2, <1>3, <1>4, <1>5, <1>6, <1>7, <1>8, <1>9, <1>10 DEF Next, InLock

\* When no statement fails, a call that finds its key in the memory of a cache
\* that is not closed refuses a real replay: some call returned for this key,
\* through the table or in this run of the process.
THEOREM RefusedOnlyIfRecordedHolds ==
  ASSUME Faults \subseteq {"crash", "close"}
  PROVE  Spec => RefusedOnlyIfRecorded
<1>1. Init => RecordInv
  BY DEF Init, RecordInv
<1>2. TypeOK /\ HandleInv /\ RecordInv /\ [Next]_vars => RecordInv'
  <2> SUFFICES ASSUME TypeOK, HandleInv, RecordInv, [Next]_vars PROVE RecordInv'
    OBVIOUS
  <2>1. CASE Next
    BY <2>1, RecordInvInductive
  <2>2. CASE UNCHANGED vars
    BY <2>2 DEF vars, RecordInv, InTable, InRun, AboutToRecord, NotClosed
  <2> QED
    BY <2>1, <2>2
<1>3. TypeOK /\ ProcessInv /\ RecordInv /\ [Next]_vars =>
        [\A t \in Threads :
           pc[t] = "check" /\ pc'[t] = "idle" /\ up'[ProcOf[t]] /\ NotClosed(ProcOf[t]) =>
             \/ \E i \in DOMAIN tableLog : tableLog[i].key = req[t].msg.key
             \/ \E i \in DOMAIN localLog[ProcOf[t]] :
                  localLog[ProcOf[t]][i].key = req[t].msg.key]_vars
  <2> SUFFICES ASSUME TypeOK, ProcessInv, RecordInv, Next, NEW t \in Threads,
                      pc[t] = "check", pc'[t] = "idle", up'[ProcOf[t]], NotClosed(ProcOf[t])
               PROVE  InTable(req[t].msg.key) \/ InRun(ProcOf[t], req[t].msg.key)
    BY DEF InTable, InRun
  <2> USE ReplayAssumption
  <2>1. RefuseKnown(t)
    <3>1. ASSUME NEW p \in Procs, Crash(p) PROVE FALSE
      BY <3>1 DEF Crash, TypeOK
    <3>2. ASSUME NEW u \in Threads, pc' = [pc EXCEPT ![u] = pc'[u]] PROVE u = t
      BY <3>2 DEF TypeOK
    <3>3. ASSUME NEW u \in Threads,
                 Begin(u) \/ Acquire(u) \/ GcTable(u) \/ NotKnown(u) \/ Remember(u)
                   \/ RefuseStored(u) \/ Insert(u) \/ AcceptFromMemory(u) \/ StatementFails(u) \/ CloseUnder(u)
          PROVE  FALSE
      BY <3>3 DEF Begin, Acquire, GcTable, NotKnown, Remember, RefuseStored, Insert, AcceptFromMemory,
         StatementFails, CloseUnder, Leave, At, TypeOK
    <3>4. ASSUME NEW u \in Threads, RefuseKnown(u) PROVE u = t
      BY <3>4 DEF RefuseKnown, Leave, At, TypeOK
    <3>5. ASSUME UNCHANGED pc PROVE FALSE
      BY <3>5
    <3>6. ASSUME Tick \/ (\E p \in Procs : Open(p) \/ Close(p)) \/ (\E u \in Threads : RefuseOutsideWindow(u))
          PROVE  FALSE
      BY <3>5, <3>6 DEF Tick, Open, Close, RefuseOutsideWindow, vars
    <3> QED
      BY <3>1, <3>3, <3>4, <3>6 DEF Next, InLock
  <2>2. PICK e \in mem[ProcOf[t]] : e.key = req[t].msg.key
    BY <2>1 DEF RefuseKnown, HasKey
  <2>3. ~AboutToRecord(ProcOf[t], e.key)
    BY DEF AboutToRecord, ProcessInv, HoldsLock
  <2> QED
    BY <2>2, <2>3 DEF RecordInv
<1> QED
  BY <1>1, <1>2, <1>3, TypeCorrect, ProcessInvHolds, HandleInvHolds, PTL DEF Spec, RefusedOnlyIfRecorded
=============================================================================
