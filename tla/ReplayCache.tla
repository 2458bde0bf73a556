---------------------------- MODULE ReplayCache -----------------------------
(***************************************************************************)
(* sifr/replay.py: the replay caches of several verifier processes that    *)
(* share one SQLite file, each process serving calls of check_and_record   *)
(* from several threads.                                                   *)
(*                                                                         *)
(* A step is what one thread does between two points where another thread, *)
(* another process or the clock can interfere: reading the clock, taking   *)
(* the lock, testing the memory, writing it, and each SQLite statement     *)
(* (isolation_level=None: a statement is its own transaction).  A message  *)
(* is only its cache key and its timestamp: the cache looks at nothing     *)
(* else, so a message signed again is the same message here.               *)
(***************************************************************************)
EXTENDS Naturals, Sequences, FiniteSets

CONSTANTS
  Procs,      \* the verifier processes
  Threads,    \* the threads that call check_and_record
  ProcOf,     \* the process each thread belongs to
  Messages,   \* records [key, ts]
  Window,     \* window_seconds
  Durable,    \* store_path is given
  Faults,     \* the faults that occur: a subset of FaultKinds
  MaxClock,   \* bound of the exploration: the clock stops here
  NoReq       \* a thread that serves no call

FaultKinds == {"busy", "crash", "close"}

ASSUME ReplayAssumption ==
  /\ ProcOf \in [Threads -> Procs]
  /\ \A m \in Messages : m = [key |-> m.key, ts |-> m.ts] /\ m.ts \in Nat
  /\ Window \in Nat
  /\ Durable \in BOOLEAN
  /\ Faults \subseteq FaultKinds
  /\ MaxClock \in Nat

VARIABLES
  clock,      \* datetime.now(timezone.utc) of the host
  db,         \* the rows of table replay
  up,         \* the process has constructed its cache
  handle,     \* _db is not None, per process
  mem,        \* _mem, per process: a set of entries [key, ts]
  lock,       \* the holder of _lock, per process: {} or one thread
  pc,         \* where each thread is in check_and_record
  req,        \* the message and the nowdt of the call a thread serves
  tableLog,   \* history: calls that returned after their INSERT committed
  localLog    \* history: calls that returned in this run of each process

vars == <<clock, db, up, handle, mem, lock, pc, req, tableLog, localLog>>

Table == INSTANCE ReplayGate WITH admissions <- tableLog, Volatile <- FALSE
Local(p) == INSTANCE ReplayGate WITH admissions <- localLog[p], Volatile <- TRUE

Requests == [msg : Messages, now : Nat]

\* Mutation: no bound on how far ahead of the clock a message may be.
FreshUnlessStale(m, now) == now <= m.ts + Window

Fresh(m, now) == now <= m.ts + Window /\ m.ts <= now + Window

HasKey(entries, k) == \E e \in entries : e.key = k

\* Mutation: `ts <= cutoff` instead of `ts < cutoff`.
UnexpiredStrictly(entries, now) == {e \in entries : now < e.ts + Window}

Unexpired(entries, now) == {e \in entries : now <= e.ts + Window}

Admission(m) == [key |-> m.key, ts |-> m.ts, at |-> clock]

Init ==
  /\ clock = 0
  /\ db = {}
  /\ up = [p \in Procs |-> FALSE]
  /\ handle = [p \in Procs |-> FALSE]
  /\ mem = [p \in Procs |-> {}]
  /\ lock = [p \in Procs |-> {}]
  /\ pc = [t \in Threads |-> "idle"]
  /\ req = [t \in Threads |-> NoReq]
  /\ tableLog = <<>>
  /\ localLog = [p \in Procs |-> <<>>]

-----------------------------------------------------------------------------
(* The life of a process                                                   *)

\* __init__ and _open_db: the memory starts as a copy of the table.
Open(p) ==
  /\ ~up[p]
  /\ up' = [up EXCEPT ![p] = TRUE]
  /\ handle' = [handle EXCEPT ![p] = Durable]
  /\ mem' = [mem EXCEPT ![p] = IF Durable THEN db ELSE {}]
  /\ UNCHANGED <<clock, db, lock, pc, req, tableLog, localLog>>

\* close() takes no lock: calls may be in progress, and later calls go on
\* with the memory alone.
Close(p) ==
  /\ "close" \in Faults
  /\ handle[p]
  /\ handle' = [handle EXCEPT ![p] = FALSE]
  /\ UNCHANGED <<clock, db, up, mem, lock, pc, req, tableLog, localLog>>

\* Mutation: the threads of a dead process go on.
CrashLeavesThreads(p) ==
  /\ "crash" \in Faults
  /\ up[p]
  /\ up' = [up EXCEPT ![p] = FALSE]
  /\ handle' = [handle EXCEPT ![p] = FALSE]
  /\ mem' = [mem EXCEPT ![p] = {}]
  /\ lock' = [lock EXCEPT ![p] = {}]
  /\ req' = [t \in Threads |-> IF ProcOf[t] = p THEN NoReq ELSE req[t]]
  /\ localLog' = [localLog EXCEPT ![p] = <<>>]
  /\ UNCHANGED <<clock, db, pc, tableLog>>

\* The process dies between two statements; what it committed stays.
Crash(p) ==
  /\ "crash" \in Faults
  /\ up[p]
  /\ up' = [up EXCEPT ![p] = FALSE]
  /\ handle' = [handle EXCEPT ![p] = FALSE]
  /\ mem' = [mem EXCEPT ![p] = {}]
  /\ lock' = [lock EXCEPT ![p] = {}]
  /\ pc' = [t \in Threads |-> IF ProcOf[t] = p THEN "idle" ELSE pc[t]]
  /\ req' = [t \in Threads |-> IF ProcOf[t] = p THEN NoReq ELSE req[t]]
  /\ localLog' = [localLog EXCEPT ![p] = <<>>]
  /\ UNCHANGED <<clock, db, tableLog>>

Tick ==
  /\ clock < MaxClock
  /\ clock' = clock + 1
  /\ UNCHANGED <<db, up, handle, mem, lock, pc, req, tableLog, localLog>>

-----------------------------------------------------------------------------
(* check_and_record                                                        *)

At(t, from, to) == pc[t] = from /\ pc' = [pc EXCEPT ![t] = to]

\* Leaving the `with self._lock` block, by a return or by an exception.
Leave(t, from) ==
  /\ At(t, from, "idle")
  /\ req' = [req EXCEPT ![t] = NoReq]
  /\ lock' = [lock EXCEPT ![ProcOf[t]] = {}]

\* A message that is malformed, stale or too far ahead is refused before the
\* lock is taken, and nothing changes.
RefuseOutsideWindow(t) ==
  /\ up[ProcOf[t]]
  /\ pc[t] = "idle"
  /\ \E m \in Messages : ~Fresh(m, clock)
  /\ UNCHANGED vars

\* The clock is read, and the window tested, before the lock is taken.
Begin(t) ==
  /\ up[ProcOf[t]]
  /\ At(t, "idle", "lock")
  /\ \E m \in Messages :
       /\ Fresh(m, clock)
       /\ req' = [req EXCEPT ![t] = [msg |-> m, now |-> clock]]
  /\ UNCHANGED <<clock, db, up, handle, mem, lock, tableLog, localLog>>

\* Mutation: the threads of a process do not wait for each other.
AcquireAnyway(t) ==
  LET p == ProcOf[t] IN
  /\ At(t, "lock", "gc")
  /\ lock' = [lock EXCEPT ![p] = @ \cup {t}]
  /\ mem' = [mem EXCEPT ![p] = Unexpired(mem[p], req[t].now)]
  /\ UNCHANGED <<clock, db, up, handle, req, tableLog, localLog>>

\* The lock, and the memory half of _gc_locked.
Acquire(t) ==
  LET p == ProcOf[t] IN
  /\ At(t, "lock", "gc")
  /\ lock[p] = {}
  /\ lock' = [lock EXCEPT ![p] = {t}]
  /\ mem' = [mem EXCEPT ![p] = Unexpired(mem[p], req[t].now)]
  /\ UNCHANGED <<clock, db, up, handle, req, tableLog, localLog>>

\* Mutation: the table is made equal to what this process remembers.
GcTableToMemory(t) ==
  /\ At(t, "gc", "check")
  /\ db' = IF handle[ProcOf[t]] THEN mem[ProcOf[t]] ELSE db
  /\ UNCHANGED <<clock, up, handle, mem, lock, req, tableLog, localLog>>

\* The table half of _gc_locked: the DELETE, skipped without a handle.
GcTable(t) ==
  /\ At(t, "gc", "check")
  /\ db' = IF handle[ProcOf[t]] THEN Unexpired(db, req[t].now) ELSE db
  /\ UNCHANGED <<clock, up, handle, mem, lock, req, tableLog, localLog>>

\* A statement raises because the file stays busy for longer than the
\* timeout.  The lock is released and nothing else is undone.
StatementFails(t) ==
  /\ "busy" \in Faults
  /\ handle[ProcOf[t]]
  /\ Leave(t, "gc") \/ Leave(t, "insert")
  /\ UNCHANGED <<clock, db, up, handle, mem, tableLog, localLog>>

\* close() comes between the test of _db and the statement: it raises.
CloseUnder(t) ==
  LET p == ProcOf[t] IN
  /\ "close" \in Faults
  /\ handle[p]
  /\ Leave(t, "gc") \/ Leave(t, "insert")
  /\ handle' = [handle EXCEPT ![p] = FALSE]
  /\ UNCHANGED <<clock, db, up, mem, tableLog, localLog>>

\* The key is in memory: refused.
RefuseKnown(t) ==
  /\ Leave(t, "check")
  /\ HasKey(mem[ProcOf[t]], req[t].msg.key)
  /\ UNCHANGED <<clock, db, up, handle, mem, tableLog, localLog>>

\* The key is not in memory.  Only the lock keeps this true until the next step.
NotKnown(t) ==
  /\ At(t, "check", "remember")
  /\ ~HasKey(mem[ProcOf[t]], req[t].msg.key)
  /\ UNCHANGED <<clock, db, up, handle, mem, lock, req, tableLog, localLog>>

\* Mutation: the memory is only filled in front of an INSERT.
RememberIfStored(t) ==
  LET p == ProcOf[t] IN
  /\ At(t, "remember", "insert")
  /\ mem' = IF handle[p] THEN [mem EXCEPT ![p] = @ \cup {req[t].msg}] ELSE mem
  /\ UNCHANGED <<clock, db, up, handle, lock, req, tableLog, localLog>>

\* The key is put into memory before the INSERT is tried.
Remember(t) ==
  LET p == ProcOf[t] IN
  /\ At(t, "remember", "insert")
  /\ mem' = [mem EXCEPT ![p] = @ \cup {req[t].msg}]
  /\ UNCHANGED <<clock, db, up, handle, lock, req, tableLog, localLog>>

\* Mutation: the exception leaves the lock taken.
RefuseStoredLocked(t) ==
  /\ At(t, "insert", "idle")
  /\ req' = [req EXCEPT ![t] = NoReq]
  /\ handle[ProcOf[t]]
  /\ HasKey(db, req[t].msg.key)
  /\ UNCHANGED <<clock, db, up, handle, mem, lock, tableLog, localLog>>

\* The INSERT meets the primary key: refused, and the memory keeps the entry.
RefuseStored(t) ==
  /\ Leave(t, "insert")
  /\ handle[ProcOf[t]]
  /\ HasKey(db, req[t].msg.key)
  /\ UNCHANGED <<clock, db, up, handle, mem, tableLog, localLog>>

\* Mutation: INSERT OR REPLACE.
InsertOrReplace(t) ==
  LET p == ProcOf[t] m == req[t].msg IN
  /\ Leave(t, "insert")
  /\ handle[p]
  /\ db' = {e \in db : e.key # m.key} \cup {m}
  /\ tableLog' = Append(tableLog, Admission(m))
  /\ localLog' = [localLog EXCEPT ![p] = Append(@, Admission(m))]
  /\ UNCHANGED <<clock, up, handle, mem>>

\* The INSERT commits and the call returns.
Insert(t) ==
  LET p == ProcOf[t] m == req[t].msg IN
  /\ Leave(t, "insert")
  /\ handle[p]
  /\ ~HasKey(db, m.key)
  /\ db' = db \cup {m}
  /\ tableLog' = Append(tableLog, Admission(m))
  /\ localLog' = [localLog EXCEPT ![p] = Append(@, Admission(m))]
  /\ UNCHANGED <<clock, up, handle, mem>>

\* Without a handle the call returns on the word of the memory alone.
AcceptFromMemory(t) ==
  LET p == ProcOf[t] IN
  /\ Leave(t, "insert")
  /\ ~handle[p]
  /\ localLog' = [localLog EXCEPT ![p] = Append(@, Admission(req[t].msg))]
  /\ UNCHANGED <<clock, db, up, handle, mem, tableLog>>

InLock(t) ==
  \/ GcTable(t)
  \/ StatementFails(t)
  \/ RefuseKnown(t)
  \/ NotKnown(t)
  \/ Remember(t)
  \/ RefuseStored(t)
  \/ Insert(t)
  \/ AcceptFromMemory(t)

Next ==
  \/ Tick
  \/ \E p \in Procs : Open(p) \/ Close(p) \/ Crash(p)
  \/ \E t \in Threads :
       \/ RefuseOutsideWindow(t)
       \/ Begin(t)
       \/ Acquire(t)
       \/ InLock(t)
       \/ CloseUnder(t)

Spec == Init /\ [][Next]_vars

\* A thread that runs keeps running: inside the lock nothing waits for
\* another thread (a busy file is a bounded wait that ends in an answer).
\* threading.Lock is not fair, so acquiring it gets weak fairness only.
FairSpec ==
  Spec /\ \A t \in Threads : WF_vars(Acquire(t)) /\ WF_vars(InLock(t))

-----------------------------------------------------------------------------
TypeOK ==
  /\ clock \in Nat
  /\ db \subseteq Messages
  /\ up \in [Procs -> BOOLEAN]
  /\ handle \in [Procs -> BOOLEAN]
  /\ mem \in [Procs -> SUBSET Messages]
  /\ lock \in [Procs -> SUBSET Threads]
  /\ pc \in [Threads -> {"idle", "lock", "gc", "check", "remember", "insert"}]
  /\ req \in [Threads -> Requests \cup {NoReq}]
  /\ \A t \in Threads : pc[t] # "idle" => req[t] \in Requests
  /\ tableLog \in Seq(Table!Admissions)
  /\ localLog \in [Procs -> Seq(Table!Admissions)]

\* Two processes, or one process before and after a crash, never both record
\* one key in the shared table while a copy of the first message could still
\* pass the freshness test.  (check_and_record, across the SQLite file.)
TableOncePerWindow == Table!OncePerWindow

\* The same for the calls one process answers between two restarts, with or
\* without the table and whenever it was closed.
ProcessOncePerWindow == \A p \in Procs : Local(p)!OncePerWindow

\* No garbage collection, by whichever process and however old its nowdt,
\* deletes the row of a message whose copies would still count as fresh.
LiveRowsKept ==
  \A i \in DOMAIN tableLog :
    Table!Live(tableLog[i], clock) => \E e \in db : Table!Records(tableLog[i], e)

\* The future bound of the freshness test keeps memory and table small: no
\* entry can be pinned for longer than two windows from now.
ResidenceBounded ==
  \A p \in Procs : \A e \in mem[p] \cup db : e.ts <= clock + Window

\* close() was not called on the cache of p.
NotClosed(p) == handle[p] \/ ~Durable

\* A call that finds its key in memory refuses a real replay, as long as its
\* cache is not closed: some call did return for this key, in this process or
\* through the table.
RefusedOnlyIfRecorded ==
  [][\A t \in Threads :
       pc[t] = "check" /\ pc'[t] = "idle" /\ up'[ProcOf[t]] /\ NotClosed(ProcOf[t]) =>
         \/ \E i \in DOMAIN tableLog : tableLog[i].key = req[t].msg.key
         \/ \E i \in DOMAIN localLog[ProcOf[t]] :
              localLog[ProcOf[t]][i].key = req[t].msg.key]_vars

\* The caches together implement the abstract gate over the shared table, and
\* each process by itself implements a gate that its restart empties.
TableGate == Table!Spec
ProcessGate ==
  /\ \A p \in Procs : Local(p)!Init
  /\ [][\A p \in Procs : [Local(p)!Next]_(Local(p)!gateVars)]_vars

\* However a call ends (refused, failed statement, accepted), it gives the
\* lock back: the process never stops answering.
LockReleased ==
  \A t \in Threads : t \in lock[ProcOf[t]] ~> t \notin lock[ProcOf[t]]

\* docs/revocation_replay_scope.md:20 says the primary key makes a second
\* INSERT of a key impossible across any number of processes.
NeverInsertedTwice ==
  \A i, j \in DOMAIN tableLog : tableLog[i].key = tableLog[j].key => i = j
=============================================================================
