# SIFR in TLA+

SIFR is a Python protocol for agents that call each other's tools: signed
messages, capability grants with budgets, replay protection, revocation,
verifiable credentials, an audit graph, a WASM tool runner and a QUIC
transport. This directory models the parts of `sifr/` that keep state, checks
the models with TLC on small instances, and proves the most important
properties with TLAPS for every size of the system.

The repository has a model of its own, `formal/sifr_capability.tla`. It is a
model of the protocol in which every step is atomic. The modules here are
models of the *code*: the lock and the statements of the replay cache, the
lines of the revocation log, the order of the tests in `authorize_action`.

## 1. The system

| component | state | operations | talks to |
|---|---|---|---|
| Replay cache (`replay.py`) | `_mem`, a lock, table `replay` in SQLite (WAL) | `__init__`, `check_and_record`, `close` | other threads by the lock, other processes by the table |
| Revocation registry (`revocation.py`) | `_entries`, an append-only JSONL file | `__init__`, `revoke`, `add_entry`, `is_revoked`, `reload`; inside, `_append` and `_load` | other processes by the file |
| Capability authorization (`capabilities.py`) | grants and `_usage`, per process | `create_capability_grant`, `verify_capability_grant`, `authorize_action`, `CapabilityStore.add`, `usage`, `consume` | calls the replay cache and the registry |
| Audit DAG (`audit_dag.py`) | nodes with `signature_valid` and copies of messages, both by CID | `add_message`, `get_lineage`, `detect_missing_parent`, `detect_tampering`, `verify_dag_integrity` | fed by the flows |
| Credentials, status lists | a bit string per list | `issue_credential`, `verify_credential`; `StatusList.revoke`, `is_revoked`, `sign`, `from_signed` | a grant is derived from a credential |
| Key management | keys in memory, an encrypted file | `add_keypair`, `load_private_key`, `revoke`, `resolve`, `resolve_revoked`; inside, `_save` | resolver of the verifiers |
| DID resolution | caches of `did:web` and `did:sifr` | `resolve_document`, `resolve`, `resolve_for` | key lookup for signatures |
| QUIC and local transports | frame buffer, inbox, accept queue | `serve_quic` with its `accept`, `connect_quic`, `send`, `recv`, `close` | carries messages |
| Secure flow (`examples/`, `docker/`) | server and client roles | request, grant, action, result | composes all of the above |
| WASM runner | module cache, last evidence | `execute` | runs an authorized action |
| Trace conformance | none: it is given a trace | `check_trace_invariants`, eight checks | compares histories with `formal/` |
| Messages, crypto, configuration, tensors | none, or settings | pure functions | used everywhere |

What is hard here, and what each component has to guarantee:

* **Replay cache.** The clock is read before the lock; SQLite statements of
  several processes interleave; rows are deleted by processes whose clock value
  is old; processes crash, the file is busy, `close()` takes no lock. A key must
  be admitted once per window, by one process and by all of them together; a
  row that still matters must never be deleted; the lock must come back.
* **Revocation registry.** The entry goes into memory before the append that
  can fail; `reload()` empties the memory first; other processes append while
  the file is read; a failed write leaves part of a line. Reported revocations
  must be durable and must not be forgotten.
* **Authorization.** A series of tests in an order, each reading something that
  changes during the call; the replay key is used up first; the budget test and
  the increment are apart. Budgets must hold, a message must not be accepted
  twice, a lapsed capability must not get through.
* **Credentials and DIDs.** Resolvers cache for ever; a snapshot of a status list
  can be older than a revocation, or come from a run of the issuer that has lost
  its bits; the relationships of a document are read in the order of the hash
  seed. What a verifier accepts must be bounded by what was published and
  revoked, and its meaning must not change from process to process.
* **Key management.** A save fails or is cut off after the memory changed; the
  file can be opened with another passphrase. No key may be lost.
* **Audit DAG.** The CID of a message leaves its signature out, so a message that is
  added again replaces its node; parents can be added later or never, stored copies
  can change. What verifies must be what was added, with its history.
* **Transport.** Bytes come in pieces of any size, a connection ends in the middle
  of a frame, `accept` waits for a slow handshake. Messages must come whole and in
  order, and the loops must end.
* **Secure flow.** Sessions interleave on one cache, registry and audit graph; an
  action is sent again; the process starts again with an empty memory. Calls must
  be granted, in force and made once, results must answer the actions, nobody may
  wait for ever.

`PROJECT.json` lists each hazard at its line with the properties that cover it.

## 2. The modules

| module | models | role |
|---|---|---|
| `ReplayGate` | what replay protection promises | abstract specification |
| `ReplayCache` | `sifr/replay.py` | implements `ReplayGate` |
| `RevocationView` | what the registry promises | abstract specification |
| `RevocationRegistry` | `sifr/revocation.py` | implements `RevocationView` |
| `AuthorizeAction` | `sifr/capabilities.py`, in a cluster | composition over the two promises |
| `KeyStore` | `sifr/key_management.py` | state and steps of the store |
| `KeyRotation` | signing and verifying, `sifr/crypto.py`, with a `KeyStore` | composition |
| `LocalTransport` | `sifr/transport/local.py` | abstract specification |
| `QuicTransport` | `sifr/transport/quic.py` under the loops of `docker/quic_node.py` | implements `LocalTransport` |
| `DidDocuments` | parsing and looking up, `sifr/did/__init__.py`, `did_key.py` | operators |
| `DidResolution` | `did_web.py`, `did_sifr.py`, dispatch by method | state and steps of the resolvers |
| `Credentials` | `sifr/credentials.py`, `credential_status.py` | composition with `DidResolution` |
| `AuditDAG` | `sifr/audit_dag.py` | operators |
| `AuditLog` | an `AuditDAG` that is filled in any order, and whose copies change | state and steps |
| `WasmRunner` | `sifr/wasm_runner.py` with the calculator | operators |
| `Configuration` | `sifr/config.py` | operators |
| `TraceConformance` | `sifr/trace_conformance.py`, and `formal/sifr_capability.tla` as its reference | operators |
| `SecureFlow` | `examples/demo_secure_quic_wasm_did_flow.py` | composition of `AuditDAG`, `WasmRunner`, `Configuration` and `TraceConformance` with a cache, a registry and a store |
| `...Proofs` | theorems about the module of that name | TLAPS |
| `MC...` | small instances | constants for TLC |

`AuthorizeAction` uses `ReplayGate` through `INSTANCE`: it stands on what
`ReplayCache` is proved to implement, and not on the details of a table. Its
registry is a set per process that only grows, as in `RevocationView`.

Operators whose comment starts with *Mutation* are faulty variants of the
definition below them. No specification uses them: they are there to show that
each property notices a plausible bug of the code.

### ReplayCache

A step is what one thread does between two points where another thread, another
process or the clock can come between.

| action | code |
|---|---|
| `Open`, `Crash`, `Close` | construction loads the table; the process dies; `close()` |
| `RefuseOutsideWindow` | the checks before the lock raise |
| `Begin` | `nowdt` is read and the window tested, before the lock |
| `Acquire` | the lock, and the half of `_gc_locked` on `_mem` |
| `GcTable` | the `DELETE` |
| `RefuseKnown`, `NotKnown` | the test of `_mem`, either way |
| `Remember` | the assignment to it |
| `Insert`, `RefuseStored` | the `INSERT` commits, or meets the primary key |
| `AcceptFromMemory` | there is no database, or no longer |
| `StatementFails`, `CloseUnder` | SQLite raises: busy file, closed connection |

A message is its key and its timestamp; nothing else reaches the cache.
`tableLog` and `localLog` are histories: the calls that returned normally after
their `INSERT`, and those that returned in the present run of each process.
`Crash` empties the second. A connection is in autocommit mode
(`isolation_level=None`), so each statement is one step. The crash is that of a
process: what SQLite committed stays. A power failure under
`synchronous=NORMAL` is not modelled.

### RevocationRegistry

The registry has no lock and the repository calls it from one thread, so a
process makes one call at a time; the steps are the file operations: `Record`
(the entry goes into memory), `AppendSucceeds` or `AppendFails`, `Reload` (the
memory is dropped), one `LoadLine` per line, `LoadEnds` or `LoadRaises`. A line
is the capability it revokes, or `Bad`. A failed append writes nothing, a part
of its line, or the line without its newline; the next append goes on in the
same line (`Written`). The load of a large file is not atomic: other processes
append between two lines. A line that another process is still writing counts
as not written yet. The mode without a `store_path` is left out.

### AuthorizeAction

One step per group of tests that read the same changing thing: `CheckReplay`,
`CheckRegistry` (with the tests of mismatch, subject and action), `CheckExpiry`
(a second look at the clock, with the payload size), `CheckBudget` (with
delegation), then `AcceptOnly` (`consume=False`) or `ReadUsage` and
`WriteUsage`. A denial takes nothing back (`Deny`). `Begin` assumes a message
and a grant whose signatures were verified; with others the code raises before
it changes anything. The store's copies of grants are not kept because
`authorize_action` does not read them.

### KeyStore, KeyRotation

`OpenNew`, `OpenExisting`, `AddKeypair`, `Revoke` and `RevokeAgain` are the
calls; `WriteTmp`, `Rename` and `SaveFails` the steps of `_save`; `Die` ends the
process anywhere. An entry has the passphrase it was encrypted under, because the
store can be opened with another one. `KeyRotation` adds the owner that signs with
what `load_private_key` returns, and a verifier that resolves in the store.

### QuicTransport

The bytes of a stream are numbers: `Frame` writes the four bytes of the header and
the body, `Unframe` is the loop of `quic_event_received`, a `Round` per frame
(there are at most as many frames as there are fours of bytes). `Deliver` hands over
any number of bytes in `Chunks`, or all. The queue of an inbox has each frame in a
`<<>>`, so that an empty message is not the `None` that `Terminated` puts behind
the frames. `AcceptTakes` and `AcceptReturns` are the two awaits of `accept`, which the
servers of the repository call once: clients that arrive later stay in the queue.
`Lose` and `ConnectTimeout` are the failures. The applications are the loops of the
two containers: `ClientSends`, `ServerAnswers`, `ClientCloses`, `RecvRaises`.

### DidDocuments, DidResolution, Credentials

A raw document is its methods and, per relationship, references and embedded
methods. `Parse` takes the relationships in an order that `RestartResolver` chooses
anew, as a new hash seed does. `ResolveDocument` fills the cache, `Publish`
changes the document at its place. `since` is the history of the keys that were
published since the verifier started. `Credentials` adds an issuer that issues,
revokes (`RevokeIndex`), signs lists (`Sign`) and restarts, and a verifier that
loads any signed list (`Load`) and verifies. Dates are whole seconds.

### AuditDAG, AuditLog

A message is its content, the parents in it, and its signature; `CidOf` is the
content. `AddMessage` replaces a node of the same CID in its place. `Lineage` is the
depth-first walk of `get_lineage`, `Tampered` and `Intact` are `detect_tampering` and
`verify_dag_integrity`. `AuditLog` adds messages of a diamond in any order and again
(`Add`); `Change` and `Drop` are what the tests of the repository do to the dicts
behind the back of the class. `added` is the history of the last `add_message` per CID.

### SecureFlow

Only `recv`, `accept` and `connect` suspend a role, so a step goes from one `recv` to
the next: `ServerOffers` is hello, grant, credential and offer, `ServerAnswers` the
check of the replay cache, `authorize_action`, the tool, the observation and the
graph. An exception ends the process (`ProcessEnds`): `ServerRefusesReplay`,
`ServerRefusesUnauthorized`, `ServerToolFails`, `ClientRejects`. The demo runs one
session with everything in memory; the model has several, and a `SIFRConfig` says
whether the replay table survives `Crash` and `Restart`. Its
`revocation_log_uri` is validated and then used by nothing, so the registry of the
flow is in memory in every mode. `trace` takes the events as
`check_trace_invariants` would. `Half` is half the number of integers of the tool,
2^63 in the code. `Reference` is the calculator in Python, which takes
every number and does not wrap.

### TraceConformance

`States` are the states of the formal model of the repository
after each event; `Allowed` says that each `Consume` is one of its steps, and
`LifeCycles` that the other events are. `Recordings`, in `SecureFlow`, are the events of
the flow with what a recorder may add behind them: a call like the flow's or unlike it
in one respect, another grant, a call after the end of its key.

## 3. The runs

| run | instance | shows |
|---|---|---|
| `replay_table` | 2 processes, 1 thread each; one key with two timestamps; busy files, crashes, `close()` | once per window across the table, no live row is deleted, residence is bounded, the abstract gate is implemented, the lock comes back |
| `replay_threads` | 2 threads of one process, 1 of another; one key with two timestamps; crashes, and a table that is closed while calls run | each process implements a gate of its own (once per window within it, by lock and memory alone where the table is gone); a refused message was recorded, as long as the cache is not closed |
| `replay_pk_claim` | 2 processes, two keys, no fault | *violation*: a key is inserted twice |
| `revocation_log` | 2 processes, an issuer and a verifier, two capabilities, crashes and failed writes | durable, growing, complete after a reload, implements the view |
| `revocation_retry` | 1 process, failed writes | *violation*: a retried `revoke()` reports what is not in the file |
| `revocation_reload` | 2 processes, failed writes | *violation*: a reload that raises forgets what was known |
| `authorize_cluster` | 2 verifiers, 1 thread each, a grant for one call, two good messages and one that fails the last test, restarts | budgets, no message twice, nothing lapsed accepted |
| `keys` | 2 kids (one without a DID), 3 key pairs, 2 passphrases, crashes, failed saves | keys and revocations are durable, signatures of keys that are not revoked verify after rotations |
| `quic_transport` | 2 clients, one with messages of two lengths, pieces of 3, of 6 and of all bytes, a lost connection, a timeout; one call of `accept` | queues of whole messages, `accept` in the order of arrival, arrival of messages, end of the loops |
| `credentials` | 2 DIDs (`did:sifr`, `did:key`), 9 documents, 6 credentials, 2 signed lists, 2 runs of the issuer | how stale keys and revocations can be; the hash seed does not matter |
| `secure_flow` | 2 sessions, one restart, one end of a capability, 8 settings of which `validate` lets four start (one in each mode) and refuses four, 4 pairs of arguments | calls conform to the checker, the checker agrees with the formal model, graph, results, end of the sessions |
| `audit_log` | 4 messages in a diamond, 2 signatures each, one changed or dropped copy | lineages are histories, what verifies is what was added |

**Bounds.** `MaxClock` stops the clock (2, with a window of 1: a message sent at
0 is fresh at 1 and stale at 2, and a thread that read the clock at 0 or 1 can
still run at 2, which is the interesting case). `MaxLines` bounds the log (no
append starts beyond it; three lines hold two capabilities and a duplicate or a
torn line). `MaxLog` bounds the admissions of the gate in `authorize_cluster`;
when it is reached, calls are denied. Timestamps are 0, 1 and 2. Two processes
suffice for the shared table because every race in it is between one `DELETE` or
`INSERT` and one other call; the theorems below cover the rest. Symmetry (of
capability ids) is used only in `revocation_retry`, which checks an invariant.
Deadlock is checked in every run
but those of the transport and the secure flow, whose sessions end.

A header of four bytes and bodies of one and two bytes, in pieces of three and six,
give a cut within the header, behind it, within the body and behind several frames.
`MaxTime` = 1 gives revocations and lists of one second and of two; two runs of the
issuer are one restart. Nine documents have each form of a method that
`_parse_verification_method_entry` accepts or refuses and each dependence between two
relationships. `Half` = 4 lets a sum of two arguments wrap. A diamond is
the smallest graph in which a node is reached on two ways. In `replay_threads` a thread
of the process whose table is closed, one that is behind the test of the memory, and one
of another process are the parties of each race on `_mem`. One restart is enough to lose
what is in memory, and two sessions to send an action again.

**Fairness.** `FairSpec` has weak fairness of `Acquire(t)` and of `InLock(t)`
for each thread, and nothing else: Python runs its threads, and inside the lock
nothing waits for another thread; a busy file is a wait of at most five seconds
that ends in an answer. `threading.Lock` is not fair, so nothing stronger than
weak fairness is assumed of `Acquire`. No process is obliged to start, to call,
to close or to crash, and the clock need not move. `LockReleased` needs only
the fairness of `InLock`. In `QuicTransport` QUIC delivers and reports the end
(`Deliver`, `Terminated`), and asyncio resumes each loop that can go on, the server's
single call of `accept` included; `accept` is not called again for a second client,
nobody has to connect and no handshake has to succeed. In `SecureFlow` each role goes on when
it has something to read (`SentArrives`); nobody has to connect, and nothing is
assumed of `Crash`, `Restart`, `Revoke` and `Expire`.

## 4. What is proved

Eight modules hold proofs. Each theorem holds for every value of the constants
that satisfies the named assumptions of its module, which say of what kind the
constants are (and that `NoCall`, `Absent`, `NoFile`, `Bad`, `None` are none of the
values they stand beside); the bounds of the exploration may be any number. Where a
theorem has a hypothesis of its own it is given below. Every safety property and
every refinement that a passing run checks is proved, but for those of `AuditLog`.

### The replay cache

`ReplayCacheProofs`, for every number of processes, threads, messages and
timestamps, every window, with and without a table, under every subset of the
faults, from `ReplayAssumption`.

| theorem | says |
|---|---|
| `TypeCorrect` | `Spec => []TypeOK` |
| `TableOncePerWindowHolds` | the table admits a key at most once per window |
| `LiveRowsKeptHolds` | no collection deletes a row that can still matter |
| `TableGateHolds` | the caches over one table implement `ReplayGate` |
| `ProcessOncePerWindowHolds` | one run of a process admits a key at most once per window, also where the table is closed |
| `ProcessGateHolds` | each process implements a gate that its restart empties |
| `ResidenceBoundedHolds` | no entry is more than a window ahead of the clock |
| `RefusedOnlyIfRecordedHolds` | if `Faults \subseteq {"crash", "close"}`: what a process refuses was recorded, unless its cache was closed |

*The table.* `TableOncePerWindow` is not inductive: nothing in it says that the
row of an earlier admission is still there when the next `INSERT` comes.
`TableInv` adds `LiveRowsKept` (each admission that is still live has its row)
and `RequestsWereFresh` (the `nowdt` of every call is in the past, and its
message was fresh then). A `DELETE` with an old `nowdt` removes fewer rows than
one with the present time, so it cannot remove a live row; and an `INSERT` that
meets no row meets no live admission.

*A process.* Without a table the memory has to do it alone. `ProcessInv` has
the lock discipline (`HoldsLock`: a thread between `Acquire` and the end of its
call is the holder), `MemoryKept` (each live admission of this run is in
`_mem`), `InsertIsPrepared` (a thread about to insert has its message in `_mem`
and no live admission of the key), and `DownIsEmpty`. Two threads cannot be
behind the test of `_mem` together because of the lock; this is the point where
`close()` in the middle of a call does no harm.

*Refusals.* `RecordInv`: each key in a memory or in the table was recorded by a call
that returned, or belongs to a thread in front of its `INSERT`; that thread has the
lock, so the one that refuses does not meet its key. The hypothesis is needed: a
statement that fails leaves its key in `_mem`; so does `close()` in front of an
`INSERT`, whence a closed cache is exempt.

*Refinement.* For both gates each step is matched: `Insert` (and, for a
process, `AcceptFromMemory`) to `Admit`, whose guard is what the invariant says;
`Tick` to `Tick`; `Crash` to `Forget`; all others to a stutter.

### The revocation registry

`RevocationRegistryProofs`, for any processes, issuers, verifiers and
capabilities, and a log of any length.

| theorem | says |
|---|---|
| `TypeCorrect` | `Spec => []TypeOK` |
| `DurableUntilFailureHolds` | what was reported is in the file, until a write fails |
| `ReloadSeesAllHolds` | a reload that returns has all of the file, after failed writes too |
| `KnownOnlyGrowsHolds` | if `Procs \subseteq Verifiers`: no running process forgets a revocation, until a write fails |
| `ImplementsViewHolds` | the registries implement `RevocationView`, until a write fails |

`MemoryInv` holds under all faults: outside a load the memory is what was last
answered (and the entry being appended), and a load has every good line before
its position. It needs that a write keeps each line in its place and changes it
only into `Bad` (`WrittenKeeps`). `LogInv` holds until a write fails: the lines
are complete, and what is reported, known or loaded is in the file. Durability
alone is not inductive, since `revoke()` of a known capability reports it without
writing. The hypothesis of `KnownOnlyGrowsHolds` is needed: `reload()` of an
issuer without a `verifier_key` raises with an empty memory.

### Authorization

`AuthorizeActionProofs`, for any processes, threads, grants and messages, any
window, with and without restarts.

| theorem | says |
|---|---|
| `TypeCorrect` | `Spec => []TypeOK` |
| `NothingLapsedIsAcceptedHolds` | nothing revoked or expired at its beginning gets through |
| `AcceptedOncePerWindowHolds` | all processes together accept a message once per window |
| `BudgetPerStoreHolds` | if `OneThreadEach`: a run of a store stays within the budget |
| `ExhaustedOnlyByUseHolds` | a store denies for its budget only after as many accepted calls, with any number of threads |

`CallPassed` carries what the tests have established through the steps of a
call: time and the view of the revocations have only grown since it began.
`OneUse` makes the replay property inductive: whatever was accepted, or is past
the cache and may be accepted later, has its record in the gate, and two of them
with one message mean that its window is over. It speaks of all threads, so
denials and restarts in between do no harm. `BudgetInv` says that a call behind
the budget test still has room, and that what it read is still the counter. That
is where `OneThreadEach` (no two threads share a process) comes in: with two threads
on one store a budget can be exceeded. `CounterInv`, for `ExhaustedOnlyByUse`, does
without it: neither the counter nor what any thread has read of it is above the
number of accepted consuming calls, so a write of an old value keeps it so.

### The key store

`KeyRotationProofs`, for any kids, passphrases and DIDs, under every subset of the
faults.

| theorem | says |
|---|---|
| `TypeCorrect` | `Spec => []TypeOK` |
| `AddedIsDurableHolds` | an added key stays in the file |
| `OldSignaturesVerifyHolds` | what was signed with it verifies whenever the store is open, unless it was revoked |
| `RevocationKeptHolds` | reported revocations are in the file unless a save raised; saves lose nothing |

A rename replaces the whole file by the memory, so `AddedIsDurable` needs
`MemoryHasFile`: what an open store has in memory is the file and more.
`FileIsCurrent` (between calls the two are equal unless a save raised) covers the
revocations that are reported without a save.

### The transport

`QuicTransportProofs`, for any connections, scripts, losses and sizes of the
pieces, and bodies of any length that four bytes can tell.

| theorem | says |
|---|---|
| `TypeCorrect` | `Spec => []TypeOK`; no complete frame waits in a buffer |
| `ImplementsLocalHolds` | each direction of each connection is a queue of whole messages |

The bytes behind a place where a frame was taken off are a sequence of whole frames:
`IsStream(w, m, p)` says that there are cuts in `w` between which the frames of the
messages behind the p-th stand. `FirstFrame` shows that the first complete frame is
the next message and that a stream is left behind it, `Unframes` that the rounds of
the loop take all complete frames and stop; the loop is unfolded from the existence
of its run (`Iteration`). `Fits` relates, for one direction, what was sent and
received to the inbox, and buffer and wire together to the stream of the rest, so
that neither the size of a piece nor the place of a cut matters. When a connection
has ended the bytes on the wire no longer count. `Send` is then `Send` of
`LocalTransport`, `Receives` is `Recv`, and every other step a stutter.

### Documents and credentials

`CredentialsProofs`, for any documents, DIDs, keys, resolver orders and lists.

| theorem | says |
|---|---|
| `TypeCorrect` | `Spec => []TypeOK` |
| `AcceptedKeyWasPublishedHolds` | an accepted key was published since the verifier started |
| `DateTellsContentHolds` | a signed list has the revocations of its run before its date, and none after it |
| `RevokedBeforeDateIsRefusedHolds` | what was revoked before the date of the list is refused |
| `OrderIsIrrelevant` | a self-contained document means the same in every order |
| `SeedIrrelevantHolds` | so it does in every reachable state |

`Inv` has `DidInv` (what a cache holds are keys that were published since the start),
`PastInv` (nothing is dated in the future), `ListInv` (the bits are the revocations of
this run, none later than a date that is pinned), `SignedInv` (the same for what was
signed) and `AcceptedInv`. `DateTellsContent` is not inductive without `ListInv`: the
date of a list is fixed when it is first signed, and has to be cleared by the next
revocation.

`OrderIsIrrelevant` follows the loops of the parser: `ReadTo` says what is in the
document once the embedded methods of a set were met, `Grown` that the method list
is the listed ones and one of that set for each new id. The set is the same after
all relationships in any order, and the lookup (the first method of an id) finds the
same key because a self-contained document has one embedded method for each id.

### The trace checker

`ChecksAreExact` (`TraceConformanceProofs`): for every trace of any length in which
each capability is issued once and ends once (`LifeCycles`), the eight checks accept
exactly what the formal model allows. The states of the formal model are recursive;
`ClosedForm` gives each of them as a set of earlier events, and `StatesAre` shows by
induction that it is the recursion. Then each guard of `Consume` is one of the
checks. `CheckerIsExactHolds`, among the theorems of the secure flow, applies it there.

### The secure flow

`SecureFlowProofs`, for any sessions, settings and arguments, any number of restarts
and ends, and a runner of any width.

| theorem | says |
|---|---|
| `TypeCorrect` | `Spec => []TypeOK`; the results fit the tool's integers |
| `ClusteredAdmitsOnceHolds` | in a clustered mode no action is admitted twice |
| `TraceConformsHolds` | the events of every run pass the eight checks |
| `CheckerIsExactHolds` | on these events, and what is recorded after them, the checks accept what the formal model allows |
| `AuditTrailHolds` | the graph is intact, the history of an observation is its action |
| `ResultAnswersActionHolds` | a result answers the action that its session sent: it is the sum wherever that fits |

`ResultInv` is about the conversation: `Exchange` lists the seven ways in which two
roles and the messages on their way can stand, and a result on its way is the answer
to the action its client signed. `ReplayInv` needs `Valid(config)`: that a clustered
mode has a durable replay table is what `validate` refuses otherwise. `TraceInv`
does without the replay cache, whose memory a restart empties: an event fits how far
its session has come, there is one grant and one call per session, and a call comes
before the end of its capability. `DagInv` says that the nodes are the messages of
the sessions, that an action has no parent and an observation its action. `Lineage` is
recursive: on such a graph its values are written down and shown to solve the recursion.

### Only model-checked

Liveness is out of the prover's reach: `LockReleased`, `AcceptServes`,
`SentArrives`, `LoopsEnd`, `FlowEnds`. They are checked under the fairness of
section 3. The properties of `AuditLog` are checked and not proved: what the recursive
walk of `get_lineage` lists for every graph is an induction over the graph.

The library's induction theorems cannot be used (they take an operator), so
induction over numbers is done by the least counterexample, from the
well-foundedness of `<` (`Least`, `Upwards`), and a recursive function is unfolded by
constructing it (`Iteration`). The lemmas are in each module that needs them.

## 5. Where the code and the documents part

* `replay_pk_claim`. `docs/revocation_replay_scope.md:20` calls a second
  `INSERT` of a key impossible. A call that waits for the lock with an old
  `nowdt` inserts the key again after another call has collected the expired
  row. What holds instead is once per window, proved above.
* `revocation_retry`. `revoke()` puts the entry into memory before it appends.
  When the append raises and the caller tries again, the early return for a known
  capability reports success, and the file never gets the entry.
* `revocation_reload`. `reload()` drops the memory and then loads; when a line
  does not parse it raises, and the revocations behind that line are forgotten by
  a process that knew them.

Five more disagreements show in the definitions; no run is about them:

* `docs/model_code_traceability_v0_4.md:15` has `resolve` raise for revoked kids.
  `EncryptedFileKeyStore.resolve` returns any key it has (`Resolves` in `KeyStore`), and
  `verify_message` does not ask `resolve_revoked`: a message signed with a revoked key
  verifies against the store that revoked it. `OldSignaturesVerify` is about kids that
  are not revoked.
* The docstring of `serve_quic` (`sifr/transport/quic.py:115`) has `accept` return the
  next client whose handshake has completed. It takes the first connection of the queue
  and waits for that one (`AcceptTakes`, `AcceptReturns`), so a client that is ready
  waits behind one that never will be.
* `docs/wasm_sandbox.md:44` has the module and the Python reference agree at overflow
  boundaries. A sum beyond 64 bits wraps in one of them (`Wrap`, `Reference`), and
  `ResultAnswersAction` compares the two where the sum fits.
* `docs/security_claims_v0_4.md:73` has every altered byte of a stored message change
  its CID. The CID leaves the signature out (`CidOf`), so a graph in which a stored
  signature has changed still verifies; `VerifiedIsGenuine` is about the content.
* `docs/formal_scope.md:71` has the checker evaluate `NoConsumeAfterRevoke` of the formal
  model. It takes an `Issue` after a `Revoke` for a renewal (`Active`), so a call after
  both passes; hence `LifeCycles` in `CheckerIsExact`.

More behaviours came up that no document denies. With busy files
`RefusedOnlyIfRecorded` fails: `_mem` keeps the key of an `INSERT` that raised
(`replay.py:91`), so a retry is refused although nothing was recorded; hence
`replay_threads` has no busy files. After a failed append, the next append of
another process continues the torn line and is lost with it
(`revocation.py:115`), although it returns normally; hence the properties of
`revocation_log` say "until a write fails". And the call budget is kept per
process, so a cluster accepts `max_calls` per verifier, which
`docs/proof_obligations_v0_3.md:43` states as a limitation.

After a failed save a retried `revoke()` of a key returns
early and reports a mark that is not in the file, which `RevocationKept` exempts
(`key_management.py:170`). Resolvers cache for ever, so a key that was rotated
away is accepted until the verifier restarts, and its successor is not. An older
signed list, or one signed after a restart of the issuer, hides a revocation.
Two documents of the run mean different things under different hash seeds
(`did/__init__.py:262`), which is why `SeedIrrelevant` is about `SelfContained`
documents.

## 6. Assumptions

All processes of one table run on one host, whose clock does not go back (the
documents assume the same, `docs/security_claims_v0_4.md`, C2). Signatures and
canonical forms are correct. A registry and a capability store serve one call at
a time (C1 assumes this; neither has a lock). With two threads on one store
more calls than the budget can be accepted, as the steps `CheckBudget`, `ReadUsage`
and `WriteUsage` show; `ExhaustedOnlyByUse` holds there too.

One process uses a key store at a time. QUIC delivers the bytes of a stream in
order and reports the end of a connection to both sides. A signed list carries a
good signature; status lists of other issuers are other instances.

## 7. What is left

*Proofs.* The compositions stand on promises and not yet on the components as such:
`SecureFlow` has its replay cache and its registry as sets, of which the gate and the
view are proved for `ReplayCache` and `RevocationRegistry`; that its sets implement
`ReplayGate` and `RevocationView` is not stated. `RevocationKept` and
`KnownOnlyGrows` could be given for a single run of a process after a failed write.

*Partly modelled.* The registry without a `store_path` is a dict. Grants are
verified before `authorize_action`; `verify_capability_grant` is a guard. Of the
WASM runner the calculator is modelled: fuel, memory limits, the cache of
compiled modules and `try_instantiate` concern other modules than the one that is
shipped. Of the configuration, reading the environment, `payload_limit` and the redaction of
errors are conversions that no flow calls. `demo_two_agents.py` is a straight
line of calls over a local transport.

*Not modelled.* Cryptographic primitives, the canonical JSON and the multibase,
varint and JWK encodings (byte formats, taken as correct); QUIC itself and the
certificates (a library); tensors (conversions without state);
`HttpJsonBaselineTransport` and `export_jsonl` (serialisations); power failures
under `synchronous=NORMAL`; benchmarks, figures, paper, scripts and containers
(not part of the running system).
